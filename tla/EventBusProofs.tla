--------------------------- MODULE EventBusProofs ---------------------------
(***************************************************************************)
(* Proofs about EventBus for every program with at most one module of each *)
(* kind, in any order, and any number of dispatches.                       *)
(*                                                                         *)
(* The invariant says what the call stack looks like (Nesting), what the   *)
(* frames in it carry (Contents), and, for each history the properties     *)
(* compare, what is still to come from the frames under way: a raw message *)
(* that has not come to a module, a parsed one, the lines logged of it.    *)
(***************************************************************************)
EXTENDS EventBus, FiniteSetTheorems, TLAPS

-----------------------------------------------------------------------------
(* The invariant *)

(* What a program dispatches itself.                                       *)
Origin == {"RAW_MESSAGE_RECEIVED", "TIME_TO_REGISTER", "NETWORK_SOCKET_CREATED"}

(* The dispatch of the program, and the one inside it.                     *)
Outer == stack[Len(stack)]
Inner == stack[Len(stack) - 1]

(* The loop of a dispatch has called l.                                    *)
Passed(f, l) == \E i \in 1 .. f.next - 1 : listeners[i] = l

(* A line logged of a message.                                             *)
IsLine(f) == f.type = "LOG_MESSAGE" /\ f.msg # Null

(* What a program dispatches is outermost, a parsed message is dispatched  *)
(* right inside the raw one, and only what it leads to inside of it: of    *)
(* that, what is not innermost has yet to begin.                           *)
Nesting ==
  /\ \A i \in DOMAIN stack : 1 < i /\ i < Len(stack) - 1 => stack[i].next = 1
  /\ \A i \in DOMAIN stack : stack[i].type \in Origin <=> i = Len(stack)
  /\ \A i \in DOMAIN stack :
       stack[i].type = "MESSAGE_PARSED" <=> i = Len(stack) - 1 /\ Outer.type = "RAW_MESSAGE_RECEIVED"
  /\ Len(stack) > 2 => Outer.type = "RAW_MESSAGE_RECEIVED"

(* A message under way is the last submitted, its parsed form is sent out  *)
(* by the parser, and a connection is one a program has dispatched. If the *)
(* innermost event is a line logged of the message, so is all that is to   *)
(* be dispatched before the parsed message, which nobody has seen.         *)
Contents ==
  /\ \A i \in DOMAIN stack :
       /\ stack[i].type \in {"RAW_MESSAGE_RECEIVED", "MESSAGE_PARSED"} =>
            Len(submitted) > 0 /\ stack[i].msg = Len(submitted)
       /\ stack[i].msg \in {Null, Len(submitted)}
       /\ stack[i].type \in {"TIME_TO_REGISTER", "NETWORK_SOCKET_CREATED"} =>
            \E k \in DOMAIN others : others[k] = stack[i].connection
  /\ Len(stack) > 1 /\ Outer.type = "RAW_MESSAGE_RECEIVED" =>
       /\ Outer.next > 1 /\ listeners[Outer.next - 1] = "parser"
       /\ ~submitted[Len(submitted)].cut
  /\ \A i \in DOMAIN stack : IsLine(stack[i]) =>
       /\ i < Len(stack) - 1 /\ Inner.next = 1
       /\ \A k \in 1 .. Len(stack) - 2 : IsLine(stack[k])

(* At most one module of each kind.                                        *)
Unique == \A i, j \in DOMAIN listeners : listeners[i] = listeners[j] /\ i # j => listeners[i] = "dangling"

(* Nothing goes on after undefined behaviour.                              *)
Stopped == undefined => stack = <<>>

StackInv == TypeOK /\ Nesting /\ Contents /\ Unique /\ Stopped

-----------------------------------------------------------------------------
(* The stack *)

(* The event a handler has been called with, as it left it.                *)
Left(e) == e \in Frame /\ e.type = evt.type /\ e.msg = evt.msg /\ e.connection = evt.connection /\ e.next = evt.next

(* One sequence behind another.                                            *)
LEMMA Concatenation ==
  ASSUME NEW S, NEW s \in Seq(S), NEW t \in Seq(S)
  PROVE  /\ s \o t \in Seq(S) /\ Len(s \o t) = Len(s) + Len(t)
         /\ \A i \in 1 .. Len(s) : (s \o t)[i] = s[i]
         /\ \A i \in 1 .. Len(t) : (s \o t)[Len(s) + i] = t[i]
  OBVIOUS

(* What a return does to the stack, counted from its bottom: the nested    *)
(* dispatches come on top, the loop that called goes on.                   *)
LEMMA ReturnsStack ==
  ASSUME stack \in Seq(Frame), stack # <<>>, NEW e \in Frame, NEW nested \in Seq(Frame), Returns(e, nested)
  PROVE  /\ stack' \in Seq(Frame)
         /\ Len(stack') = Len(nested) + Len(stack)
         /\ \A i \in 1 .. Len(nested) : stack'[i] = nested[i]
         /\ stack'[Len(nested) + 1] = [e EXCEPT !.next = @ + 1]
         /\ \A i \in 2 .. Len(stack) : stack'[Len(nested) + i] = stack[i]
<1> DEFINE f == [e EXCEPT !.next = @ + 1]
           top == nested \o <<f>>
           rest == Tail(stack)
<1>1. f \in Frame
  <2>1. e.next + 1 \in Nat
    BY DEF Frame
  <2> QED
    BY <2>1 DEF Frame
<1>2. rest \in Seq(Frame) /\ Len(rest) = Len(stack) - 1 /\ \A i \in 1 .. Len(rest) : rest[i] = stack[i + 1]
  OBVIOUS
<1>3. /\ top \in Seq(Frame) /\ Len(top) = Len(nested) + 1
      /\ \A i \in 1 .. Len(nested) : top[i] = nested[i]
      /\ top[Len(nested) + 1] = f
  BY <1>1
<1>4. stack' = top \o rest
  BY DEF Returns
<1> HIDE DEF f, top, rest
<1>5. /\ stack' \in Seq(Frame) /\ Len(stack') = Len(top) + Len(rest)
      /\ \A i \in 1 .. Len(top) : stack'[i] = top[i]
      /\ \A i \in 1 .. Len(rest) : stack'[Len(top) + i] = rest[i]
  <2>0. top \in Seq(Frame) /\ rest \in Seq(Frame)
    BY <1>2, <1>3
  <2>1. /\ top \o rest \in Seq(Frame) /\ Len(top \o rest) = Len(top) + Len(rest)
        /\ \A i \in 1 .. Len(top) : (top \o rest)[i] = top[i]
        /\ \A i \in 1 .. Len(rest) : (top \o rest)[Len(top) + i] = rest[i]
    BY <2>0, Concatenation
  <2> QED
    BY <1>4, <2>1
<1>6. \A i \in 2 .. Len(stack) : stack'[Len(nested) + i] = stack[i]
  <2> SUFFICES ASSUME NEW i \in 2 .. Len(stack) PROVE stack'[Len(nested) + i] = stack[i]
    OBVIOUS
  <2>1. i - 1 \in 1 .. Len(rest) /\ Len(top) + (i - 1) = Len(nested) + i
    BY <1>2, <1>3
  <2>2. stack'[Len(top) + (i - 1)] = rest[i - 1]
    BY <1>5, <2>1
  <2>3. rest[i - 1] = stack[i - 1 + 1]
    BY <1>2, <2>1
  <2> QED
    BY <2>1, <2>2, <2>3
<1>7. Len(stack') = Len(nested) + Len(stack)
  BY <1>2, <1>3, <1>5
<1>8. \A i \in 1 .. Len(nested) + 1 : stack'[i] = top[i]
  BY <1>3, <1>5
<1>9. stack'[Len(nested) + 1] = f /\ \A i \in 1 .. Len(nested) : stack'[i] = nested[i]
  BY <1>3, <1>8
<1> QED
  BY <1>5, <1>6, <1>7, <1>9 DEF f

(* What the end of a loop does to the stack.                               *)
LEMMA EndStack ==
  ASSUME stack \in Seq(Frame), stack # <<>>, stack' = Tail(stack)
  PROVE  /\ stack' \in Seq(Frame) /\ Len(stack') = Len(stack) - 1
         /\ \A i \in 1 .. Len(stack') : stack'[i] = stack[i + 1]
  OBVIOUS

(* The event being delivered is the first of the stack.                    *)
LEMMA Delivered ==
  ASSUME StackInv, stack # <<>>
  PROVE  /\ 1 <= Len(stack) /\ evt = stack[1] /\ evt \in Frame
         /\ evt.next \in 1 .. Len(listeners) + 1 /\ evt.msg \in 0 .. Len(submitted)
         /\ evt.type \in Origin <=> Len(stack) = 1
         /\ evt.type = "MESSAGE_PARSED" <=> Len(stack) = 2 /\ Outer.type = "RAW_MESSAGE_RECEIVED"
<1>1. stack \in Seq(Frame) /\ Len(stack) \in Nat /\ Len(stack) # 0
  BY DEF StackInv, TypeOK
<1>2. 1 \in DOMAIN stack /\ evt = stack[1]
  BY <1>1 DEF evt
<1>3. evt \in Frame /\ evt.next \in 1 .. Len(listeners) + 1 /\ evt.msg \in 0 .. Len(submitted)
  BY <1>1, <1>2 DEF StackInv, TypeOK
<1>4. evt.type \in Origin <=> Len(stack) = 1
  BY <1>1, <1>2 DEF StackInv, Nesting
<1>5. evt.type = "MESSAGE_PARSED" <=> Len(stack) = 2 /\ Outer.type = "RAW_MESSAGE_RECEIVED"
  <2>1. evt.type = "MESSAGE_PARSED" <=> 1 = Len(stack) - 1 /\ Outer.type = "RAW_MESSAGE_RECEIVED"
    BY <1>2 DEF StackInv, Nesting
  <2> QED
    BY <1>1, <2>1
<1>6. 1 <= Len(stack)
  BY <1>1
<1> QED
  BY <1>2, <1>3, <1>4, <1>5, <1>6

(* What a handler that returns may have dispatched: what the register      *)
(* logic answers with carries no message, and the parser's own events      *)
(* carry the one it has parsed.                                            *)
Reply(f) == f \in Frame /\ f.type \in {"CREATE_NETWORK_SOCKET", "SEND_MESSAGE", "LOG_MESSAGE"} /\ f.msg = Null /\ f.next = 1

ParserSends(nested) ==
  /\ evt.type = "RAW_MESSAGE_RECEIVED" /\ listeners[evt.next] = "parser" /\ ~submitted[evt.msg].cut
  /\ submitted[evt.msg].lines \in Nat /\ Len(nested) = submitted[evt.msg].lines + 1
  /\ \A i \in 1 .. submitted[evt.msg].lines : nested[i] = Log(evt.msg)
  /\ nested[Len(nested)] = Parsed(evt.msg)

Sends(nested) ==
  \/ nested = <<>>
  \/ evt.type \in {"TIME_TO_REGISTER", "NETWORK_SOCKET_CREATED"} /\ Len(nested) = 1 /\ Reply(nested[1])
  \/ evt.type = "MESSAGE_PARSED" /\ Len(nested) = 2 /\ Reply(nested[1]) /\ Reply(nested[2])
  \/ ParserSends(nested)

(* A handler has returned.                                                 *)
Handled(e, nested) ==
  /\ stack # <<>> /\ evt.next <= Len(listeners)
  /\ Left(e) /\ nested \in Seq(Frame) /\ Sends(nested) /\ Returns(e, nested)
  /\ UNCHANGED <<program, undefined>>

(* The events that are made are frames.                                    *)
LEMMA PlainFrame ==
  ASSUME NEW type \in EventType
  PROVE  /\ Plain(type) \in Frame /\ Plain(type).type = type /\ Plain(type).msg = Null /\ Plain(type).next = 1
         /\ Plain(type).connection = "unset"
  BY DEF Plain, Frame, Null, Connection

LEMMA MadeFrames ==
  ASSUME NEW msg \in Nat
  PROVE  /\ Log(msg) \in Frame /\ Log(msg).type = "LOG_MESSAGE" /\ Log(msg).msg = msg /\ Log(msg).next = 1
         /\ Parsed(msg) \in Frame /\ Parsed(msg).type = "MESSAGE_PARSED" /\ Parsed(msg).msg = msg
         /\ Parsed(msg).next = 1 /\ Parsed(msg).has /\ ~Parsed(msg).claimed
  BY DEF Log, Parsed, Plain, Frame, EventType, Connection, Null

(* What the parser makes.                                                  *)
LEMMA MadeLines ==
  ASSUME NEW msg \in Nat, submitted[msg].lines \in Nat
  PROVE  LET nested == LogLines(msg) \o <<Parsed(msg)>>
             lines  == submitted[msg].lines
         IN  /\ nested \in Seq(Frame) /\ Len(nested) = lines + 1
             /\ \A i \in 1 .. lines : nested[i] = Log(msg)
             /\ nested[Len(nested)] = Parsed(msg)
<1> DEFINE lines == submitted[msg].lines
           s == LogLines(msg)
           t == <<Parsed(msg)>>
<1>1. s \in Seq(Frame) /\ Len(s) = lines /\ \A i \in 1 .. lines : s[i] = Log(msg)
  <2> DEFINE l == Log(msg)
             repeated == [i \in 1 .. lines |-> l]
  <2>1. l \in Frame /\ lines \in Nat /\ s = repeated
    BY MadeFrames DEF LogLines
  <2> HIDE DEF l, lines, s
  <2>2. repeated \in Seq(Frame) /\ Len(repeated) = lines /\ \A i \in 1 .. lines : repeated[i] = l
    BY <2>1
  <2> QED
    BY <2>1, <2>2 DEF l
<1>2. t \in Seq(Frame) /\ Len(t) = 1 /\ t[1] = Parsed(msg)
  BY MadeFrames
<1> HIDE DEF s, t, lines
<1>3. /\ s \o t \in Seq(Frame) /\ Len(s \o t) = Len(s) + Len(t)
      /\ \A i \in 1 .. Len(s) : (s \o t)[i] = s[i]
      /\ \A i \in 1 .. Len(t) : (s \o t)[Len(s) + i] = t[i]
  BY <1>1, <1>2, Concatenation
<1>4. lines \in Nat
  BY DEF lines
<1>5. /\ s \o t \in Seq(Frame) /\ Len(s \o t) = lines + 1
      /\ \A i \in 1 .. lines : (s \o t)[i] = Log(msg)
      /\ (s \o t)[Len(s \o t)] = Parsed(msg)
  BY <1>1, <1>2, <1>3, <1>4
<1> QED
  BY <1>5 DEF s, t, lines

(* A raw message being dispatched has a number of lines.                   *)
LEMMA LinesNat ==
  ASSUME StackInv, stack # <<>>, evt.type = "RAW_MESSAGE_RECEIVED"
  PROVE  submitted[evt.msg].lines \in Nat /\ submitted[evt.msg] \in Text
<1>1. submitted \in Seq(Text) /\ Len(submitted) \in Nat /\ stack \in Seq(Frame) /\ Contents
  BY DEF StackInv, TypeOK
<1>2. 1 \in DOMAIN stack /\ evt = stack[1]
  BY <1>1, Delivered
<1>3. evt.msg = Len(submitted) /\ Len(submitted) > 0
  BY <1>1, <1>2 DEF Contents
<1>4. submitted[evt.msg] \in Text
  BY <1>1, <1>3
<1> QED
  BY <1>4, EventBusAssumption DEF Text

(* What the register logic makes.                                          *)
LEMMA ReplyFrames ==
  /\ Reply(Log(Null)) /\ Reply(Plain("SEND_MESSAGE")) /\ Reply([Plain("SEND_MESSAGE") EXCEPT !.has = TRUE])
  /\ \A c \in Connection : Reply([Plain("CREATE_NETWORK_SOCKET") EXCEPT !.connection = c])
  BY DEF Reply, Log, Plain, Frame, EventType, Connection, Null

(* How each handler that returns does so.                                  *)
LEMMA HandlerReturns ==
  ASSUME StackInv
  PROVE  /\ Ignore \/ NetworkQueues \/ LogWriterWrites => Handled(evt, <<>>)
         /\ AppTakes => Handled(IF evt.claimed THEN evt ELSE [evt EXCEPT !.has = FALSE, !.claimed = TRUE], <<>>)
         /\ ParserParses => \E nested : ParserSends(nested) /\ Handled([evt EXCEPT !.has = FALSE], nested)
         /\ RegisterProceeds => \E nested : Handled(evt, nested)
         /\ RegisterTakes =>
              \E nested : Handled(IF submitted[evt.msg].register THEN [evt EXCEPT !.has = FALSE] ELSE evt, nested)
<1>1. stack # <<>> => evt \in Frame /\ evt.msg \in Nat /\ evt.next \in Nat /\ Left(evt)
  BY Delivered DEF Left, Frame
<1>2. <<>> \in Seq(Frame) /\ Sends(<<>>)
  BY DEF Sends
<1>3. ASSUME Ignore \/ NetworkQueues \/ LogWriterWrites PROVE Handled(evt, <<>>)
  <2>1. stack # <<>> /\ evt.next <= Len(listeners) /\ Returns(evt, <<>>) /\ UNCHANGED <<program, undefined>>
    BY <1>3 DEF Ignore, NetworkQueues, LogWriterWrites, Handles, Called, modules
  <2> QED
    BY <1>1, <1>2, <2>1 DEF Handled
<1>4. ASSUME AppTakes
      PROVE  Handled(IF evt.claimed THEN evt ELSE [evt EXCEPT !.has = FALSE, !.claimed = TRUE], <<>>)
  <2> DEFINE e == IF evt.claimed THEN evt ELSE [evt EXCEPT !.has = FALSE, !.claimed = TRUE]
  <2>1. stack # <<>> /\ evt.next <= Len(listeners) /\ Returns(e, <<>>) /\ UNCHANGED <<program, undefined>>
    BY <1>4 DEF AppTakes, Handles, Called
  <2>2. Left(e)
    BY <1>1, <2>1 DEF Left, Frame
  <2> HIDE DEF e
  <2>3. Handled(e, <<>>)
    BY <1>2, <2>1, <2>2 DEF Handled
  <2> QED
    BY <2>3 DEF e
<1>5. ASSUME ParserParses
      PROVE  \E nested : ParserSends(nested) /\ Handled([evt EXCEPT !.has = FALSE], nested)
  <2> DEFINE e == [evt EXCEPT !.has = FALSE]
             n == evt.msg
             nested == LogLines(n) \o <<Parsed(n)>>
  <2>1. /\ stack # <<>> /\ evt.next <= Len(listeners) /\ listeners[evt.next] = "parser"
        /\ evt.type = "RAW_MESSAGE_RECEIVED" /\ ~submitted[n].cut /\ UNCHANGED <<program, undefined>>
        /\ Returns(e, nested)
    BY <1>5 DEF ParserParses, Handles, Called, Concern
  <2>2. Left(e)
    BY <1>1, <2>1 DEF Left, Frame
  <2>3. submitted[n].lines \in Nat
    BY <2>1, LinesNat
  <2>4. /\ nested \in Seq(Frame) /\ Len(nested) = submitted[n].lines + 1
        /\ \A i \in 1 .. submitted[n].lines : nested[i] = Log(n)
        /\ nested[Len(nested)] = Parsed(n)
    BY <1>1, <2>1, <2>3, MadeLines
  <2> HIDE DEF e, nested
  <2>5. ParserSends(nested)
    BY <2>1, <2>3, <2>4 DEF ParserSends
  <2>6. Handled(e, nested)
    BY <2>1, <2>2, <2>4, <2>5 DEF Handled, Sends
  <2> QED
    BY <2>5, <2>6 DEF e
<1>6. ASSUME RegisterProceeds PROVE \E nested : Handled(evt, nested)
  <2> DEFINE f == IF evt.connection = "active" THEN [Plain("SEND_MESSAGE") EXCEPT !.has = TRUE]
                  ELSE IF evt.type = "TIME_TO_REGISTER"
                    THEN [Plain("CREATE_NETWORK_SOCKET") EXCEPT !.connection = evt.connection]
                  ELSE Log(Null)
  <2>1. /\ stack # <<>> /\ evt.next <= Len(listeners) /\ evt.type \in {"TIME_TO_REGISTER", "NETWORK_SOCKET_CREATED"}
        /\ Returns(evt, <<f>>) /\ UNCHANGED <<program, undefined>>
    BY <1>6 DEF RegisterProceeds, Handles, Called, Concern
  <2>2. Reply(f)
    BY <1>1, <2>1, ReplyFrames DEF Frame
  <2> HIDE DEF f
  <2>3. <<f>> \in Seq(Frame) /\ Sends(<<f>>)
    BY <2>1, <2>2 DEF Sends, Reply
  <2> QED
    BY <1>1, <2>1, <2>3 DEF Handled
<1>7. ASSUME RegisterTakes
      PROVE  \E nested : Handled(IF submitted[evt.msg].register THEN [evt EXCEPT !.has = FALSE] ELSE evt, nested)
  <2>1. stack # <<>> /\ evt.next <= Len(listeners) /\ evt.type = "MESSAGE_PARSED" /\ UNCHANGED <<program, undefined>>
    BY <1>7 DEF RegisterTakes, Handles, Called
  <2>2. CASE submitted[evt.msg].register
    <3> DEFINE e == [evt EXCEPT !.has = FALSE]
               nested == <<Log(Null), Plain("SEND_MESSAGE")>>
    <3>1. Returns(e, nested)
      BY <1>7, <2>2 DEF RegisterTakes
    <3>2. Left(e)
      BY <1>1, <2>1 DEF Left, Frame
    <3>3. nested \in Seq(Frame) /\ Sends(nested)
      BY <2>1, ReplyFrames DEF Sends, Reply
    <3> HIDE DEF e, nested
    <3>4. Handled(e, nested)
      BY <2>1, <3>1, <3>2, <3>3 DEF Handled
    <3> QED
      BY <2>2, <3>4 DEF e
  <2>3. CASE ~submitted[evt.msg].register
    <3>1. Handled(evt, <<>>)
      BY <1>1, <1>2, <1>7, <2>1, <2>3 DEF RegisterTakes, Handled
    <3> QED
      BY <2>3, <3>1
  <2> QED
    BY <2>2, <2>3
<1> QED
  BY <1>3, <1>4, <1>5, <1>6, <1>7, Zenon

(* A step of a handler returns with an event it may have changed, or       *)
(* throws, or leaves what is defined.                                      *)
LEMMA HandlerStep ==
  ASSUME StackInv, dispatch, ~EndOfLoop, ~ParserThrows
  PROVE  \/ \E e, nested : Handled(e, nested)
         \/ BeyondDefined
<1>1. CASE Ignore \/ NetworkQueues \/ LogWriterWrites \/ AppTakes \/ ParserParses \/ RegisterProceeds \/ RegisterTakes
  BY <1>1, HandlerReturns, Zenon
<1>2. CASE RegisterDereferences \/ CallDangling
  BY <1>2 DEF RegisterDereferences, CallDangling
<1> QED
  BY <1>1, <1>2 DEF dispatch

(* The stack after a handler, counted from its bottom.                     *)
LEMMA HandledStack ==
  ASSUME StackInv, NEW e, NEW nested, Handled(e, nested)
  PROVE  /\ stack' \in Seq(Frame) /\ Len(stack') = Len(nested) + Len(stack)
         /\ \A i \in 1 .. Len(nested) : stack'[i] = nested[i]
         /\ LET f == stack'[Len(nested) + 1]
            IN  /\ f.type = evt.type /\ f.msg = evt.msg /\ f.connection = evt.connection
                /\ f.next = evt.next + 1 /\ f.has = e.has /\ f.claimed = e.claimed
         /\ \A i \in 2 .. Len(stack) : stack'[Len(nested) + i] = stack[i]
<1>1. stack \in Seq(Frame) /\ stack # <<>> /\ e \in Frame /\ nested \in Seq(Frame) /\ Returns(e, nested)
  BY DEF Handled, Left, StackInv, TypeOK
<1>2. /\ stack' \in Seq(Frame) /\ Len(stack') = Len(nested) + Len(stack)
      /\ \A i \in 1 .. Len(nested) : stack'[i] = nested[i]
      /\ stack'[Len(nested) + 1] = [e EXCEPT !.next = @ + 1]
      /\ \A i \in 2 .. Len(stack) : stack'[Len(nested) + i] = stack[i]
  BY <1>1, ReturnsStack
<1>3. e.type = evt.type /\ e.msg = evt.msg /\ e.connection = evt.connection /\ e.next = evt.next
  BY DEF Handled, Left
<1> DEFINE f == [e EXCEPT !.next = @ + 1]
<1>4. /\ f.type = e.type /\ f.msg = e.msg /\ f.connection = e.connection
      /\ f.next = e.next + 1 /\ f.has = e.has /\ f.claimed = e.claimed
  BY <1>1 DEF Frame
<1> QED
  BY <1>2, <1>3, <1>4

(* What the frames are typed by, apart from the rest of TypeOK.            *)
StackTypes ==
  /\ stack \in Seq(Frame)
  /\ \A i \in DOMAIN stack : stack[i].next \in 1 .. Len(listeners) + 1 /\ stack[i].msg \in 0 .. Len(submitted)

LEMMA HandledNesting ==
  ASSUME StackInv, NEW e, NEW nested, Handled(e, nested)
  PROVE  StackTypes' /\ Nesting' /\ Contents'
<1>0. /\ stack \in Seq(Frame) /\ Len(stack) \in Nat
      /\ 1 <= Len(stack) /\ evt = stack[1]
      /\ evt.type \in Origin <=> Len(stack) = 1
      /\ evt.type = "MESSAGE_PARSED" <=> Len(stack) = 2 /\ Outer.type = "RAW_MESSAGE_RECEIVED"
      /\ evt.next \in 1 .. Len(listeners) /\ evt.msg \in 0 .. Len(submitted)
  BY Delivered DEF Handled, StackInv, TypeOK
<1>1. /\ UNCHANGED <<listeners, submitted, others>> /\ Len(submitted) \in Nat /\ Len(listeners) \in Nat
      /\ Nesting /\ Contents /\ StackTypes
  BY DEF Handled, program, StackInv, TypeOK, StackTypes
<1>2. /\ stack' \in Seq(Frame) /\ Len(stack') = Len(nested) + Len(stack)
      /\ \A i \in 1 .. Len(nested) : stack'[i] = nested[i]
      /\ LET f == stack'[Len(nested) + 1]
         IN  /\ f.type = evt.type /\ f.msg = evt.msg /\ f.connection = evt.connection
             /\ f.next = evt.next + 1 /\ f.has = e.has /\ f.claimed = e.claimed
      /\ \A i \in 2 .. Len(stack) : stack'[Len(nested) + i] = stack[i]
  BY HandledStack
<1>7. 1 \in 1 .. Len(listeners) + 1 /\ evt.next + 1 \in 1 .. Len(listeners) + 1 /\ 0 \in 0 .. Len(submitted)
  BY <1>0, <1>1
<1>3. CASE nested = <<>>
  <2>1. Len(nested) = 0
    BY <1>3
  <2>2. Len(stack') = Len(stack) /\ stack'[1].next = evt.next + 1 /\ \A i \in 2 .. Len(stack) : stack'[i] = stack[i]
    BY <1>0, <1>2, <2>1
  <2>3. \A i \in 1 .. Len(stack) : /\ stack'[i].type = stack[i].type /\ stack'[i].msg = stack[i].msg
                                   /\ stack'[i].connection = stack[i].connection
    BY <1>0, <1>2, <2>1, <2>2
  <2>4. Outer'.type = Outer.type
    BY <1>0, <2>2, <2>3 DEF Outer
  <2>5. StackTypes'
    BY <1>0, <1>1, <1>2, <2>2, <2>3 DEF StackTypes
  <2>6. Nesting'
    <3>1. DOMAIN stack' = DOMAIN stack /\ Len(stack') = Len(stack)
      BY <1>0, <1>2, <2>2
    <3>2. \A i \in DOMAIN stack' : stack'[i].type = stack[i].type
      BY <1>0, <2>3, <3>1
    <3>3. Len(stack') > 2 => Outer'.type = "RAW_MESSAGE_RECEIVED"
      BY <1>1, <2>4, <3>1 DEF Nesting
    <3>6. \A i \in DOMAIN stack' : 1 < i /\ i < Len(stack') - 1 => stack'[i].next = 1
      <4> SUFFICES ASSUME NEW i \in DOMAIN stack', 1 < i, i < Len(stack') - 1 PROVE stack'[i].next = 1
        OBVIOUS
      <4>1. i \in DOMAIN stack /\ i \in 2 .. Len(stack) /\ i < Len(stack) - 1
        BY <1>0, <2>2, <3>1
      <4> QED
        BY <1>1, <2>2, <4>1 DEF Nesting
    <3>4. \A i \in DOMAIN stack' : stack'[i].type \in Origin <=> i = Len(stack')
      BY <1>1, <3>1, <3>2 DEF Nesting
    <3>5. \A i \in DOMAIN stack' :
            stack'[i].type = "MESSAGE_PARSED" <=> i = Len(stack') - 1 /\ Outer'.type = "RAW_MESSAGE_RECEIVED"
      BY <1>1, <2>4, <3>1, <3>2 DEF Nesting
    <3> QED
      BY <3>3, <3>4, <3>5, <3>6 DEF Nesting
  <2>7. Contents'
    <3>1. Len(stack) > 1 => Outer' = Outer
      BY <1>0, <2>2 DEF Outer
    <3>2. Len(stack) > 2 => Inner' = Inner
      BY <1>0, <2>2 DEF Inner
    <3>3. DOMAIN stack' = DOMAIN stack /\ DOMAIN stack = 1 .. Len(stack)
      BY <1>0, <1>2, <2>2
    <3>4. \A i \in DOMAIN stack' :
            /\ stack'[i].type \in {"RAW_MESSAGE_RECEIVED", "MESSAGE_PARSED"} =>
                 Len(submitted) > 0 /\ stack'[i].msg = Len(submitted)
            /\ stack'[i].msg \in {Null, Len(submitted)}
            /\ stack'[i].type \in {"TIME_TO_REGISTER", "NETWORK_SOCKET_CREATED"} =>
                 \E k \in DOMAIN others : others[k] = stack'[i].connection
      BY <1>1, <2>3, <3>3 DEF Contents
    <3>5. Len(stack') > 1 /\ Outer'.type = "RAW_MESSAGE_RECEIVED" =>
            /\ Outer'.next > 1 /\ listeners[Outer'.next - 1] = "parser"
            /\ ~submitted[Len(submitted)].cut
      BY <1>0, <1>1, <2>2, <2>3, <3>1, <3>3 DEF Contents
    <3>6. \A i \in DOMAIN stack' : IsLine(stack'[i]) =>
            i < Len(stack') - 1 /\ Inner'.next = 1 /\ \A k \in 1 .. Len(stack') - 2 : IsLine(stack'[k])
      <4>1. \A i \in DOMAIN stack : IsLine(stack'[i]) <=> IsLine(stack[i])
        BY <2>3, <3>3 DEF IsLine
      <4> SUFFICES ASSUME NEW i \in DOMAIN stack', IsLine(stack'[i])
                   PROVE  i < Len(stack') - 1 /\ Inner'.next = 1 /\ \A k \in 1 .. Len(stack') - 2 : IsLine(stack'[k])
        OBVIOUS
      <4>2. i \in DOMAIN stack /\ IsLine(stack[i])
        BY <3>3, <4>1
      <4>3. i < Len(stack) - 1 /\ Inner.next = 1 /\ \A k \in 1 .. Len(stack) - 2 : IsLine(stack[k])
        BY <1>1, <4>2 DEF Contents
      <4>4. i >= 1 /\ Len(stack) > 2
        BY <1>0, <3>3, <4>2, <4>3
      <4>5. \A k \in 1 .. Len(stack) - 2 : k \in DOMAIN stack
        BY <1>0, <3>3
      <4> QED
        BY <2>2, <3>2, <4>1, <4>3, <4>4, <4>5
    <3> QED
      BY <1>1, <3>4, <3>5, <3>6 DEF Contents
  <2> QED
    BY <2>5, <2>6, <2>7
<1>4. CASE evt.type \in {"TIME_TO_REGISTER", "NETWORK_SOCKET_CREATED"} /\ Len(nested) = 1 /\ Reply(nested[1])
  <2>1. Len(stack) = 1 /\ Len(stack') = 2 /\ DOMAIN stack' = 1 .. 2
    BY <1>0, <1>2, <1>4 DEF Origin
  <2>2. /\ stack'[1].type \in {"CREATE_NETWORK_SOCKET", "SEND_MESSAGE", "LOG_MESSAGE"}
        /\ stack'[1].msg = Null /\ stack'[1].next = 1
        /\ stack'[2].type = evt.type /\ stack'[2].msg = evt.msg /\ stack'[2].connection = evt.connection
        /\ stack'[2].next = evt.next + 1
    BY <1>2, <1>4 DEF Reply
  <2>3. Outer' = stack'[2] /\ Inner' = stack'[1]
    BY <2>1 DEF Outer, Inner
  <2>4. StackTypes'
    BY <1>0, <1>1, <1>2, <2>1, <2>2 DEF StackTypes, Null
  <2>5. Nesting'
    BY <1>0, <1>4, <2>1, <2>2, <2>3 DEF Nesting, Origin
  <2>6. Contents'
    <3>1. \A i \in DOMAIN stack' : ~IsLine(stack'[i])
      BY <1>4, <2>1, <2>2 DEF IsLine
    <3> QED
      BY <1>0, <1>1, <1>4, <2>1, <2>2, <2>3, <3>1 DEF Contents
  <2> QED
    BY <2>4, <2>5, <2>6
<1>5. CASE evt.type = "MESSAGE_PARSED" /\ Len(nested) = 2 /\ Reply(nested[1]) /\ Reply(nested[2])
  <2>1. Len(stack) = 2 /\ Len(stack') = 4 /\ DOMAIN stack' = 1 .. 4 /\ Outer = stack[2]
    <3>1. Len(stack) = 2
      BY <1>0, <1>5
    <3> QED
      BY <1>2, <1>5, <3>1 DEF Outer
  <2>2. /\ \A i \in {1, 2} : /\ stack'[i].type \in {"CREATE_NETWORK_SOCKET", "SEND_MESSAGE", "LOG_MESSAGE"}
                             /\ stack'[i].msg = Null /\ stack'[i].next = 1
        /\ stack'[3].type = "MESSAGE_PARSED" /\ stack'[3].msg = evt.msg /\ stack'[3].next = evt.next + 1
    BY <1>2, <1>5 DEF Reply
  <2>3. stack'[4] = Outer
    BY <1>2, <1>5, <2>1
  <2>4. Outer' = stack'[4] /\ Inner' = stack'[3]
    BY <2>1 DEF Outer, Inner
  <2>5. StackTypes'
    <3>1. Outer.next \in 1 .. Len(listeners) + 1 /\ Outer.msg \in 0 .. Len(submitted)
      BY <1>1, <2>1 DEF StackTypes
    <3>2. \A i \in 1 .. 3 : stack'[i].next \in 1 .. Len(listeners) + 1 /\ stack'[i].msg \in 0 .. Len(submitted)
      <4>1. \A i \in {1, 2} : stack'[i].next \in 1 .. Len(listeners) + 1 /\ stack'[i].msg \in 0 .. Len(submitted)
        BY <1>7, <2>2 DEF Null
      <4>2. stack'[3].next \in 1 .. Len(listeners) + 1 /\ stack'[3].msg \in 0 .. Len(submitted)
        BY <1>0, <1>7, <2>2
      <4>3. \A i \in 1 .. 3 : i \in {1, 2} \/ i = 3
        OBVIOUS
      <4> QED
        BY <4>1, <4>2, <4>3
    <3>3. stack'[4].next \in 1 .. Len(listeners) + 1 /\ stack'[4].msg \in 0 .. Len(submitted)
      BY <2>3, <3>1
    <3>4. \A i \in DOMAIN stack' : i \in 1 .. 3 \/ i = 4
      BY <2>1
    <3>5. \A i \in DOMAIN stack' : stack'[i].next \in 1 .. Len(listeners) + 1 /\ stack'[i].msg \in 0 .. Len(submitted)
      BY <3>2, <3>3, <3>4
    <3> QED
      BY <1>1, <1>2, <3>5 DEF StackTypes
  <2>6. Nesting'
    BY <1>0, <1>5, <2>1, <2>2, <2>3, <2>4 DEF Nesting, Origin
  <2>7. Contents'
    <3>1. stack'[4].type # "LOG_MESSAGE"
      BY <1>0, <1>5, <2>1, <2>3
    <3>2. \A i \in DOMAIN stack' : ~IsLine(stack'[i])
      BY <2>1, <2>2, <3>1 DEF IsLine
    <3> QED
      BY <1>0, <1>1, <1>5, <2>1, <2>2, <2>3, <2>4, <3>2 DEF Contents, Null
  <2> QED
    BY <2>5, <2>6, <2>7
<1>6. CASE ParserSends(nested)
  <2>1. evt.type = "RAW_MESSAGE_RECEIVED" /\ listeners[evt.next] = "parser" /\ ~submitted[evt.msg].cut
    BY <1>6 DEF ParserSends
  <2>2. Len(stack) = 1
    BY <1>0, <2>1 DEF Origin
  <2>3. evt.msg = Len(submitted) /\ Len(submitted) > 0
    BY <1>0, <1>1, <2>1, <2>2 DEF Contents
  <2> DEFINE lines == submitted[evt.msg].lines
  <2>4. lines \in Nat /\ Len(nested) = lines + 1 /\ Len(stack') = lines + 2 /\ DOMAIN stack' = 1 .. lines + 2
    BY <1>2, <1>6, <2>2 DEF ParserSends
  <2>5. /\ \A i \in 1 .. lines : /\ stack'[i].type = "LOG_MESSAGE" /\ stack'[i].msg = evt.msg /\ stack'[i].next = 1
        /\ stack'[lines + 1].type = "MESSAGE_PARSED" /\ stack'[lines + 1].msg = evt.msg /\ stack'[lines + 1].next = 1
    <3>1. \A i \in 1 .. lines : stack'[i] = Log(evt.msg)
      BY <1>2, <1>6, <2>4 DEF ParserSends
    <3>2. stack'[lines + 1] = Parsed(evt.msg)
      <4>1. lines + 1 \in 1 .. Len(nested) /\ nested[lines + 1] = Parsed(evt.msg)
        BY <1>6, <2>4 DEF ParserSends
      <4> QED
        BY <1>2, <2>4, <4>1
    <3> QED
      BY <2>3, <3>1, <3>2, MadeFrames
  <2>6. stack'[lines + 2].type = evt.type /\ stack'[lines + 2].msg = evt.msg /\ stack'[lines + 2].next = evt.next + 1
    <3>1. Len(nested) + 1 = lines + 2
      BY <2>4
    <3> HIDE DEF lines
    <3> QED
      BY <1>2, <3>1
  <2> HIDE DEF lines
  <2>7. Outer' = stack'[lines + 2] /\ Inner' = stack'[lines + 1]
    BY <2>4 DEF Outer, Inner
  <2>8. \A i \in DOMAIN stack' : i \in 1 .. lines \/ i = lines + 1 \/ i = lines + 2
    BY <2>4
  <2>9. StackTypes'
    <3>1. \A i \in DOMAIN stack' : stack'[i].next \in 1 .. Len(listeners) + 1 /\ stack'[i].msg \in 0 .. Len(submitted)
      BY <1>0, <1>7, <2>5, <2>6, <2>8
    <3> QED
      BY <1>1, <1>2, <3>1 DEF StackTypes
  <2>10. Nesting'
    <3>1. \A i \in DOMAIN stack' : stack'[i].type \in Origin <=> i = Len(stack')
      BY <2>1, <2>4, <2>5, <2>6, <2>8 DEF Origin
    <3>2. \A i \in DOMAIN stack' :
            stack'[i].type = "MESSAGE_PARSED" <=> i = Len(stack') - 1 /\ Outer'.type = "RAW_MESSAGE_RECEIVED"
      BY <2>1, <2>4, <2>5, <2>6, <2>7, <2>8
    <3>3. \A i \in DOMAIN stack' : 1 < i /\ i < Len(stack') - 1 => stack'[i].next = 1
      BY <2>4, <2>5, <2>8
    <3> QED
      BY <2>1, <2>6, <2>7, <3>1, <3>2, <3>3 DEF Nesting
  <2>11. Contents'
    <3>1. \A i \in DOMAIN stack' :
            /\ stack'[i].type \in {"RAW_MESSAGE_RECEIVED", "MESSAGE_PARSED"} =>
                 Len(submitted) > 0 /\ stack'[i].msg = Len(submitted)
            /\ stack'[i].msg \in {Null, Len(submitted)}
            /\ stack'[i].type \notin {"TIME_TO_REGISTER", "NETWORK_SOCKET_CREATED"}
      BY <2>1, <2>3, <2>5, <2>6, <2>8
    <3>2. /\ Outer'.next > 1 /\ listeners[Outer'.next - 1] = "parser"
          /\ ~submitted[Len(submitted)].cut
      BY <1>0, <2>1, <2>3, <2>6, <2>7
    <3>3. \A i \in DOMAIN stack' : IsLine(stack'[i]) =>
            i < Len(stack') - 1 /\ Inner'.next = 1 /\ \A k \in 1 .. Len(stack') - 2 : IsLine(stack'[k])
      <4>1. evt.msg # Null
        BY <2>3 DEF Null
      <4>2. \A k \in 1 .. Len(stack') - 2 : IsLine(stack'[k])
        BY <2>4, <2>5, <4>1 DEF IsLine
      <4>3. \A i \in DOMAIN stack' : IsLine(stack'[i]) => i < Len(stack') - 1
        BY <2>1, <2>4, <2>5, <2>6, <2>8 DEF IsLine
      <4> QED
        BY <2>5, <2>7, <4>2, <4>3
    <3> QED
      BY <1>1, <3>1, <3>2, <3>3 DEF Contents
  <2> QED
    BY <2>9, <2>10, <2>11
<1> QED
  BY <1>3, <1>4, <1>5, <1>6 DEF Handled, Sends

(* The end of a dispatch.                                                  *)
LEMMA EndNesting ==
  ASSUME StackInv, EndOfLoop
  PROVE  StackTypes' /\ Nesting' /\ Contents'
<1>1. /\ stack \in Seq(Frame) /\ Len(stack) \in Nat /\ 1 <= Len(stack)
      /\ UNCHANGED <<listeners, submitted, others>> /\ Nesting /\ Contents /\ StackTypes
  BY Delivered DEF EndOfLoop, program, StackInv, TypeOK, StackTypes
<1>2. stack' \in Seq(Frame) /\ Len(stack') = Len(stack) - 1 /\ \A i \in 1 .. Len(stack') : stack'[i] = stack[i + 1]
  BY <1>1, EndStack DEF EndOfLoop
<1>3. StackTypes'
  <2> SUFFICES ASSUME NEW i \in 1 .. Len(stack')
               PROVE  stack'[i].next \in 1 .. Len(listeners) + 1 /\ stack'[i].msg \in 0 .. Len(submitted)
    BY <1>1, <1>2 DEF StackTypes
  <2>1. i + 1 \in DOMAIN stack
    BY <1>1, <1>2
  <2> QED
    BY <1>1, <1>2, <2>1 DEF StackTypes
<1>4. Len(stack') > 0 => Outer' = Outer
  BY <1>1, <1>2 DEF Outer
<1>5. Len(stack') > 1 => Inner' = Inner
  BY <1>1, <1>2 DEF Inner
<1>6. Nesting'
  <2>1. Len(stack') > 2 => Outer'.type = "RAW_MESSAGE_RECEIVED"
    BY <1>1, <1>2, <1>4 DEF Nesting
  <2>2. ASSUME NEW i \in DOMAIN stack'
        PROVE  /\ 1 < i /\ i < Len(stack') - 1 => stack'[i].next = 1
               /\ stack'[i].type \in Origin <=> i = Len(stack')
               /\ stack'[i].type = "MESSAGE_PARSED" <=>
                    i = Len(stack') - 1 /\ Outer'.type = "RAW_MESSAGE_RECEIVED"
    <3>1. /\ i + 1 \in DOMAIN stack /\ stack'[i] = stack[i + 1] /\ Outer' = Outer
          /\ i = Len(stack') <=> i + 1 = Len(stack)
          /\ i = Len(stack') - 1 <=> i + 1 = Len(stack) - 1
          /\ 1 < i + 1 /\ (i < Len(stack') - 1 <=> i + 1 < Len(stack) - 1)
      BY <1>1, <1>2, <1>4
    <3> QED
      BY <1>1, <3>1 DEF Nesting
  <2>3. \A i \in DOMAIN stack' : 1 < i /\ i < Len(stack') - 1 => stack'[i].next = 1
    BY <2>2
  <2>4. \A i \in DOMAIN stack' : stack'[i].type \in Origin <=> i = Len(stack')
    BY <2>2
  <2>5. \A i \in DOMAIN stack' :
          stack'[i].type = "MESSAGE_PARSED" <=> i = Len(stack') - 1 /\ Outer'.type = "RAW_MESSAGE_RECEIVED"
    BY <2>2
  <2> QED
    BY <2>1, <2>3, <2>4, <2>5, Zenon DEF Nesting
<1>7. Contents'
  <2>1. \A i \in DOMAIN stack' : i + 1 \in DOMAIN stack /\ stack'[i] = stack[i + 1]
    BY <1>1, <1>2
  <2>2. \A i \in DOMAIN stack' : IsLine(stack'[i]) =>
          i < Len(stack') - 1 /\ Inner'.next = 1 /\ \A k \in 1 .. Len(stack') - 2 : IsLine(stack'[k])
    <3> SUFFICES ASSUME NEW i \in DOMAIN stack', IsLine(stack'[i])
                 PROVE  i < Len(stack') - 1 /\ Inner'.next = 1 /\ \A k \in 1 .. Len(stack') - 2 : IsLine(stack'[k])
      OBVIOUS
    <3>1. /\ i + 1 < Len(stack) - 1 /\ Inner.next = 1
          /\ \A k \in 1 .. Len(stack) - 2 : IsLine(stack[k])
      BY <1>1, <2>1 DEF Contents
    <3>2. \A k \in 1 .. Len(stack') - 2 : k + 1 \in 1 .. Len(stack) - 2 /\ k \in DOMAIN stack'
      BY <1>1, <1>2
    <3>3. i \in Nat /\ i >= 1
      BY <1>2
    <3> QED
      BY <1>1, <1>2, <1>5, <2>1, <3>1, <3>2, <3>3
  <2>3. Len(stack') > 1 => Len(stack) > 1 /\ Outer' = Outer
    BY <1>1, <1>2, <1>4
  <2> QED
    BY <1>1, <2>1, <2>2, <2>3 DEF Contents
<1> QED
  BY <1>3, <1>6, <1>7

(* A dispatch of the program.                                              *)
LEMMA OriginNesting ==
  ASSUME StackInv,
         \/ \E text \in Text : parse_raw_message(text)
         \/ \E type \in {"TIME_TO_REGISTER", "NETWORK_SOCKET_CREATED"}, connection \in Connection :
              DispatchOther(type, connection)
  PROVE  /\ StackTypes' /\ Nesting' /\ Contents'
         /\ submitted' \in Seq(Text) /\ others' \in Seq(Connection) /\ ~undefined'
         /\ Len(submitted') \in Nat /\ Len(submitted') >= Len(submitted)
<1>1. submitted \in Seq(Text) /\ others \in Seq(Connection) /\ listeners \in Seq(Listener) /\ Len(listeners) \in Nat
  BY DEF StackInv, TypeOK
<1>2. ASSUME NEW f \in Frame, stack' = <<f>>, f.next = 1, f.msg \in 0 .. Len(submitted'), f.type \in Origin,
             listeners' = listeners
      PROVE  StackTypes' /\ Nesting'
  <2>1. Len(stack') = 1 /\ DOMAIN stack' = 1 .. 1 /\ stack'[1] = f /\ stack' \in Seq(Frame)
    BY <1>2
  <2>2. Outer' = f
    BY <2>1 DEF Outer
  <2>3. 1 \in 1 .. Len(listeners) + 1
    BY <1>1
  <2>4. StackTypes'
    BY <1>2, <2>1, <2>3 DEF StackTypes
  <2>5. Nesting'
    BY <1>2, <2>1, <2>2 DEF Nesting, Origin
  <2> QED
    BY <2>4, <2>5
<1>3. ASSUME NEW text \in Text, parse_raw_message(text)
      PROVE  /\ StackTypes' /\ Nesting' /\ Contents' /\ submitted' \in Seq(Text) /\ others' \in Seq(Connection)
             /\ ~undefined' /\ Len(submitted') = Len(submitted) + 1
  <2> DEFINE n == Len(submitted) + 1
             p == Plain("RAW_MESSAGE_RECEIVED")
             f == [p EXCEPT !.msg = n, !.has = TRUE]
  <2>1. /\ stack' = <<f>> /\ listeners' = listeners /\ ~undefined' /\ others' = others
        /\ submitted' = Append(submitted, text)
    BY <1>3 DEF parse_raw_message, MayDispatch, Idle
  <2>2. submitted' \in Seq(Text) /\ Len(submitted') = n /\ n \in Nat /\ n > 0
    BY <1>1, <2>1
  <2>3. p \in Frame /\ p.type = "RAW_MESSAGE_RECEIVED" /\ p.next = 1
    BY PlainFrame DEF EventType
  <2> HIDE DEF p
  <2>4. f \in Frame /\ f.type = "RAW_MESSAGE_RECEIVED" /\ f.next = 1 /\ f.msg = n
    BY <2>2, <2>3 DEF Frame
  <2> HIDE DEF f, n
  <2>5. StackTypes' /\ Nesting'
    <3>1. f.msg \in 0 .. Len(submitted') /\ f.type \in Origin
      BY <2>2, <2>4 DEF Origin
    <3> QED
      BY <1>2, <2>1, <2>4, <3>1
  <2>6. Len(stack') = 1 /\ DOMAIN stack' = 1 .. 1 /\ stack'[1] = f
    BY <2>1
  <2>7. Contents'
    <3>1. \A i \in DOMAIN stack' : stack'[i] = f /\ ~IsLine(stack'[i])
      BY <2>4, <2>6 DEF IsLine
    <3>2. ~(Len(stack') > 1)
      BY <2>6
    <3> QED
      BY <2>2, <2>4, <3>1, <3>2 DEF Contents
  <2> QED
    BY <1>1, <2>1, <2>2, <2>5, <2>7 DEF n
<1>4. ASSUME NEW type \in {"TIME_TO_REGISTER", "NETWORK_SOCKET_CREATED"}, NEW connection \in Connection,
             DispatchOther(type, connection)
      PROVE  /\ StackTypes' /\ Nesting' /\ Contents' /\ submitted' = submitted /\ others' \in Seq(Connection)
             /\ ~undefined'
  <2> DEFINE p == Plain(type)
             f == [p EXCEPT !.connection = connection]
  <2>1. /\ stack' = <<f>> /\ listeners' = listeners /\ ~undefined' /\ submitted' = submitted
        /\ others' = Append(others, connection)
    BY <1>4 DEF DispatchOther, MayDispatch, Idle
  <2>2. p \in Frame /\ p.type = type /\ p.next = 1 /\ p.msg = Null
    BY PlainFrame DEF EventType
  <2> HIDE DEF p
  <2>3. f \in Frame /\ f.type = type /\ f.next = 1 /\ f.msg = Null /\ f.connection = connection
    BY <2>2 DEF Frame
  <2> HIDE DEF f
  <2>4. others' \in Seq(Connection) /\ Len(others) + 1 \in DOMAIN others' /\ others'[Len(others) + 1] = connection
    BY <1>1, <2>1
  <2>5. StackTypes' /\ Nesting'
    <3>1. f.msg \in 0 .. Len(submitted') /\ f.type \in Origin
      BY <1>1, <2>1, <2>3 DEF Origin, Null
    <3> QED
      BY <1>2, <2>1, <2>3, <3>1
  <2>6. Len(stack') = 1 /\ DOMAIN stack' = 1 .. 1 /\ stack'[1] = f
    BY <2>1
  <2>7. Contents'
    <3>1. \A i \in DOMAIN stack' : stack'[i] = f /\ ~IsLine(stack'[i])
      BY <2>3, <2>6 DEF IsLine
    <3>2. ~(Len(stack') > 1)
      BY <2>6
    <3> QED
      BY <2>3, <2>4, <3>1, <3>2 DEF Contents
  <2> QED
    BY <2>1, <2>4, <2>5, <2>7
<1> QED
  BY <1>1, <1>3, <1>4

(* No dispatch is under way.                                               *)
LEMMA EmptyNesting ==
  ASSUME stack' = <<>>
  PROVE  StackTypes' /\ Nesting' /\ Contents'
<1>1. stack' \in Seq(Frame) /\ Len(stack') = 0 /\ DOMAIN stack' = {}
  OBVIOUS
<1> QED
  BY <1>1 DEF StackTypes, Nesting, Contents

(* The stack keeps its shape in every step.                                *)
LEMMA StackStep ==
  ASSUME StackInv, [Next]_vars
  PROVE  /\ StackTypes' /\ Nesting' /\ Contents' /\ Unique' /\ Stopped'
         /\ listeners' = listeners /\ m_logger' = m_logger /\ undefined' \in BOOLEAN
         /\ submitted' \in Seq(Text) /\ others' \in Seq(Connection)
<1>1. Unique' /\ listeners' = listeners /\ m_logger' = m_logger
  <2>1. listeners' = listeners /\ m_logger' = m_logger
    BY DEF Next, parse_raw_message, DispatchOther, dispatch, EndOfLoop, Ignore, ParserThrows, ParserParses, NetworkQueues,
           AppTakes, RegisterProceeds, RegisterTakes, RegisterDereferences, LogWriterWrites, CallDangling,
           BeyondDefined, Terminated, vars, program
  <2> QED
    BY <2>1 DEF StackInv, Unique
<1>2. submitted \in Seq(Text) /\ others \in Seq(Connection) /\ undefined \in BOOLEAN
  BY DEF StackInv, TypeOK
<1>3. CASE \/ \E text \in Text : parse_raw_message(text)
           \/ \E type \in {"TIME_TO_REGISTER", "NETWORK_SOCKET_CREATED"}, connection \in Connection :
                DispatchOther(type, connection)
  <2>1. Stopped' /\ undefined' \in BOOLEAN
    <3>1. undefined' = undefined
      BY <1>3 DEF parse_raw_message, DispatchOther
    <3>2. ~undefined'
      BY <1>3, OriginNesting
    <3> QED
      BY <1>2, <3>1, <3>2, Zenon DEF Stopped
  <2> QED
    BY <1>1, <1>3, <2>1, OriginNesting
<1>4. CASE EndOfLoop
  <2>1. submitted' = submitted /\ others' = others /\ undefined' = undefined
    BY <1>4 DEF EndOfLoop, program
  <2>2. Stopped'
    BY <1>4 DEF StackInv, Stopped, EndOfLoop
  <2> QED
    BY <1>1, <1>2, <1>4, <2>1, <2>2, EndNesting
<1>5. CASE ParserThrows \/ BeyondDefined
  <2>1. stack' = <<>> /\ submitted' = submitted /\ others' = others /\ undefined' \in BOOLEAN
    BY <1>2, <1>5 DEF ParserThrows, BeyondDefined, program
  <2> QED
    BY <1>1, <1>2, <2>1, EmptyNesting DEF Stopped
<1>6. CASE \E e, nested : Handled(e, nested)
  <2> PICK e, nested : Handled(e, nested)
    BY <1>6
  <2>1. submitted' = submitted /\ others' = others /\ undefined' = undefined /\ stack # <<>>
    BY DEF Handled, program
  <2>2. Stopped'
    BY <2>1 DEF StackInv, Stopped
  <2> QED
    BY <1>1, <1>2, <2>1, <2>2, HandledNesting
<1>7. CASE UNCHANGED vars
  <2>1. UNCHANGED <<listeners, stack, submitted, others, undefined>>
    BY <1>7 DEF vars, program
  <2>2. StackTypes /\ Nesting /\ Contents /\ Stopped
    BY DEF StackInv, StackTypes, TypeOK
  <2>3. StackTypes' /\ Nesting' /\ Contents' /\ Stopped'
    BY <2>1, <2>2 DEF StackTypes, Nesting, Contents, Stopped, Outer, Inner
  <2> QED
    BY <1>1, <1>2, <2>1, <2>3
<1> QED
  BY <1>3, <1>4, <1>5, <1>6, <1>7, HandlerStep DEF Next, Terminated

LEMMA TypeStep ==
  ASSUME StackInv, [Next]_vars
  PROVE  TypeOK'
<1>1. /\ listeners \in Seq(Listener) /\ m_logger \in BOOLEAN
      /\ m_paket_count \in Nat /\ m_event_queue \in Seq([type : EventType, msg : Nat])
      /\ m_msgs \in Seq(Nat) /\ m_register_messages \in Seq(Nat) /\ written \in Seq(Nat)
  BY DEF StackInv, TypeOK
<1>2. stack # <<>> => evt.msg \in Nat /\ [type |-> evt.type, msg |-> evt.msg] \in [type : EventType, msg : Nat]
  BY Delivered DEF Frame
<1>3. /\ m_paket_count' \in Nat /\ m_event_queue' \in Seq([type : EventType, msg : Nat])
      /\ m_msgs' \in Seq(Nat) /\ m_register_messages' \in Seq(Nat) /\ written' \in Seq(Nat)
  <2>1. CASE UNCHANGED modules
    BY <1>1, <2>1 DEF modules
  <2>2. CASE ParserThrows \/ ParserParses
    BY <1>1, <2>2 DEF ParserThrows, ParserParses
  <2>3. CASE NetworkQueues
    BY <1>1, <1>2, <2>3 DEF NetworkQueues, Handles, Called
  <2>4. CASE AppTakes
    <3>1. /\ stack # <<>> /\ m_paket_count' = m_paket_count /\ m_event_queue' = m_event_queue
          /\ m_register_messages' = m_register_messages /\ written' = written
      BY <2>4 DEF AppTakes, Handles, Called
    <3>2. m_msgs' = m_msgs \/ \E m \in Nat : m_msgs' = Append(m_msgs, m)
      BY <1>2, <2>4, <3>1 DEF AppTakes, Null
    <3>3. m_msgs' \in Seq(Nat)
      <4>1. m_msgs \in Seq(Nat)
        BY <1>1
      <4>2. \A m \in Nat : Append(m_msgs, m) \in Seq(Nat)
        BY <4>1
      <4> QED
        BY <3>2, <4>1, <4>2, Zenon
    <3> QED
      BY <1>1, <3>1, <3>3, Zenon
  <2>5. CASE RegisterTakes
    <3>1. /\ stack # <<>> /\ m_paket_count' = m_paket_count /\ m_event_queue' = m_event_queue
          /\ m_msgs' = m_msgs /\ written' = written
      BY <2>5 DEF RegisterTakes, Handles, Called
    <3>2. m_register_messages' = m_register_messages \/ m_register_messages' = Append(m_register_messages, evt.msg)
      BY <2>5 DEF RegisterTakes
    <3>3. m_register_messages' \in Seq(Nat)
      <4>1. m_register_messages \in Seq(Nat) /\ evt.msg \in Nat
        BY <1>1, <1>2, <3>1
      <4>2. Append(m_register_messages, evt.msg) \in Seq(Nat)
        BY <4>1
      <4> QED
        BY <3>2, <4>1, <4>2, Zenon
    <3> QED
      BY <1>1, <3>1, <3>3, Zenon
  <2>6. CASE LogWriterWrites
    BY <1>1, <1>2, <2>6 DEF LogWriterWrites, Handles, Called
  <2> QED
    BY <2>1, <2>2, <2>3, <2>4, <2>5, <2>6
    DEF Next, dispatch, parse_raw_message, DispatchOther, EndOfLoop, Ignore, RegisterProceeds, RegisterDereferences,
        CallDangling, BeyondDefined, Terminated, vars
<1>4. \A i \in DOMAIN stack' : 1 < i /\ i < Len(stack') - 1 => stack'[i].next = 1
  BY StackStep DEF Nesting
<1> QED
  BY <1>1, <1>3, <1>4, StackStep DEF TypeOK, StackTypes

LEMMA StackInit == Init => StackInv
<1> SUFFICES ASSUME Init PROVE StackInv
  OBVIOUS
<1>1. PICK p \in Program : listeners = p.listeners /\ m_logger = p.m_logger
  BY DEF Init
<1>2. listeners \in Seq(Listener) /\ m_logger \in BOOLEAN /\ Unique
  BY <1>1, EventBusAssumption DEF Unique
<1>3. stack = <<>> /\ stack \in Seq(Frame) /\ Len(stack) = 0 /\ DOMAIN stack = {}
  BY DEF Init
<1>4. /\ submitted \in Seq(Text) /\ others \in Seq(Connection) /\ m_paket_count \in Nat
      /\ m_event_queue \in Seq([type : EventType, msg : Nat])
      /\ m_msgs \in Seq(Nat) /\ m_register_messages \in Seq(Nat) /\ written \in Seq(Nat) /\ undefined \in BOOLEAN
  <2>1. \A S : <<>> \in Seq(S)
    OBVIOUS
  <2> QED
    BY <2>1, Zenon DEF Init
<1>5. TypeOK
  BY <1>2, <1>3, <1>4 DEF TypeOK
<1>6. Nesting /\ Contents /\ Stopped
  BY <1>3 DEF Nesting, Contents, Stopped
<1> QED
  BY <1>2, <1>5, <1>6 DEF StackInv

LEMMA StackInvariant == Spec => []StackInv
<1>1. StackInv /\ [Next]_vars => StackInv'
  BY StackStep, TypeStep DEF StackInv
<1> QED
  BY <1>1, StackInit, PTL DEF Spec

(* Whatever is dispatched and whoever listens, at most three dispatches    *)
(* have begun and not ended, and every variable keeps its type.            *)
THEOREM BusTypeCorrect == Spec => []TypeOK
<1>1. StackInv => TypeOK
  BY DEF StackInv
<1> QED
  BY <1>1, StackInvariant, PTL

-----------------------------------------------------------------------------
(* What is still to come *)

(* A parsed message is being dispatched, and nobody has taken it.          *)
HasParsed == Len(stack) > 1 /\ Outer.type = "RAW_MESSAGE_RECEIVED"
Held == HasParsed /\ Inner.has

(* A line logged of the message is being dispatched.                       *)
HasLine == Len(stack) > 0 /\ IsLine(stack[1])

(* Module l has not been called yet with the raw message, with the parsed  *)
(* one; and how many lines logged of the message it has not been called    *)
(* with: all those dispatched before the two outermost, but for the one    *)
(* under way if it has been called with that.                              *)
RawAhead(l) == Len(stack) > 0 /\ Outer.type = "RAW_MESSAGE_RECEIVED" /\ ~Passed(Outer, l)
ParsedAhead(l) == HasParsed /\ ~Passed(Inner, l)
Coming(l) == IF Passed(stack[1], l) THEN Len(stack) - 3 ELSE Len(stack) - 2
LinesAhead(l) == IF HasLine THEN Coming(l) ELSE 0

(* The module being called.                                                *)
Callee == listeners[evt.next]

(* The module being called has not been called before with this event.     *)
LEMMA NotYet ==
  ASSUME StackInv, stack # <<>>, evt.next <= Len(listeners), Callee # "dangling"
  PROVE  ~Passed(evt, Callee)
<1>1. listeners \in Seq(Listener) /\ evt.next \in Nat /\ evt.next \in 1 .. Len(listeners) /\ Unique
  BY Delivered DEF StackInv, TypeOK
<1> SUFFICES ASSUME NEW i \in 1 .. evt.next - 1, listeners[i] = Callee PROVE FALSE
  BY DEF Passed
<1>2. i \in DOMAIN listeners /\ evt.next \in DOMAIN listeners /\ i # evt.next
  BY <1>1
<1> QED
  BY <1>1, <1>2 DEF Unique, Callee

(* One call on, one module more has been called.                           *)
LEMMA PassedNext ==
  ASSUME NEW f, NEW g, NEW l, f.next \in Nat, f.next > 0, g.next = f.next + 1
  PROVE  Passed(g, l) <=> Passed(f, l) \/ listeners[f.next] = l
<1>1. \A i : i \in 1 .. g.next - 1 <=> i \in 1 .. f.next - 1 \/ i = f.next
  OBVIOUS
<1> QED
  BY <1>1 DEF Passed

(* A loop that has come to its end has called every module.                *)
LEMMA AllPassed ==
  ASSUME StackInv, stack # <<>>, evt.next > Len(listeners), NEW l, Listening(l)
  PROVE  Passed(evt, l)
<1>1. listeners \in Seq(Listener) /\ evt.next = Len(listeners) + 1
  <2>1. listeners \in Seq(Listener) /\ Len(listeners) \in Nat
    BY DEF StackInv, TypeOK
  <2>2. evt.next \in 1 .. Len(listeners) + 1
    BY Delivered
  <2> QED
    BY <2>1, <2>2
<1> QED
  BY <1>1 DEF Passed, Listening

(* The event delivered, as the raw message, the parsed one or a line.      *)
LEMMA WhichEvent ==
  ASSUME StackInv, stack # <<>>
  PROVE  /\ evt.type = "RAW_MESSAGE_RECEIVED" => Len(stack) = 1 /\ evt = Outer /\ ~HasParsed /\ ~HasLine
         /\ evt.type = "MESSAGE_PARSED" => Len(stack) = 2 /\ evt = Inner /\ HasParsed /\ ~HasLine
         /\ IsLine(evt) => HasLine /\ HasParsed /\ Len(stack) > 2 /\ Inner.next = 1
         /\ evt.type \in {"RAW_MESSAGE_RECEIVED", "MESSAGE_PARSED"} => evt.msg = Len(submitted) /\ Len(submitted) > 0
         /\ evt.msg \in {Null, Len(submitted)}
         /\ evt.type \in {"TIME_TO_REGISTER", "NETWORK_SOCKET_CREATED"} => ~HasParsed /\ ~HasLine /\ Len(stack) = 1
         /\ HasLine <=> IsLine(evt)
<1>1. /\ stack \in Seq(Frame) /\ Len(stack) \in Nat /\ 1 <= Len(stack) /\ evt = stack[1]
      /\ evt.type \in Origin <=> Len(stack) = 1
      /\ evt.type = "MESSAGE_PARSED" <=> Len(stack) = 2 /\ Outer.type = "RAW_MESSAGE_RECEIVED"
      /\ Nesting /\ Contents /\ 1 \in DOMAIN stack
  BY Delivered DEF StackInv, TypeOK
<1>2. Len(stack) = 1 => evt = Outer
  BY <1>1 DEF Outer
<1>3. Len(stack) = 2 => evt = Inner
  BY <1>1 DEF Inner
<1>4. HasLine <=> IsLine(evt)
  BY <1>1 DEF HasLine
<1>5. /\ evt.type \in {"RAW_MESSAGE_RECEIVED", "MESSAGE_PARSED"} => evt.msg = Len(submitted) /\ Len(submitted) > 0
      /\ evt.msg \in {Null, Len(submitted)}
  BY <1>1 DEF Contents
<1>6. IsLine(evt) => HasLine /\ HasParsed /\ Len(stack) > 2 /\ Inner.next = 1
  <2> SUFFICES ASSUME IsLine(evt) PROVE HasParsed /\ Len(stack) > 2 /\ Inner.next = 1
    BY <1>4
  <2>1. 1 < Len(stack) - 1 /\ Inner.next = 1
    BY <1>1 DEF Contents
  <2>2. Len(stack) > 2
    BY <1>1, <2>1
  <2> QED
    BY <1>1, <2>1, <2>2 DEF HasParsed, Nesting
<1>7. evt.type = "RAW_MESSAGE_RECEIVED" => Len(stack) = 1 /\ evt = Outer /\ ~HasParsed /\ ~HasLine
  <2> SUFFICES ASSUME evt.type = "RAW_MESSAGE_RECEIVED"
               PROVE  Len(stack) = 1 /\ evt = Outer /\ ~HasParsed /\ ~HasLine
    OBVIOUS
  <2>1. Len(stack) = 1
    BY <1>1 DEF Origin
  <2>2. ~HasLine
    BY <1>4 DEF IsLine
  <2> QED
    BY <1>2, <2>1, <2>2 DEF HasParsed
<1>8. evt.type = "MESSAGE_PARSED" => Len(stack) = 2 /\ evt = Inner /\ HasParsed /\ ~HasLine
  BY <1>1, <1>3, <1>4 DEF HasParsed, IsLine
<1>9. evt.type \in {"TIME_TO_REGISTER", "NETWORK_SOCKET_CREATED"} => ~HasParsed /\ ~HasLine /\ Len(stack) = 1
  <2> SUFFICES ASSUME evt.type \in {"TIME_TO_REGISTER", "NETWORK_SOCKET_CREATED"}
               PROVE  ~HasParsed /\ ~HasLine /\ Len(stack) = 1
    OBVIOUS
  <2>1. Len(stack) = 1
    BY <1>1 DEF Origin
  <2>2. ~HasLine
    BY <1>4 DEF IsLine
  <2>3. ~HasParsed
    BY <2>1 DEF HasParsed
  <2> QED
    BY <2>1, <2>2, <2>3
<1> QED
  BY <1>4, <1>5, <1>6, <1>7, <1>8, <1>9, Zenon

(* A handler that returns takes its own module off what is to come, and    *)
(* nothing is added unless it is the parser's.                             *)
LEMMA HandledAhead ==
  ASSUME StackInv, NEW e, NEW nested, Handled(e, nested), evt.type # "RAW_MESSAGE_RECEIVED" \/ nested = <<>>
  PROVE  /\ \A l : RawAhead(l)' <=> RawAhead(l) /\ ~(evt.type = "RAW_MESSAGE_RECEIVED" /\ l = Callee)
         /\ \A l : ParsedAhead(l)' <=> ParsedAhead(l) /\ ~(evt.type = "MESSAGE_PARSED" /\ l = Callee)
         /\ \A l : l # "dangling" =>
              LinesAhead(l)' = IF IsLine(evt) /\ l = Callee THEN LinesAhead(l) - 1 ELSE LinesAhead(l)
         /\ HasParsed' <=> HasParsed
         /\ evt.type = "MESSAGE_PARSED" => Inner'.has = e.has /\ Inner'.claimed = e.claimed
         /\ evt.type # "MESSAGE_PARSED" /\ HasParsed => Inner' = Inner
<1>1. /\ stack \in Seq(Frame) /\ Len(stack) \in Nat /\ 1 <= Len(stack) /\ evt = stack[1]
      /\ evt.type = "MESSAGE_PARSED" <=> Len(stack) = 2 /\ Outer.type = "RAW_MESSAGE_RECEIVED"
      /\ evt.next \in Nat /\ evt.next > 0 /\ listeners' = listeners
  BY Delivered DEF Handled, program, StackInv, TypeOK
<1>2. /\ Len(stack') = Len(nested) + Len(stack)
      /\ \A i \in 1 .. Len(nested) : stack'[i] = nested[i]
      /\ LET f == stack'[Len(nested) + 1]
         IN  /\ f.type = evt.type /\ f.msg = evt.msg /\ f.connection = evt.connection
             /\ f.next = evt.next + 1 /\ f.has = e.has /\ f.claimed = e.claimed
      /\ \A i \in 2 .. Len(stack) : stack'[Len(nested) + i] = stack[i]
  BY HandledStack
<1>3. /\ \A l : Passed(Outer, l)' <=> Passed(Outer', l)
      /\ \A l : Passed(Inner, l)' <=> Passed(Inner', l)
      /\ \A l : Passed(stack[1], l)' <=> Passed(stack'[1], l)
  BY <1>1 DEF Passed
<1>4. CASE nested = <<>>
  <2>1. /\ Len(stack') = Len(stack) /\ \A i \in 2 .. Len(stack) : stack'[i] = stack[i]
        /\ stack'[1].type = evt.type /\ stack'[1].msg = evt.msg /\ stack'[1].next = evt.next + 1
        /\ stack'[1].has = e.has /\ stack'[1].claimed = e.claimed
    <3>1. Len(nested) = 0
      BY <1>4
    <3> QED
      BY <1>1, <1>2, <3>1
  <2>2. \A l : Passed(stack'[1], l) <=> Passed(evt, l) \/ Callee = l
    BY <1>1, <2>1, PassedNext DEF Callee
  <2>3. (HasLine' <=> HasLine) /\ (HasLine <=> IsLine(evt))
    BY <1>1, <2>1 DEF HasLine, IsLine
  <2>4. \A l : l # "dangling" =>
          LinesAhead(l)' = IF IsLine(evt) /\ l = Callee THEN LinesAhead(l) - 1 ELSE LinesAhead(l)
    <3> SUFFICES ASSUME NEW l, l # "dangling", HasLine
                 PROVE  Coming(l)' = IF l = Callee THEN Coming(l) - 1 ELSE Coming(l)
      BY <2>3 DEF LinesAhead
    <3>1. l = Callee => ~Passed(stack[1], l)
      BY <1>1, NotYet DEF Handled
    <3>2. Passed(stack[1], l)' <=> Passed(stack[1], l) \/ l = Callee
      BY <1>1, <1>3, <2>2
    <3> QED
      BY <1>1, <2>1, <3>1, <3>2 DEF Coming
  <2>5. CASE Len(stack) = 1
    <3>1. Outer = evt /\ Outer' = stack'[1] /\ ~HasParsed /\ ~HasParsed' /\ evt.type # "MESSAGE_PARSED"
      BY <1>1, <2>1, <2>5 DEF Outer, HasParsed
    <3> QED
      BY <1>1, <1>3, <2>1, <2>2, <2>4, <2>5, <3>1 DEF RawAhead, ParsedAhead
  <2>6. CASE Len(stack) > 1
    <3>1. Outer' = Outer /\ (HasParsed' <=> HasParsed) /\ evt.type # "RAW_MESSAGE_RECEIVED"
      BY <1>1, <2>1, <2>6, WhichEvent DEF Outer, HasParsed
    <3>2. CASE Len(stack) = 2
      <4>1. Inner = evt /\ Inner' = stack'[1] /\ (HasParsed <=> evt.type = "MESSAGE_PARSED")
        BY <1>1, <2>1, <3>2 DEF Inner, HasParsed
      <4> QED
        BY <1>1, <1>3, <2>1, <2>2, <2>4, <2>6, <3>1, <4>1 DEF RawAhead, ParsedAhead
    <3>3. CASE Len(stack) > 2
      <4>1. Len(stack') - 1 \in 2 .. Len(stack) /\ Len(stack') - 1 = Len(stack) - 1
        BY <1>1, <2>1, <3>3
      <4>2. Inner' = Inner
        BY <2>1, <4>1 DEF Inner
      <4>3. evt.type # "MESSAGE_PARSED"
        <5>1. Len(stack) # 2
          BY <3>3
        <5> QED
          BY <1>1, <5>1, Zenon
      <4> QED
        BY <1>1, <1>3, <2>1, <2>4, <2>6, <3>1, <4>2, <4>3 DEF RawAhead, ParsedAhead
    <3>4. Len(stack) = 2 \/ Len(stack) > 2
      <4>1. \A n \in Nat : n > 1 => n = 2 \/ n > 2
        OBVIOUS
      <4> QED
        BY <1>1, <2>6, <4>1, Zenon
    <3> QED
      BY <3>2, <3>3, <3>4, Zenon
  <2>7. Len(stack) = 1 \/ Len(stack) > 1
    <3>1. \A n \in Nat : 1 <= n => n = 1 \/ n > 1
      OBVIOUS
    <3> QED
      BY <1>1, <3>1, Zenon
  <2> QED
    BY <2>5, <2>6, <2>7, Zenon
<1>5. CASE evt.type \in {"TIME_TO_REGISTER", "NETWORK_SOCKET_CREATED"} /\ Len(nested) = 1 /\ Reply(nested[1])
  <2>1. Len(stack) = 1 /\ Outer = evt /\ ~HasParsed /\ ~HasLine
    <3>1. stack # <<>>
      BY <1>1
    <3>2. Len(stack) = 1 /\ ~HasParsed /\ ~HasLine
      BY <1>5, <3>1, WhichEvent
    <3> QED
      BY <1>1, <3>2 DEF Outer
  <2>2. Len(stack') = 2 /\ Outer' = stack'[2] /\ stack'[2].type = evt.type /\ stack'[1].msg = Null
    BY <1>2, <1>5, <2>1 DEF Outer, Reply
  <2>3. ~HasParsed' /\ ~HasLine'
    BY <1>5, <2>2 DEF HasParsed, HasLine, IsLine
  <2>4. ~IsLine(evt)
    BY <1>5 DEF IsLine
  <2> QED
    BY <1>5, <2>1, <2>2, <2>3, <2>4 DEF RawAhead, ParsedAhead, LinesAhead
<1>6. CASE evt.type = "MESSAGE_PARSED" /\ Len(nested) = 2 /\ Reply(nested[1]) /\ Reply(nested[2])
  <2>1. Len(stack) = 2 /\ Inner = evt /\ HasParsed /\ ~HasLine
    BY <1>1, <1>6, WhichEvent
  <2>2. Len(stack') = 4 /\ stack'[4] = stack[2] /\ stack'[1].msg = Null
    BY <1>2, <1>6, <2>1 DEF Reply
  <2>3. Outer' = Outer /\ Inner' = stack'[3]
    BY <2>1, <2>2 DEF Outer, Inner
  <2>4. Inner'.next = evt.next + 1 /\ Inner'.has = e.has /\ Inner'.claimed = e.claimed
    BY <1>2, <1>6, <2>3
  <2>5. \A l : Passed(Inner', l) <=> Passed(Inner, l) \/ Callee = l
    BY <1>1, <2>1, <2>4, PassedNext DEF Callee
  <2>6. HasParsed' /\ ~HasLine' /\ ~IsLine(evt)
    BY <1>6, <2>1, <2>2, <2>3 DEF HasParsed, HasLine, IsLine
  <2> QED
    BY <1>3, <1>6, <2>1, <2>2, <2>3, <2>4, <2>5, <2>6 DEF RawAhead, ParsedAhead, LinesAhead
<1> QED
  BY <1>4, <1>5, <1>6 DEF Handled, Sends, ParserSends

(* The parser brings the lines it has logged and a parsed message.         *)
LEMMA SendsAhead ==
  ASSUME StackInv, NEW e, NEW nested, Handled(e, nested), ParserSends(nested)
  PROVE  /\ \A l : RawAhead(l)' <=> RawAhead(l) /\ l # "parser"
         /\ \A l : ParsedAhead(l)'
         /\ \A l : LinesAhead(l)' = submitted[Len(submitted)].lines
         /\ HasParsed' /\ Inner'.has /\ ~Inner'.claimed
         /\ evt.type = "RAW_MESSAGE_RECEIVED" /\ Callee = "parser" /\ ~submitted[Len(submitted)].cut
<1>1. /\ Len(stack') = Len(nested) + Len(stack)
      /\ \A i \in 1 .. Len(nested) : stack'[i] = nested[i]
      /\ LET f == stack'[Len(nested) + 1]
         IN  /\ f.type = evt.type /\ f.msg = evt.msg /\ f.connection = evt.connection
             /\ f.next = evt.next + 1 /\ f.has = e.has /\ f.claimed = e.claimed
  BY HandledStack
<1>2. stack # <<>> /\ evt.next \in Nat /\ evt.next > 0 /\ listeners' = listeners
  BY Delivered DEF Handled, program
<1>3. /\ evt.type = "RAW_MESSAGE_RECEIVED" /\ Callee = "parser" /\ ~submitted[evt.msg].cut
      /\ submitted[evt.msg].lines \in Nat /\ Len(nested) = submitted[evt.msg].lines + 1
      /\ \A i \in 1 .. submitted[evt.msg].lines : nested[i] = Log(evt.msg)
      /\ nested[Len(nested)] = Parsed(evt.msg)
  BY DEF ParserSends, Callee
<1>4. Len(stack) = 1 /\ Outer = evt /\ evt.msg = Len(submitted) /\ evt.msg \in Nat /\ evt.msg # Null
  <2>1. Len(stack) = 1 /\ Outer = evt /\ evt.msg = Len(submitted) /\ Len(submitted) > 0
    BY <1>2, <1>3, WhichEvent
  <2>2. Len(submitted) \in Nat
    BY DEF StackInv, TypeOK
  <2> QED
    BY <2>1, <2>2 DEF Null
<1>5. /\ Parsed(evt.msg).type = "MESSAGE_PARSED" /\ Parsed(evt.msg).next = 1
      /\ Parsed(evt.msg).has /\ ~Parsed(evt.msg).claimed
      /\ Log(evt.msg).type = "LOG_MESSAGE" /\ Log(evt.msg).msg = evt.msg /\ Log(evt.msg).next = 1
  BY <1>4, MadeFrames
<1>6. Outer' = stack'[Len(nested) + 1] /\ Inner' = nested[Len(nested)] /\ Len(stack') > 1
  <2> DEFINE n == Len(nested)
  <2>1. n \in Nat /\ n > 0
    BY <1>3
  <2>2. Len(stack') = n + 1 /\ stack'[n] = nested[n]
    BY <1>1, <1>4, <2>1
  <2> HIDE DEF n
  <2>3. Len(stack') - 1 = n /\ Len(stack') > 1
    BY <2>1, <2>2
  <2> QED
    BY <2>2, <2>3 DEF Outer, Inner, n
<1>7. Inner' = Parsed(evt.msg)
  BY <1>3, <1>6
<1>8. HasParsed'
  BY <1>1, <1>3, <1>6 DEF HasParsed
<1>9. /\ \A l : Passed(Outer, l)' <=> Passed(Outer', l)
      /\ \A l : ~Passed(Inner, l)'
      /\ stack'[1].next = 1 => \A l : ~Passed(stack[1], l)'
  BY <1>2, <1>5, <1>7 DEF Passed
<1>10. \A l : RawAhead(l)' <=> RawAhead(l) /\ l # "parser"
  <2>1. \A l : Passed(Outer', l) <=> Passed(Outer, l) \/ Callee = l
    BY <1>1, <1>2, <1>4, <1>6, PassedNext DEF Callee
  <2>2. Outer'.type = "RAW_MESSAGE_RECEIVED" /\ Outer.type = "RAW_MESSAGE_RECEIVED"
    BY <1>1, <1>3, <1>4, <1>6
  <2>3. Len(stack') > 0 /\ Len(stack) > 0
    BY <1>1, <1>3, <1>4
  <2> QED
    BY <1>3, <1>9, <2>1, <2>2, <2>3 DEF RawAhead
<1>11. \A l : ParsedAhead(l)'
  BY <1>8, <1>9 DEF ParsedAhead
<1>12. \A l : LinesAhead(l)' = submitted[Len(submitted)].lines
  <2> DEFINE lines == submitted[Len(submitted)].lines
  <2>0. lines \in Nat /\ Len(nested) = lines + 1 /\ Len(stack') = lines + 2
    BY <1>1, <1>3, <1>4
  <2>1. CASE lines > 0
    <3>1. stack'[1] = Log(evt.msg)
      <4>1. 1 \in 1 .. Len(nested) /\ 1 \in 1 .. submitted[evt.msg].lines
        BY <1>4, <2>0, <2>1
      <4> QED
        BY <1>1, <1>3, <4>1
    <3>2. HasLine'
      BY <1>4, <1>5, <1>6, <3>1 DEF HasLine, IsLine
    <3>3. \A l : ~Passed(stack[1], l)'
      BY <1>5, <1>9, <3>1
    <3> QED
      BY <2>0, <3>2, <3>3 DEF LinesAhead, Coming
  <2>2. CASE lines = 0
    <3>1. stack'[1] = Parsed(evt.msg)
      BY <1>1, <1>3, <2>0, <2>2
    <3>2. ~HasLine'
      BY <1>5, <3>1 DEF HasLine, IsLine
    <3> QED
      BY <2>2, <3>2 DEF LinesAhead
  <2> QED
    BY <2>0, <2>1, <2>2
<1> QED
  BY <1>3, <1>4, <1>5, <1>7, <1>8, <1>10, <1>11, <1>12

(* The end of a dispatch takes nothing off what is to come for a module    *)
(* that listens.                                                           *)
LEMMA EndAhead ==
  ASSUME StackInv, EndOfLoop
  PROVE  /\ \A l : Listening(l) => /\ RawAhead(l)' <=> RawAhead(l)
                                   /\ ParsedAhead(l)' <=> ParsedAhead(l)
                                   /\ LinesAhead(l)' = LinesAhead(l)
         /\ HasParsed' => HasParsed /\ Inner' = Inner /\ \A l : ParsedAhead(l)' <=> ParsedAhead(l)
         /\ HasParsed /\ ~HasParsed' => \A l : Listening(l) => Passed(Inner, l)
         /\ \A l : RawAhead(l)' => RawAhead(l)
<1>1. /\ stack \in Seq(Frame) /\ Len(stack) \in Nat /\ 1 <= Len(stack) /\ stack # <<>>
      /\ evt.next > Len(listeners) /\ listeners' = listeners /\ evt = stack[1]
  BY Delivered DEF EndOfLoop, program, StackInv, TypeOK
<1>2. Len(stack') = Len(stack) - 1 /\ \A i \in 1 .. Len(stack') : stack'[i] = stack[i + 1]
  BY <1>1, EndStack DEF EndOfLoop
<1>3. \A l : Listening(l) => Passed(evt, l)
  BY <1>1, AllPassed
<1>4. /\ HasLine' <=> HasLine /\ Len(stack) # 3
      /\ HasLine' => stack'[1].next = 1
  <2>1. Contents /\ Nesting
    BY DEF StackInv
  <2>2. ASSUME HasLine' PROVE HasLine /\ Len(stack) # 3 /\ stack'[1].next = 1
    <3>1. 2 \in DOMAIN stack /\ IsLine(stack[2]) /\ stack'[1] = stack[2]
      BY <1>1, <1>2, <2>2 DEF HasLine
    <3>2. 2 < Len(stack) - 1 /\ \A k \in 1 .. Len(stack) - 2 : IsLine(stack[k])
      BY <2>1, <3>1 DEF Contents
    <3>3. 1 \in 1 .. Len(stack) - 2 /\ Len(stack) > 0 /\ Len(stack) # 3
      <4>1. \A n \in Nat : 2 < n - 1 => 1 \in 1 .. n - 2 /\ n > 0 /\ n # 3
        OBVIOUS
      <4> QED
        BY <1>1, <3>2, <4>1, Zenon
    <3>4. stack[2].next = 1
      BY <2>1, <3>1, <3>2 DEF Nesting
    <3> QED
      BY <3>1, <3>2, <3>3, <3>4 DEF HasLine
  <2>3. ASSUME HasLine, Len(stack) # 3 PROVE HasLine'
    <3>1. 1 \in DOMAIN stack /\ IsLine(stack[1])
      BY <1>1, <2>3 DEF HasLine
    <3>2. 1 < Len(stack) - 1 /\ \A k \in 1 .. Len(stack) - 2 : IsLine(stack[k])
      BY <2>1, <3>1 DEF Contents
    <3>3. 2 \in 1 .. Len(stack) - 2
      <4>1. \A n \in Nat : 1 < n - 1 /\ n # 3 => 2 \in 1 .. n - 2
        OBVIOUS
      <4> QED
        BY <1>1, <2>3, <3>2, <4>1, Zenon
    <3> QED
      BY <1>1, <1>2, <3>2, <3>3 DEF HasLine
  <2> QED
    BY <2>2, <2>3
<1>5. Len(stack') > 0 => Outer' = Outer
  BY <1>1, <1>2 DEF Outer
<1>6. Len(stack') > 1 => Inner' = Inner
  BY <1>1, <1>2 DEF Inner
<1>7. \A l : Passed(Outer, l)' <=> Passed(Outer', l)
  BY <1>1 DEF Passed
<1>8. \A l : Passed(Inner, l)' <=> Passed(Inner', l)
  BY <1>1 DEF Passed
<1>9. Len(stack) = 1 => evt = Outer
  BY <1>1 DEF Outer
<1>10. Len(stack) = 2 => evt = Inner
  BY <1>1 DEF Inner
<1>11. \A l : Listening(l) => (RawAhead(l)' <=> RawAhead(l))
  <2>1. CASE Len(stack') > 0
    <3>1. Len(stack) > 0
      BY <1>1
    <3> QED
      BY <1>5, <1>7, <2>1, <3>1 DEF RawAhead
  <2>2. CASE ~(Len(stack') > 0)
    <3>1. Len(stack) = 1
      BY <1>1, <1>2, <2>2
    <3> QED
      BY <1>3, <1>9, <2>2, <3>1 DEF RawAhead
  <2> QED
    BY <2>1, <2>2
<1>12. HasParsed' => HasParsed /\ Inner' = Inner
  BY <1>1, <1>2, <1>5, <1>6 DEF HasParsed
<1>13. HasParsed /\ ~HasParsed' => Inner = evt
  <2> SUFFICES ASSUME HasParsed, ~HasParsed' PROVE Len(stack) = 2
    BY <1>10
  <2>1. Len(stack) > 1 /\ Len(stack') > 0 /\ ~(Len(stack') > 1)
    BY <1>1, <1>2, <1>5 DEF HasParsed
  <2> QED
    BY <1>1, <1>2, <2>1
<1>14. \A l : Listening(l) => (ParsedAhead(l)' <=> ParsedAhead(l))
  BY <1>3, <1>8, <1>12, <1>13 DEF ParsedAhead
<1>15. \A l : Listening(l) => LinesAhead(l)' = LinesAhead(l)
  <2> SUFFICES ASSUME NEW l, Listening(l) PROVE LinesAhead(l)' = LinesAhead(l)
    OBVIOUS
  <2>1. HasLine => Coming(l) = Len(stack) - 3
    BY <1>1, <1>3 DEF Coming
  <2>2. HasLine' => Coming(l)' = Len(stack) - 3
    <3>1. HasLine' => ~Passed(stack[1], l)'
      BY <1>4 DEF Passed
    <3> QED
      BY <1>1, <1>2, <3>1 DEF Coming
  <2>3. CASE HasLine'
    <3>1. HasLine
      BY <1>4, <2>3
    <3> QED
      BY <2>1, <2>2, <2>3, <3>1 DEF LinesAhead
  <2>4. CASE HasLine /\ ~HasLine'
    <3>1. Len(stack) = 3
      BY <1>4, <2>4
    <3>2. Coming(l) = 0
      BY <2>1, <2>4, <3>1
    <3> QED
      BY <2>4, <3>2 DEF LinesAhead
  <2>5. CASE ~HasLine /\ ~HasLine'
    BY <2>5 DEF LinesAhead
  <2> QED
    BY <2>3, <2>4, <2>5
<1>16. \A l : RawAhead(l)' => RawAhead(l)
  BY <1>1, <1>5, <1>7 DEF RawAhead
<1>17. HasParsed' => \A l : ParsedAhead(l)' <=> ParsedAhead(l)
  BY <1>8, <1>12 DEF ParsedAhead
<1> QED
  BY <1>3, <1>11, <1>12, <1>13, <1>14, <1>15, <1>16, <1>17

(* A message the program hands over is still to come for everyone, and     *)
(* nothing else is.                                                        *)
LEMMA OriginAhead ==
  ASSUME StackInv
  PROVE  /\ \A text \in Text : parse_raw_message(text) => \A l : RawAhead(l)' /\ ~HasParsed' /\ ~HasLine'
         /\ \A type \in {"TIME_TO_REGISTER", "NETWORK_SOCKET_CREATED"}, connection \in Connection :
              DispatchOther(type, connection) => \A l : ~RawAhead(l)' /\ ~HasParsed' /\ ~HasLine'
<1>1. ASSUME NEW f, stack' = <<f>>, f.type # "LOG_MESSAGE"
      PROVE  Len(stack') = 1 /\ Outer' = f /\ ~HasParsed' /\ ~HasLine'
  <2>1. Len(stack') = 1 /\ stack'[1] = f
    BY <1>1
  <2> QED
    BY <1>1, <2>1 DEF Outer, HasParsed, HasLine, IsLine
<1>2. ASSUME NEW text \in Text, parse_raw_message(text)
      PROVE  \A l : RawAhead(l)' /\ ~HasParsed' /\ ~HasLine'
  <2> DEFINE p == Plain("RAW_MESSAGE_RECEIVED")
             f == [p EXCEPT !.msg = Len(submitted) + 1, !.has = TRUE]
  <2>1. stack' = <<f>> /\ listeners' = listeners
    BY <1>2 DEF parse_raw_message
  <2>2. p \in Frame /\ p.type = "RAW_MESSAGE_RECEIVED" /\ p.next = 1
    BY PlainFrame DEF EventType
  <2> HIDE DEF p
  <2>3. f.type = "RAW_MESSAGE_RECEIVED" /\ f.next = 1
    BY <2>2 DEF Frame
  <2> HIDE DEF f
  <2>4. Len(stack') = 1 /\ Outer' = f /\ ~HasParsed' /\ ~HasLine'
    BY <1>1, <2>1, <2>3
  <2>5. \A l : ~Passed(Outer, l)'
    BY <2>3, <2>4 DEF Passed
  <2> QED
    BY <2>3, <2>4, <2>5 DEF RawAhead
<1>3. ASSUME NEW type \in {"TIME_TO_REGISTER", "NETWORK_SOCKET_CREATED"}, NEW connection \in Connection,
             DispatchOther(type, connection)
      PROVE  \A l : ~RawAhead(l)' /\ ~HasParsed' /\ ~HasLine'
  <2> DEFINE p == Plain(type)
             f == [p EXCEPT !.connection = connection]
  <2>1. stack' = <<f>>
    BY <1>3 DEF DispatchOther
  <2>2. p \in Frame /\ p.type = type
    BY PlainFrame DEF EventType
  <2> HIDE DEF p
  <2>3. f.type = type
    BY <2>2 DEF Frame
  <2> HIDE DEF f
  <2>4. Len(stack') = 1 /\ Outer' = f /\ ~HasParsed' /\ ~HasLine'
    BY <1>1, <2>1, <2>3
  <2> QED
    BY <2>3, <2>4 DEF RawAhead
<1> QED
  BY <1>2, <1>3, Zenon

(* When no dispatch is under way, nothing is to come.                      *)
LEMMA NothingAhead ==
  /\ stack = <<>> => \A l : ~RawAhead(l) /\ ~HasParsed /\ ~HasLine
  /\ stack' = <<>> => \A l : ~RawAhead(l)' /\ ~HasParsed' /\ ~HasLine'
<1>1. stack = <<>> => Len(stack) = 0
  OBVIOUS
<1>2. stack' = <<>> => Len(stack') = 0
  OBVIOUS
<1> QED
  BY <1>1, <1>2 DEF RawAhead, HasParsed, HasLine

-----------------------------------------------------------------------------
(* Who has the message that is being dispatched *)

(* The application claims what it takes, and only the register logic takes *)
(* without a claim.                                                        *)
Claims ==
  HasParsed => /\ Inner.claimed <=> ~ParsedAhead("app")
               /\ Inner.has => ParsedAhead("app")
               /\ Inner.has \/ ~ParsedAhead("app") \/ ~ParsedAhead("register")

(* Whom a step calls, and with what.                                       *)
LEMMA Calls ==
  /\ Ignore \/ ParserThrows \/ ParserParses \/ NetworkQueues \/ AppTakes \/ RegisterProceeds \/ RegisterTakes
     \/ RegisterDereferences \/ LogWriterWrites \/ CallDangling =>
       stack # <<>> /\ evt.next <= Len(listeners)
  /\ Ignore => Callee \in Listener /\ evt.type \notin Concern(Callee)
  /\ ParserParses \/ ParserThrows => Callee = "parser" /\ evt.type = "RAW_MESSAGE_RECEIVED"
  /\ NetworkQueues => Callee = "network"
  /\ AppTakes => Callee = "app" /\ evt.type = "MESSAGE_PARSED"
  /\ RegisterProceeds => Callee = "register" /\ evt.type \in {"TIME_TO_REGISTER", "NETWORK_SOCKET_CREATED"}
  /\ RegisterTakes => Callee = "register" /\ evt.type = "MESSAGE_PARSED" /\ evt.has
  /\ RegisterDereferences =>
       /\ Callee = "register" /\ BeyondDefined
       /\ evt.type \in {"TIME_TO_REGISTER", "MESSAGE_PARSED", "NETWORK_SOCKET_CREATED"}
       /\ IF evt.type = "MESSAGE_PARSED" THEN ~evt.has ELSE evt.connection = "unset"
  /\ LogWriterWrites => Callee = "logwriter" /\ evt.type = "LOG_MESSAGE"
  /\ CallDangling => Callee = "dangling" /\ BeyondDefined
<1> USE DEF Callee, Handles, Called
<1>1. Ignore \/ ParserThrows \/ ParserParses \/ NetworkQueues \/ AppTakes \/ RegisterProceeds \/ RegisterTakes
       \/ RegisterDereferences \/ LogWriterWrites \/ CallDangling =>
        stack # <<>> /\ evt.next <= Len(listeners)
  BY DEF Ignore, ParserThrows, ParserParses, NetworkQueues, AppTakes, RegisterProceeds, RegisterTakes,
         RegisterDereferences, LogWriterWrites, CallDangling
<1>2. Ignore => Callee \in Listener /\ evt.type \notin Concern(Callee)
  BY DEF Ignore
<1>3. ParserParses \/ ParserThrows => Callee = "parser" /\ evt.type = "RAW_MESSAGE_RECEIVED"
  BY DEF ParserParses, ParserThrows, Concern
<1>4. NetworkQueues => Callee = "network"
  BY DEF NetworkQueues
<1>5. AppTakes => Callee = "app" /\ evt.type = "MESSAGE_PARSED"
  BY DEF AppTakes, Concern
<1>6. RegisterProceeds => Callee = "register" /\ evt.type \in {"TIME_TO_REGISTER", "NETWORK_SOCKET_CREATED"}
  BY DEF RegisterProceeds, Concern
<1>7. RegisterTakes => Callee = "register" /\ evt.type = "MESSAGE_PARSED" /\ evt.has
  BY DEF RegisterTakes
<1>8. RegisterDereferences =>
       /\ Callee = "register" /\ BeyondDefined
       /\ evt.type \in {"TIME_TO_REGISTER", "MESSAGE_PARSED", "NETWORK_SOCKET_CREATED"}
       /\ IF evt.type = "MESSAGE_PARSED" THEN ~evt.has ELSE evt.connection = "unset"
  BY DEF RegisterDereferences, Concern
<1>9. LogWriterWrites => Callee = "logwriter" /\ evt.type = "LOG_MESSAGE"
  BY DEF LogWriterWrites, Concern
<1>10. CallDangling => Callee = "dangling" /\ BeyondDefined
  BY DEF CallDangling
<1> QED
  BY <1>1, <1>2, <1>3, <1>4, <1>5, <1>6, <1>7, <1>8, <1>9, <1>10, Zenon

(* A module has the message still to come that it is called with.          *)
LEMMA CalleeAhead ==
  ASSUME StackInv, stack # <<>>, evt.next <= Len(listeners), Callee # "dangling"
  PROVE  /\ evt.type = "RAW_MESSAGE_RECEIVED" => RawAhead(Callee)
         /\ evt.type = "MESSAGE_PARSED" => ParsedAhead(Callee)
         /\ IsLine(evt) => LinesAhead(Callee) = Len(stack) - 2 /\ Len(stack) > 2
<1>1. stack # <<>> /\ evt.next <= Len(listeners) /\ ~Passed(evt, Callee)
  BY NotYet
<1>2. Len(stack) > 0 /\ evt = stack[1]
  BY <1>1, Delivered
<1> QED
  BY <1>1, <1>2, WhichEvent DEF RawAhead, ParsedAhead, LinesAhead, Coming

(* A handler that does not take the message leaves it where it is.         *)
LEMMA Bystander ==
  ASSUME StackInv, Ignore \/ NetworkQueues \/ LogWriterWrites \/ RegisterProceeds
  PROVE  /\ \A l : RawAhead(l)' <=> RawAhead(l) /\ ~(evt.type = "RAW_MESSAGE_RECEIVED" /\ l = Callee)
         /\ \A l : ParsedAhead(l)' <=> ParsedAhead(l) /\ ~(evt.type = "MESSAGE_PARSED" /\ l = Callee)
         /\ \A l : l # "dangling" =>
              LinesAhead(l)' = IF IsLine(evt) /\ l = Callee THEN LinesAhead(l) - 1 ELSE LinesAhead(l)
         /\ HasParsed' <=> HasParsed
         /\ HasParsed => Inner'.has = Inner.has /\ Inner'.claimed = Inner.claimed
         /\ evt.type = "MESSAGE_PARSED" => Callee \notin {"app", "register"}
         /\ evt.type = "RAW_MESSAGE_RECEIVED" => Callee # "parser"
<1>1. stack # <<>>
  BY Calls
<1>2. PICK nested : Handled(evt, nested) /\ (evt.type # "RAW_MESSAGE_RECEIVED" \/ nested = <<>>)
  <2>1. CASE Ignore \/ NetworkQueues \/ LogWriterWrites
    BY <2>1, HandlerReturns, Zenon
  <2>2. CASE RegisterProceeds
    <3>1. evt.type # "RAW_MESSAGE_RECEIVED"
      BY <2>2, Calls
    <3> QED
      BY <2>2, <3>1, HandlerReturns, Zenon
  <2> QED
    BY <2>1, <2>2
<1>3. /\ evt.type = "MESSAGE_PARSED" => Callee \notin {"app", "register"}
      /\ evt.type = "RAW_MESSAGE_RECEIVED" => Callee # "parser"
  BY Calls DEF Concern
<1>4. evt.type = "MESSAGE_PARSED" => evt = Inner
  BY <1>1, WhichEvent
<1>5. HasParsed => Inner'.has = Inner.has /\ Inner'.claimed = Inner.claimed
  BY <1>2, <1>4, HandledAhead
<1> QED
  BY <1>2, <1>3, <1>5, HandledAhead, Zenon

(* The application takes the message, unless it was taken from it.         *)
LEMMA AppAhead ==
  ASSUME StackInv, Claims, AppTakes
  PROVE  /\ \A l : RawAhead(l)' <=> RawAhead(l)
         /\ \A l : ParsedAhead(l)' <=> ParsedAhead(l) /\ l # "app"
         /\ \A l : l # "dangling" => LinesAhead(l)' = LinesAhead(l)
         /\ HasParsed' /\ HasParsed /\ ~evt.claimed /\ evt = Inner
         /\ ~Inner'.has /\ Inner'.claimed
<1>1. stack # <<>> /\ Callee = "app" /\ evt.type = "MESSAGE_PARSED" /\ evt = Inner /\ HasParsed /\ ParsedAhead("app")
  <2>1. stack # <<>> /\ evt.next <= Len(listeners) /\ Callee = "app" /\ evt.type = "MESSAGE_PARSED"
    BY Calls
  <2> QED
    BY <2>1, CalleeAhead, WhichEvent
<1>2. ~evt.claimed
  BY <1>1 DEF Claims
<1>3. Handled([evt EXCEPT !.has = FALSE, !.claimed = TRUE], <<>>)
  BY <1>2, HandlerReturns
<1>4. evt \in Frame
  BY <1>1, Delivered
<1> DEFINE e == [evt EXCEPT !.has = FALSE, !.claimed = TRUE]
<1>5. e.has = FALSE /\ e.claimed = TRUE
  BY <1>4 DEF Frame
<1> HIDE DEF e
<1>6. Handled(e, <<>>)
  BY <1>3 DEF e
<1>7. ~IsLine(evt)
  BY <1>1 DEF IsLine
<1> QED
  BY <1>1, <1>2, <1>5, <1>6, <1>7, HandledAhead

(* The register logic takes the message if it is a REGISTER request.       *)
LEMMA RegisterAhead ==
  ASSUME StackInv, RegisterTakes
  PROVE  /\ \A l : RawAhead(l)' <=> RawAhead(l)
         /\ \A l : ParsedAhead(l)' <=> ParsedAhead(l) /\ l # "register"
         /\ \A l : l # "dangling" => LinesAhead(l)' = LinesAhead(l)
         /\ HasParsed' /\ HasParsed /\ evt = Inner /\ Inner.has
         /\ Inner'.has <=> ~submitted[evt.msg].register
         /\ Inner'.claimed = Inner.claimed
<1>1. stack # <<>> /\ Callee = "register" /\ evt.type = "MESSAGE_PARSED" /\ evt = Inner /\ HasParsed /\ evt.has
  BY Calls, WhichEvent
<1> DEFINE e == IF submitted[evt.msg].register THEN [evt EXCEPT !.has = FALSE] ELSE evt
<1>2. PICK nested : Handled(e, nested)
  BY HandlerReturns
<1>3. evt \in Frame
  BY <1>1, Delivered
<1>4. (e.has <=> ~submitted[evt.msg].register) /\ e.claimed = evt.claimed
  BY <1>1, <1>3 DEF Frame
<1>5. ~IsLine(evt)
  BY <1>1 DEF IsLine
<1> HIDE DEF e
<1> QED
  BY <1>1, <1>2, <1>4, <1>5, HandledAhead

(* A parsed message is with its event, with the application or with the    *)
(* register logic.                                                         *)
LEMMA ClaimsStep ==
  ASSUME StackInv, Claims, [Next]_vars
  PROVE  Claims'
<1>1. CASE \/ \E text \in Text : parse_raw_message(text)
           \/ \E type \in {"TIME_TO_REGISTER", "NETWORK_SOCKET_CREATED"}, connection \in Connection :
                DispatchOther(type, connection)
  <2>1. ~HasParsed'
    BY <1>1, OriginAhead
  <2> QED
    BY <2>1 DEF Claims
<1>2. CASE EndOfLoop
  BY <1>2, EndAhead DEF Claims
<1>3. CASE Ignore \/ NetworkQueues \/ LogWriterWrites \/ RegisterProceeds
  BY <1>3, Bystander DEF Claims
<1>4. CASE ParserParses
  <2>1. PICK nested : ParserSends(nested) /\ Handled([evt EXCEPT !.has = FALSE], nested)
    BY <1>4, HandlerReturns
  <2>2. HasParsed' /\ Inner'.has /\ ~Inner'.claimed /\ \A l : ParsedAhead(l)'
    BY <2>1, SendsAhead
  <2> QED
    BY <2>2 DEF Claims
<1>5. CASE AppTakes
  BY <1>5, AppAhead DEF Claims
<1>6. CASE RegisterTakes
  <2>1. /\ HasParsed /\ Inner'.claimed = Inner.claimed /\ ~ParsedAhead("register")'
        /\ ParsedAhead("app")' <=> ParsedAhead("app")
        /\ Inner.has
    BY <1>6, RegisterAhead
  <2> QED
    BY <2>1 DEF Claims
<1>7. CASE ParserThrows \/ RegisterDereferences \/ CallDangling
  <2>1. stack' = <<>>
    BY <1>7, Calls DEF ParserThrows, BeyondDefined
  <2> QED
    BY <2>1, NothingAhead DEF Claims
<1>8. CASE UNCHANGED vars
  BY <1>8 DEF Claims, vars, program, HasParsed, ParsedAhead, Inner, Outer, Passed
<1> QED
  BY <1>1, <1>2, <1>3, <1>4, <1>5, <1>6, <1>7, <1>8 DEF Next, dispatch, Terminated

LEMMA ClaimsInvariant == Spec => [](StackInv /\ Claims)
<1>1. Init => StackInv /\ Claims
  <2>1. Init => stack = <<>>
    BY DEF Init
  <2> QED
    BY <2>1, StackInit, NothingAhead DEF Claims
<1>2. StackInv /\ Claims /\ [Next]_vars => (StackInv /\ Claims)'
  BY ClaimsStep, StackStep, TypeStep DEF StackInv
<1> QED
  BY <1>1, <1>2, PTL DEF Spec

(* Behaviour becomes undefined for one of the reasons given, and what      *)
(* there was of a reason stays.                                            *)
LEMMA UndefinedStep ==
  ASSUME StackInv, Claims, UndefinedExplained, [Next]_vars
  PROVE  UndefinedExplained'
<1>1. listeners' = listeners
  BY StackStep
<1>2. CASE RegisterDereferences
  <2>1. /\ stack # <<>> /\ evt.next <= Len(listeners) /\ Callee = "register" /\ UNCHANGED <<submitted, others>>
        /\ evt.type \in {"TIME_TO_REGISTER", "MESSAGE_PARSED", "NETWORK_SOCKET_CREATED"}
        /\ IF evt.type = "MESSAGE_PARSED" THEN ~evt.has ELSE evt.connection = "unset"
    BY <1>2, Calls DEF BeyondDefined, program
  <2>2. /\ evt.next \in DOMAIN listeners /\ listeners[evt.next] = "register"
        /\ \A l : Passed(evt, l) => \E i \in DOMAIN listeners : i < evt.next /\ listeners[i] = l
    <3>1. evt.next \in 1 .. Len(listeners) /\ listeners \in Seq(Listener)
      BY <2>1, Delivered DEF StackInv, TypeOK
    <3> QED
      BY <2>1, <3>1 DEF Callee, Passed
  <2>3. Listening("register")
    BY <2>2 DEF Listening
  <2>4. CASE evt.type = "MESSAGE_PARSED"
    <3>1. evt = Inner /\ HasParsed /\ ParsedAhead("register")
      BY <2>1, <2>4, CalleeAhead, WhichEvent
    <3>2. Passed(evt, "app")
      BY <2>1, <2>4, <3>1 DEF Claims, ParsedAhead
    <3>3. Ahead("app", "register")
      BY <2>2, <3>2 DEF Ahead
    <3>4. Len(submitted) \in DOMAIN submitted /\ ~submitted[Len(submitted)].cut
      <4>1. Len(submitted) > 0 /\ submitted \in Seq(Text)
        BY <2>1, <2>4, WhichEvent DEF StackInv, TypeOK
      <4>2. ~submitted[Len(submitted)].cut
        BY <3>1 DEF StackInv, Contents, HasParsed
      <4> QED
        BY <4>1, <4>2
    <3> QED
      BY <1>1, <2>1, <3>3, <3>4 DEF UndefinedExplained, Ahead
  <2>5. CASE evt.type # "MESSAGE_PARSED"
    <3>1. 1 \in DOMAIN stack /\ evt = stack[1]
      BY <2>1, Delivered DEF StackInv, TypeOK
    <3>2. \E k \in DOMAIN others : others[k] = "unset"
      BY <2>1, <2>5, <3>1 DEF StackInv, Contents
    <3> QED
      BY <1>1, <2>1, <2>3, <3>2 DEF UndefinedExplained, Listening
  <2> QED
    BY <2>4, <2>5
<1>3. CASE CallDangling
  <2>1. stack # <<>> /\ evt.next <= Len(listeners) /\ Callee = "dangling"
    BY <1>3, Calls
  <2>2. evt.next \in DOMAIN listeners
    BY <2>1, Delivered DEF StackInv, TypeOK
  <2> QED
    BY <1>1, <2>1, <2>2 DEF UndefinedExplained, Listening, Callee
<1>4. CASE \/ \E text \in Text : parse_raw_message(text)
           \/ \E type \in {"TIME_TO_REGISTER", "NETWORK_SOCKET_CREATED"}, connection \in Connection :
                DispatchOther(type, connection)
  BY <1>4, OriginNesting DEF UndefinedExplained
<1>5. CASE /\ UNCHANGED <<submitted, others, undefined>>
  BY <1>1, <1>5 DEF UndefinedExplained, Listening, Ahead
<1> QED
  BY <1>2, <1>3, <1>4, <1>5
  DEF Next, dispatch, EndOfLoop, Ignore, ParserThrows, ParserParses, NetworkQueues, AppTakes, RegisterProceeds,
      RegisterTakes, LogWriterWrites, Terminated, vars, program

(* A null, dangling or unset pointer is dereferenced only in a program     *)
(* with a log writer that threw, with the application ahead of the         *)
(* register logic, or one that dispatches an event without a connection.   *)
THEOREM UndefinedOnlyThen == Spec => []UndefinedExplained
<1>1. Init => UndefinedExplained
  BY DEF Init, UndefinedExplained
<1>2. StackInv /\ Claims /\ UndefinedExplained /\ [Next]_vars => UndefinedExplained'
  BY UndefinedStep
<1> QED
  BY <1>1, <1>2, ClaimsInvariant, PTL DEF Spec

-----------------------------------------------------------------------------
(* Counting *)

(* How often something occurs is a number, zero if it does not.            *)
LEMMA OccurrencesNat ==
  ASSUME NEW S, NEW s \in Seq(S), NEW m
  PROVE  /\ IsFiniteSet({i \in DOMAIN s : s[i] = m})
         /\ Occurrences(m, s) \in Nat
         /\ Occurrences(m, s) = 0 <=> \A i \in DOMAIN s : s[i] # m
<1> DEFINE here == {i \in DOMAIN s : s[i] = m}
<1>1. IsFiniteSet(here)
  <2>1. IsFiniteSet(1 .. Len(s))
    BY FS_Interval
  <2>2. here \subseteq 1 .. Len(s)
    OBVIOUS
  <2> QED
    BY <2>1, <2>2, FS_Subset
<1>2. Cardinality(here) \in Nat /\ (Cardinality(here) = 0 <=> here = {})
  BY <1>1, FS_CardinalityType, FS_EmptySet
<1> QED
  BY <1>1, <1>2 DEF Occurrences

(* What is appended counts once.                                           *)
LEMMA OccurrencesAppend ==
  ASSUME NEW S, NEW s \in Seq(S), NEW x \in S, NEW m
  PROVE  Occurrences(m, Append(s, x)) = IF x = m THEN Occurrences(m, s) + 1 ELSE Occurrences(m, s)
<1> DEFINE here == {i \in DOMAIN s : s[i] = m}
           t == Append(s, x)
           there == {i \in DOMAIN t : t[i] = m}
           n == Len(s) + 1
<1>1. Len(s) \in Nat /\ DOMAIN s = 1 .. Len(s) /\ n \in Nat
  OBVIOUS
<1>2. DOMAIN t = 1 .. n /\ t[n] = x /\ \A i \in 1 .. Len(s) : t[i] = s[i]
  OBVIOUS
<1> HIDE DEF t
<1>3. IsFiniteSet(here) /\ n \notin here
  <2>1. IsFiniteSet(here)
    BY OccurrencesNat
  <2>2. n \notin here
    BY <1>1
  <2> QED
    BY <2>1, <2>2
<1>4. ASSUME x = m PROVE Cardinality(there) = Cardinality(here) + 1
  <2>1. there = here \cup {n}
    BY <1>1, <1>2, <1>4
  <2> HIDE DEF here, there, n
  <2> QED
    BY <1>3, <2>1, FS_AddElement
<1>5. ASSUME x # m PROVE Cardinality(there) = Cardinality(here)
  <2>1. there = here
    BY <1>1, <1>2, <1>5
  <2> QED
    BY <2>1
<1>6. Occurrences(m, s) = Cardinality(here) /\ Occurrences(m, Append(s, x)) = Cardinality(there)
  BY DEF Occurrences, t
<1> QED
  BY <1>4, <1>5, <1>6

-----------------------------------------------------------------------------
(* Owners of a parsed message *)

(* The event, the application and the register logic, as often as they     *)
(* have the message.                                                       *)
Owners(m) ==
  (IF Held /\ m = Len(submitted) THEN 1 ELSE 0) + Occurrences(m, m_msgs) + Occurrences(m, m_register_messages)

(* What modules keep are messages there have been.                         *)
Kept ==
  /\ \A i \in DOMAIN m_msgs : m_msgs[i] \in 0 .. Len(submitted)
  /\ \A i \in DOMAIN m_register_messages : m_register_messages[i] \in 1 .. Len(submitted)

(* No message has two owners, and none before it is parsed; where the      *)
(* application listens, it has one from then on.                           *)
Owned ==
  /\ \A m \in DOMAIN submitted : Owners(m) <= 1
  /\ RawAhead("parser") => \A m \in DOMAIN submitted : m = Len(submitted) => Owners(m) = 0
  /\ Listening("app") /\ Listening("parser") /\ ~undefined =>
       \A m \in DOMAIN submitted :
         ~submitted[m].cut /\ ~(RawAhead("parser") /\ m = Len(submitted)) => Owners(m) = 1

InOrder == \A i, j \in DOMAIN m_msgs : i < j /\ m_msgs[j] # Null => m_msgs[i] < m_msgs[j]

(* The register logic has taken the message ahead of the application,      *)
(* which will keep a null for it.                                          *)
Taken == Ahead("register", "app") /\ HasParsed /\ ~Inner.has /\ ParsedAhead("app")

Nulls ==
  ~undefined => Occurrences(Null, m_msgs) + (IF Taken THEN 1 ELSE 0)
                  = IF Ahead("register", "app") THEN Len(m_register_messages) ELSE 0

Counted ==
  Listening("parser") /\ ~undefined => m_paket_count + (IF RawAhead("parser") THEN 1 ELSE 0) = Len(submitted)

OwnersInv == Kept /\ Owned /\ InOrder /\ Nulls /\ Counted

(* While the parsed message is under way, the parser has been called.      *)
LEMMA ParserPassed ==
  ASSUME StackInv, HasParsed
  PROVE  ~RawAhead("parser")
<1>1. Outer.next > 1 /\ listeners[Outer.next - 1] = "parser"
  BY DEF StackInv, Contents, HasParsed
<1>2. Outer.next \in Nat
  <2>1. stack \in Seq(Frame) /\ Len(stack) > 1
    BY DEF StackInv, TypeOK, HasParsed
  <2>2. Len(stack) \in DOMAIN stack
    BY <2>1
  <2>3. Outer \in Frame
    BY <2>1, <2>2 DEF Outer
  <2> QED
    BY <2>3 DEF Frame
<1> QED
  BY <1>1, <1>2 DEF RawAhead, Passed

(* What is parsed has come to a parser that listens.                       *)
LEMMA ParserListens ==
  ASSUME StackInv, HasParsed
  PROVE  Listening("parser")
<1>1. Outer.next > 1 /\ listeners[Outer.next - 1] = "parser"
  BY DEF StackInv, Contents, HasParsed
<1>2. Len(stack) \in DOMAIN stack /\ listeners \in Seq(Listener)
  BY DEF HasParsed, StackInv, TypeOK
<1>3. Outer.next \in 1 .. Len(listeners) + 1
  BY <1>2 DEF StackInv, TypeOK, Outer
<1>4. Outer.next - 1 \in DOMAIN listeners
  BY <1>1, <1>2, <1>3
<1> QED
  BY <1>1, <1>4 DEF Listening

(* Types of what is counted.                                               *)
LEMMA OwnersTypes ==
  ASSUME StackInv
  PROVE  /\ m_msgs \in Seq(Nat) /\ m_register_messages \in Seq(Nat) /\ submitted \in Seq(Text)
         /\ Len(submitted) \in Nat /\ DOMAIN submitted = 1 .. Len(submitted) /\ m_paket_count \in Nat
         /\ \A m : Occurrences(m, m_msgs) \in Nat /\ Occurrences(m, m_register_messages) \in Nat
         /\ \A m : Owners(m) \in Nat
<1>1. m_msgs \in Seq(Nat) /\ m_register_messages \in Seq(Nat) /\ submitted \in Seq(Text) /\ m_paket_count \in Nat
  BY DEF StackInv, TypeOK
<1>2. \A m : Occurrences(m, m_msgs) \in Nat /\ Occurrences(m, m_register_messages) \in Nat
  BY <1>1, OccurrencesNat
<1> QED
  BY <1>1, <1>2 DEF Owners

(* Nothing changes for a message with which nothing happens.               *)
LEMMA OwnersSame ==
  ASSUME StackInv, OwnersInv,
         UNCHANGED <<listeners, submitted, m_msgs, m_register_messages, undefined>>,
         Held' => Held, Listening("app") => (Held' <=> Held),
         RawAhead("parser")' => RawAhead("parser"),
         Listening("parser") => (RawAhead("parser")' <=> RawAhead("parser")) \/ submitted[Len(submitted)].cut
  PROVE  Kept' /\ Owned' /\ InOrder'
<1>1. Kept' /\ InOrder'
  BY DEF OwnersInv, Kept, InOrder
<1>2. \A m : Owners(m)' \in Nat /\ Owners(m)' <= Owners(m) /\ (Listening("app") => Owners(m)' = Owners(m))
  <2> SUFFICES ASSUME NEW m
               PROVE  Owners(m)' \in Nat /\ Owners(m)' <= Owners(m) /\ (Listening("app") => Owners(m)' = Owners(m))
    OBVIOUS
  <2>1. Occurrences(m, m_msgs) \in Nat /\ Occurrences(m, m_register_messages) \in Nat
    BY OwnersTypes
  <2>2. Occurrences(m, m_msgs)' = Occurrences(m, m_msgs)
        /\ Occurrences(m, m_register_messages)' = Occurrences(m, m_register_messages)
    BY DEF Occurrences
  <2> QED
    BY <2>1, <2>2 DEF Owners
<1>3. /\ \A m \in DOMAIN submitted : Owners(m)' <= 1
      /\ RawAhead("parser")' => \A m \in DOMAIN submitted : m = Len(submitted) => Owners(m)' = 0
  BY <1>2, OwnersTypes DEF OwnersInv, Owned
<1>4. Owned'
  BY <1>2, <1>3, OwnersTypes DEF OwnersInv, Owned, Listening
<1> QED
  BY <1>1, <1>4

(* A new message has no owner yet.                                         *)
LEMMA OwnersOrigin ==
  ASSUME StackInv, OwnersInv, NEW text \in Text, parse_raw_message(text)
  PROVE  OwnersInv'
<1>1. /\ stack = <<>> /\ ~undefined /\ undefined' = undefined /\ submitted' = Append(submitted, text)
      /\ UNCHANGED <<listeners, m_msgs, m_register_messages, m_paket_count>>
  BY DEF parse_raw_message, MayDispatch, Idle, modules
<1>2. Len(submitted') = Len(submitted) + 1 /\ \A m \in 1 .. Len(submitted) : submitted'[m] = submitted[m]
  BY <1>1, OwnersTypes
<1>3. DOMAIN submitted' = 1 .. Len(submitted) + 1 /\ DOMAIN submitted = 1 .. Len(submitted)
  BY <1>1, OwnersTypes
<1>4. (\A l : ~RawAhead(l) /\ RawAhead(l)') /\ ~HasParsed /\ ~HasParsed' /\ ~Held /\ ~Held' /\ ~Taken /\ ~Taken'
  BY <1>1, OriginAhead, NothingAhead DEF Held, Taken
<1>5. \A m : Owners(m)' = Owners(m)
  BY <1>1, <1>4 DEF Owners
<1>6. Owners(Len(submitted) + 1) = 0
  <2>1. /\ \A i \in DOMAIN m_msgs : m_msgs[i] # Len(submitted) + 1
        /\ \A i \in DOMAIN m_register_messages : m_register_messages[i] # Len(submitted) + 1
    BY OwnersTypes DEF OwnersInv, Kept
  <2>2. Occurrences(Len(submitted) + 1, m_msgs) = 0 /\ Occurrences(Len(submitted) + 1, m_register_messages) = 0
    BY <2>1, OwnersTypes, OccurrencesNat
  <2> QED
    BY <1>4, <2>2 DEF Owners
<1>7. Kept' /\ InOrder'
  BY <1>1, <1>2, OwnersTypes DEF OwnersInv, Kept, InOrder
<1>8. Owned'
  <2>1. \A m \in DOMAIN submitted' : Owners(m)' <= 1
    BY <1>3, <1>5, <1>6, OwnersTypes DEF OwnersInv, Owned
  <2>2. \A m \in DOMAIN submitted' : m = Len(submitted') => Owners(m)' = 0
    BY <1>2, <1>5, <1>6
  <2>3. ASSUME Listening("app"), Listening("parser"), NEW m \in DOMAIN submitted', ~submitted'[m].cut,
               ~(RawAhead("parser")' /\ m = Len(submitted'))
        PROVE  Owners(m)' = 1
    <3>1. m \in 1 .. Len(submitted) /\ ~submitted[m].cut
      BY <1>2, <1>3, <1>4, <2>3, OwnersTypes
    <3> QED
      BY <1>1, <1>3, <1>4, <1>5, <2>3, <3>1 DEF OwnersInv, Owned
  <2> QED
    BY <1>1, <2>1, <2>2, <2>3 DEF Owned, Listening
<1>9. Nulls'
  BY <1>1, <1>4 DEF OwnersInv, Nulls, Ahead
<1>10. Counted'
  BY <1>1, <1>2, <1>4, OwnersTypes DEF OwnersInv, Counted, Listening
<1> QED
  BY <1>7, <1>8, <1>9, <1>10 DEF OwnersInv

(* The parser makes the event the first owner.                             *)
LEMMA OwnersParsed ==
  ASSUME StackInv, OwnersInv, ParserParses
  PROVE  OwnersInv'
<1>1. PICK nested : ParserSends(nested) /\ Handled([evt EXCEPT !.has = FALSE], nested)
  BY HandlerReturns
<1>2. /\ \A l : RawAhead(l)' <=> RawAhead(l) /\ l # "parser"
      /\ HasParsed' /\ Inner'.has /\ ~submitted[Len(submitted)].cut
  BY <1>1, SendsAhead
<1>3. /\ stack # <<>> /\ evt.next <= Len(listeners) /\ Callee = "parser" /\ evt.type = "RAW_MESSAGE_RECEIVED"
      /\ RawAhead("parser") /\ ~HasParsed /\ Len(submitted) > 0
  BY Calls, CalleeAhead, WhichEvent
<1>4. /\ UNCHANGED <<listeners, submitted, m_msgs, m_register_messages, undefined>>
      /\ m_paket_count' = m_paket_count + 1
  BY DEF ParserParses, program
<1>5. ~undefined
  BY <1>3 DEF StackInv, Stopped
<1>6. ~Held /\ Held' /\ ~Taken /\ ~Taken' /\ ~RawAhead("parser")'
  BY <1>2, <1>3 DEF Held, Taken
<1>7. \A m \in DOMAIN submitted : Owners(m)' = IF m = Len(submitted) THEN 1 ELSE Owners(m)
  <2> SUFFICES ASSUME NEW m \in DOMAIN submitted PROVE Owners(m)' = IF m = Len(submitted) THEN 1 ELSE Owners(m)
    OBVIOUS
  <2>1. m = Len(submitted) => Owners(m) = 0
    BY <1>3 DEF OwnersInv, Owned
  <2>2. /\ Occurrences(m, m_msgs)' = Occurrences(m, m_msgs)
        /\ Occurrences(m, m_register_messages)' = Occurrences(m, m_register_messages)
        /\ Occurrences(m, m_msgs) \in Nat /\ Occurrences(m, m_register_messages) \in Nat
    BY <1>4, OwnersTypes
  <2>3. Owners(m)' = Owners(m) + (IF m = Len(submitted) THEN 1 ELSE 0)
    BY <1>4, <1>6, <2>2 DEF Owners
  <2> QED
    BY <2>1, <2>3, OwnersTypes
<1>8. Kept' /\ InOrder'
  BY <1>4 DEF OwnersInv, Kept, InOrder
<1>9. Owned'
  <2>1. \A m \in DOMAIN submitted : Owners(m)' <= 1
    <3>1. \A m \in DOMAIN submitted : Owners(m) <= 1
      BY DEF OwnersInv, Owned
    <3> QED
      BY <1>7, <3>1
  <2>2. Listening("app") /\ Listening("parser") =>
          \A m \in DOMAIN submitted : ~submitted[m].cut => Owners(m)' = 1
    <3>1. Listening("app") /\ Listening("parser") =>
            \A m \in DOMAIN submitted : ~submitted[m].cut => m = Len(submitted) \/ Owners(m) = 1
      BY <1>5 DEF OwnersInv, Owned
    <3> QED
      BY <1>7, <3>1
  <2> QED
    BY <1>4, <1>6, <2>1, <2>2 DEF Owned, Listening
<1>10. Nulls'
  BY <1>4, <1>6 DEF OwnersInv, Nulls, Ahead
<1>11. Counted'
  BY <1>3, <1>4, <1>5, <1>6, OwnersTypes DEF OwnersInv, Counted, Listening
<1> QED
  BY <1>8, <1>9, <1>10, <1>11 DEF OwnersInv

(* The application becomes the owner, or keeps a null where it is not.     *)
LEMMA OwnersApp ==
  ASSUME StackInv, Claims, OwnersInv, AppTakes
  PROVE  OwnersInv'
<1> DEFINE n == Len(submitted)
           x == IF evt.has THEN evt.msg ELSE Null
<1>1. /\ \A l : RawAhead(l)' <=> RawAhead(l)
      /\ \A l : ParsedAhead(l)' <=> ParsedAhead(l) /\ l # "app"
      /\ HasParsed' /\ HasParsed /\ ~evt.claimed /\ evt = Inner /\ ~Inner'.has
  BY AppAhead
<1>2. /\ stack # <<>> /\ evt.next <= Len(listeners) /\ Callee = "app" /\ evt.type = "MESSAGE_PARSED"
      /\ ParsedAhead("app") /\ evt.msg = n /\ n > 0
  BY Calls, CalleeAhead, WhichEvent
<1>3. /\ UNCHANGED <<listeners, submitted, m_register_messages, undefined, m_paket_count>>
      /\ m_msgs' = Append(m_msgs, x)
  BY <1>1 DEF AppTakes, program
<1>4. n \in Nat /\ x \in Nat /\ x \in 0 .. n /\ Null \in Nat /\ n # Null
  BY <1>2, OwnersTypes DEF Null
<1>5. (Held <=> evt.has) /\ ~Held' /\ ~Taken' /\ x = (IF Held THEN n ELSE Null)
  BY <1>1, <1>2 DEF Held, Taken
<1> HIDE DEF n, x
<1>6. \A m : Occurrences(m, m_msgs)' = IF x = m THEN Occurrences(m, m_msgs) + 1 ELSE Occurrences(m, m_msgs)
  <2>1. m_msgs \in Seq(Nat)
    BY OwnersTypes
  <2> TAKE m
  <2>2. Occurrences(m, Append(m_msgs, x)) = IF x = m THEN Occurrences(m, m_msgs) + 1 ELSE Occurrences(m, m_msgs)
    BY <1>4, <2>1, OccurrencesAppend
  <2>3. Occurrences(m, m_msgs)' = Occurrences(m, Append(m_msgs, x))
    BY <1>3
  <2> QED
    BY <2>2, <2>3
<1>7. \A m \in DOMAIN submitted : Owners(m)' = Owners(m)
  <2> SUFFICES ASSUME NEW m \in DOMAIN submitted PROVE Owners(m)' = Owners(m)
    OBVIOUS
  <2>1. m # Null
    BY OwnersTypes DEF Null
  <2>2. Occurrences(m, m_register_messages)' = Occurrences(m, m_register_messages)
    BY <1>3
  <2>3. Occurrences(m, m_msgs) \in Nat /\ Occurrences(m, m_register_messages) \in Nat
    BY OwnersTypes
  <2>4. Owners(m)' = (IF Held' /\ m = n THEN 1 ELSE 0) + Occurrences(m, m_msgs)' + Occurrences(m, m_register_messages)'
    BY <1>3 DEF Owners, n
  <2>5. Owners(m) = (IF Held /\ m = n THEN 1 ELSE 0) + Occurrences(m, m_msgs) + Occurrences(m, m_register_messages)
    BY DEF Owners, n
  <2>6. Occurrences(m, m_msgs)' = Occurrences(m, m_msgs) + (IF Held /\ m = n THEN 1 ELSE 0)
    BY <1>5, <1>6, <2>1, <2>3
  <2> QED
    BY <1>5, <2>2, <2>3, <2>4, <2>5, <2>6
<1>8. Kept'
  <2>1. DOMAIN m_msgs' = 1 .. Len(m_msgs) + 1
    BY <1>3, OwnersTypes
  <2>2. \A i \in DOMAIN m_msgs' : m_msgs'[i] = IF i = Len(m_msgs) + 1 THEN x ELSE m_msgs[i]
    BY <1>3, <1>4, OwnersTypes
  <2>3. \A i \in DOMAIN m_msgs' : m_msgs'[i] \in 0 .. n
    <3>1. \A i \in 1 .. Len(m_msgs) : m_msgs[i] \in 0 .. n
      BY OwnersTypes DEF OwnersInv, Kept, n
    <3>2. Len(m_msgs) \in Nat
      BY OwnersTypes
    <3> QED
      BY <1>4, <2>1, <2>2, <3>1, <3>2
  <2> QED
    BY <1>3, <2>3 DEF OwnersInv, Kept, n
<1>9. InOrder'
  <2>1. \A i \in DOMAIN m_msgs : m_msgs[i] \in Nat /\ m_msgs[i] <= n
    BY OwnersTypes DEF OwnersInv, Kept, n
  <2>2. x # Null => \A i \in DOMAIN m_msgs : m_msgs[i] # n
    <3> SUFFICES ASSUME x # Null PROVE Occurrences(n, m_msgs) = 0
      BY OwnersTypes, OccurrencesNat
    <3>1. Held /\ n \in DOMAIN submitted
      <4>1. Held
        BY <1>5
      <4>2. n \in 1 .. n
        BY <1>2, <1>4
      <4> QED
        BY <4>1, <4>2, OwnersTypes DEF n
    <3>2. Owners(n) <= 1
      BY <3>1 DEF OwnersInv, Owned
    <3> QED
      BY <3>1, <3>2, OwnersTypes DEF Owners, n
  <2>3. x # Null => x = n
    BY <1>5
  <2> SUFFICES ASSUME NEW i \in DOMAIN m_msgs', NEW j \in DOMAIN m_msgs', i < j, m_msgs'[j] # Null
               PROVE  m_msgs'[i] < m_msgs'[j]
    BY DEF InOrder
  <2>4. /\ i \in DOMAIN m_msgs /\ m_msgs'[i] = m_msgs[i]
        /\ (j \in DOMAIN m_msgs /\ m_msgs'[j] = m_msgs[j]) \/ m_msgs'[j] = x
    BY <1>3, <1>4, OwnersTypes
  <2> QED
    BY <1>4, <2>1, <2>2, <2>3, <2>4 DEF OwnersInv, InOrder
<1>10. Owned'
  <2>1. ~RawAhead("parser") /\ ~RawAhead("parser")'
    BY <1>1, ParserPassed
  <2> QED
    BY <1>3, <1>7, <2>1 DEF OwnersInv, Owned, Listening
<1>11. Nulls'
  <2>1. CASE Held
    <3>1. ~Taken /\ x # Null
      BY <1>4, <1>5, <2>1 DEF Held, Taken
    <3> QED
      BY <1>3, <1>5, <1>6, <3>1 DEF OwnersInv, Nulls, Ahead
  <2>2. CASE ~Held
    <3>1. x = Null /\ ~ParsedAhead("register")
      BY <1>1, <1>2, <1>5, <2>2 DEF Claims, Held
    <3>2. Ahead("register", "app")
      <4>1. Passed(evt, "register") /\ evt.next \in DOMAIN listeners /\ listeners[evt.next] = "app"
        BY <1>1, <1>2, <3>1, Delivered DEF ParsedAhead, Callee, StackInv, TypeOK
      <4>2. \E i \in DOMAIN listeners : i < evt.next /\ listeners[i] = "register"
        <5>1. PICK i \in 1 .. evt.next - 1 : listeners[i] = "register"
          BY <4>1 DEF Passed
        <5>2. DOMAIN listeners = 1 .. Len(listeners) /\ Len(listeners) \in Nat
          BY DEF StackInv, TypeOK
        <5> QED
          BY <4>1, <5>1, <5>2
      <4> QED
        BY <4>1, <4>2 DEF Ahead
    <3>3. Taken
      BY <1>1, <1>2, <2>2, <3>2 DEF Taken, Held
    <3>4. Ahead("register", "app")'
      BY <1>3, <3>2 DEF Ahead
    <3> QED
      BY <1>3, <1>5, <1>6, <3>1, <3>2, <3>3, <3>4, OwnersTypes DEF OwnersInv, Nulls
  <2> QED
    BY <2>1, <2>2
<1>12. Counted'
  BY <1>1, <1>3 DEF OwnersInv, Counted, Listening
<1> QED
  BY <1>8, <1>9, <1>10, <1>11, <1>12 DEF OwnersInv

(* The register logic becomes the owner of a REGISTER request.             *)
LEMMA OwnersRegister ==
  ASSUME StackInv, Claims, OwnersInv, RegisterTakes
  PROVE  OwnersInv'
<1> DEFINE n == Len(submitted)
<1>1. /\ \A l : RawAhead(l)' <=> RawAhead(l)
      /\ \A l : ParsedAhead(l)' <=> ParsedAhead(l) /\ l # "register"
      /\ HasParsed' /\ HasParsed /\ evt = Inner /\ Inner.has
      /\ Inner'.has <=> ~submitted[evt.msg].register
  BY RegisterAhead
<1>2. /\ stack # <<>> /\ evt.next <= Len(listeners) /\ Callee = "register" /\ evt.type = "MESSAGE_PARSED"
      /\ evt.msg = n /\ n > 0
  BY Calls, WhichEvent
<1>3. /\ UNCHANGED <<listeners, submitted, m_msgs, undefined, m_paket_count>>
      /\ m_register_messages' = IF submitted[n].register THEN Append(m_register_messages, n)
                                ELSE m_register_messages
  BY <1>2 DEF RegisterTakes, program
<1>4. n \in Nat /\ n \in 1 .. n
  BY <1>2, OwnersTypes
<1>5. Held /\ (Held' <=> ~submitted[n].register) /\ ~Taken /\ ParsedAhead("app")
  BY <1>1, <1>2 DEF Held, Taken, Claims
<1>6. ~RawAhead("parser") /\ ~RawAhead("parser")'
  BY <1>1, ParserPassed
<1>7. InOrder' /\ Counted'
  BY <1>1, <1>3 DEF OwnersInv, InOrder, Counted, Listening
<1>8. CASE ~submitted[n].register
  <2>1. m_register_messages' = m_register_messages
    BY <1>3, <1>8
  <2>2. Kept' /\ Owned'
    BY <1>3, <1>5, <1>6, <1>8, <2>1, OwnersSame
  <2>3. ~Taken'
    BY <1>1, <1>2, <1>8 DEF Taken
  <2>4. Nulls'
    BY <1>3, <1>5, <2>1, <2>3 DEF OwnersInv, Nulls, Ahead
  <2> QED
    BY <1>7, <2>2, <2>4 DEF OwnersInv
<1>9. CASE submitted[n].register
  <2>1. m_register_messages' = Append(m_register_messages, n)
    BY <1>3, <1>9
  <2>2. \A m : Occurrences(m, m_register_messages)'
                 = IF n = m THEN Occurrences(m, m_register_messages) + 1 ELSE Occurrences(m, m_register_messages)
    BY <1>4, <2>1, OwnersTypes, OccurrencesAppend
  <2>3. \A m : Occurrences(m, m_msgs)' = Occurrences(m, m_msgs)
    BY <1>3
  <2>4. \A m : Owners(m)' = Owners(m)
    <3> SUFFICES ASSUME NEW m PROVE Owners(m)' = Owners(m)
      OBVIOUS
    <3>1. Held /\ ~Held' /\ submitted' = submitted
      BY <1>3, <1>5, <1>9
    <3>2. /\ Occurrences(m, m_msgs)' = Occurrences(m, m_msgs)
          /\ Occurrences(m, m_register_messages)' = Occurrences(m, m_register_messages) + IF m = n THEN 1 ELSE 0
      BY <2>2, <2>3, OwnersTypes
    <3> HIDE DEF n
    <3> QED
      BY <3>1, <3>2, OwnersTypes DEF Owners, n
  <2>5. Kept'
    <3>1. \A i \in DOMAIN m_register_messages' :
            m_register_messages'[i] = IF i = Len(m_register_messages) + 1 THEN n ELSE m_register_messages[i]
      BY <1>4, <2>1, OwnersTypes
    <3>2. \A i \in DOMAIN m_register_messages' : m_register_messages'[i] \in 1 .. n
      <4>1. \A i \in 1 .. Len(m_register_messages) : m_register_messages[i] \in 1 .. n
        BY OwnersTypes DEF OwnersInv, Kept
      <4>2. DOMAIN m_register_messages' = 1 .. Len(m_register_messages) + 1
        BY <1>4, <2>1, OwnersTypes
      <4> QED
        BY <1>4, <3>1, <4>1, <4>2, OwnersTypes
    <3> QED
      BY <1>3, <3>2 DEF OwnersInv, Kept
  <2>6. Owned'
    BY <1>3, <1>6, <2>4 DEF OwnersInv, Owned, Listening
  <2>7. Nulls'
    <3>1. Len(m_register_messages') = Len(m_register_messages) + 1
      BY <1>4, <2>1, OwnersTypes
    <3>2. Taken' <=> Ahead("register", "app")
      BY <1>1, <1>2, <1>3, <1>5, <1>9 DEF Taken, Ahead
    <3>3. Ahead("register", "app")' <=> Ahead("register", "app")
      BY <1>3 DEF Ahead
    <3> QED
      BY <1>3, <1>5, <2>3, <3>1, <3>2, <3>3, OwnersTypes DEF OwnersInv, Nulls
  <2> QED
    BY <1>7, <2>5, <2>6, <2>7 DEF OwnersInv
<1> QED
  BY <1>8, <1>9

(* No other step touches what is counted.                                  *)
LEMMA OwnersStep ==
  ASSUME StackInv, Claims, OwnersInv, [Next]_vars
  PROVE  OwnersInv'
<1>1. ASSUME \E text \in Text : parse_raw_message(text) PROVE OwnersInv'
  BY <1>1, OwnersOrigin
<1>2. ASSUME UNCHANGED <<listeners, submitted, m_msgs, m_register_messages, m_paket_count, undefined>>,
             Held' => Held, Listening("app") => (Held' <=> Held),
             RawAhead("parser")' => RawAhead("parser"),
             Listening("parser") => (RawAhead("parser")' <=> RawAhead("parser")),
             Listening("app") => (Taken' <=> Taken)
      PROVE  OwnersInv'
  <2>1. Kept' /\ Owned' /\ InOrder'
    BY <1>2, OwnersSame
  <2>2. Counted'
    BY <1>2 DEF OwnersInv, Counted, Listening
  <2>3. Nulls'
    <3>1. Ahead("register", "app") => Listening("app")
      BY DEF Ahead, Listening
    <3>2. (Ahead("register", "app")' <=> Ahead("register", "app")) /\ (Taken => Ahead("register", "app"))
          /\ (Taken' => Ahead("register", "app")')
      BY <1>2 DEF Ahead, Taken
    <3> QED
      BY <1>2, <3>1, <3>2 DEF OwnersInv, Nulls
  <2> QED
    BY <2>1, <2>2, <2>3 DEF OwnersInv
<1>3. ASSUME \E type \in {"TIME_TO_REGISTER", "NETWORK_SOCKET_CREATED"}, connection \in Connection :
               DispatchOther(type, connection)
      PROVE  OwnersInv'
  <2>1. /\ stack = <<>>
        /\ UNCHANGED <<listeners, submitted, m_msgs, m_register_messages, m_paket_count, undefined>>
    BY <1>3 DEF DispatchOther, MayDispatch, Idle, modules
  <2>2. ~RawAhead("parser") /\ ~RawAhead("parser")' /\ ~HasParsed /\ ~HasParsed'
    BY <1>3, <2>1, OriginAhead, NothingAhead
  <2> QED
    BY <1>2, <2>1, <2>2 DEF Held, Taken
<1>4. ASSUME EndOfLoop PROVE OwnersInv'
  <2>1. UNCHANGED <<listeners, submitted, m_msgs, m_register_messages, m_paket_count, undefined>>
    BY <1>4 DEF EndOfLoop, modules, program
  <2>2. /\ RawAhead("parser")' => RawAhead("parser")
        /\ Listening("parser") => (RawAhead("parser")' <=> RawAhead("parser"))
        /\ Held' => Held
    BY <1>4, EndAhead DEF Held
  <2>3. Listening("app") => (Held' <=> Held)
    <3>1. HasParsed /\ ~HasParsed' /\ Listening("app") => ~ParsedAhead("app")
      BY <1>4, EndAhead DEF ParsedAhead
    <3> QED
      BY <1>4, <3>1, EndAhead DEF Held, Claims
  <2>4. Listening("app") => (Taken' <=> Taken)
    <3>1. HasParsed' => Inner' = Inner /\ HasParsed
      BY <1>4, EndAhead
    <3>2. Listening("app") => (ParsedAhead("app")' <=> ParsedAhead("app"))
      BY <1>4, EndAhead
    <3>3. ParsedAhead("app")' => HasParsed'
      BY DEF ParsedAhead
    <3>4. Ahead("register", "app")' <=> Ahead("register", "app")
      BY <2>1 DEF Ahead
    <3> QED
      BY <3>1, <3>2, <3>3, <3>4 DEF Taken
  <2> QED
    BY <1>2, <2>1, <2>2, <2>3, <2>4
<1>5. ASSUME Ignore \/ NetworkQueues \/ LogWriterWrites \/ RegisterProceeds PROVE OwnersInv'
  <2>1. UNCHANGED <<listeners, submitted, m_msgs, m_register_messages, m_paket_count, undefined>>
    BY <1>5 DEF Ignore, NetworkQueues, LogWriterWrites, RegisterProceeds, modules, program
  <2>2. /\ RawAhead("parser")' <=> RawAhead("parser")
        /\ ParsedAhead("app")' <=> ParsedAhead("app")
        /\ HasParsed' <=> HasParsed
        /\ HasParsed => Inner'.has = Inner.has
    BY <1>5, Bystander
  <2>3. Ahead("register", "app")' <=> Ahead("register", "app")
    BY <2>1 DEF Ahead
  <2> QED
    BY <1>2, <2>1, <2>2, <2>3 DEF Held, Taken
<1>6. ASSUME ParserThrows PROVE OwnersInv'
  <2>1. /\ UNCHANGED <<listeners, submitted, m_msgs, m_register_messages, undefined>>
        /\ m_paket_count' = m_paket_count + 1 /\ stack' = <<>> /\ submitted[evt.msg].cut
    BY <1>6 DEF ParserThrows, program
  <2>2. /\ stack # <<>> /\ RawAhead("parser") /\ ~HasParsed /\ evt.msg = Len(submitted)
    BY <1>6, Calls, CalleeAhead, WhichEvent
  <2>3. ~RawAhead("parser")' /\ ~HasParsed'
    BY <2>1, NothingAhead
  <2>4. ~Held /\ ~Held' /\ ~Taken /\ ~Taken'
    BY <2>2, <2>3 DEF Held, Taken
  <2>5. Kept' /\ Owned' /\ InOrder'
    BY <2>1, <2>2, <2>3, <2>4, OwnersSame
  <2>6. Counted'
    BY <2>1, <2>2, <2>3, OwnersTypes DEF OwnersInv, Counted, Listening
  <2>7. Nulls'
    BY <2>1, <2>4 DEF OwnersInv, Nulls, Ahead
  <2> QED
    BY <2>5, <2>6, <2>7 DEF OwnersInv
<1>7. ASSUME RegisterDereferences \/ CallDangling PROVE OwnersInv'
  <2>1. /\ UNCHANGED <<listeners, submitted, m_msgs, m_register_messages, m_paket_count>> /\ undefined' /\ stack' = <<>>
    BY <1>7, Calls DEF BeyondDefined, program, modules
  <2>2. ~RawAhead("parser")' /\ ~Held'
    BY <2>1, NothingAhead DEF Held
  <2>3. \A m : Owners(m)' <= Owners(m)
    BY <2>1, <2>2, OwnersTypes DEF Owners
  <2>4. Owned'
    <3>1. \A m : Owners(m)' \in Nat
      BY <2>1, <2>2, OwnersTypes DEF Owners
    <3> QED
      BY <2>1, <2>2, <2>3, <3>1, OwnersTypes DEF OwnersInv, Owned
  <2>5. Kept' /\ InOrder' /\ Nulls' /\ Counted'
    BY <2>1 DEF OwnersInv, Kept, InOrder, Nulls, Counted
  <2> QED
    BY <2>4, <2>5 DEF OwnersInv
<1>8. ASSUME UNCHANGED vars PROVE OwnersInv'
  <2>1. UNCHANGED <<listeners, submitted, m_msgs, m_register_messages, m_paket_count, undefined, stack>>
    BY <1>8 DEF vars, program, modules
  <2>2. (Held' <=> Held) /\ (RawAhead("parser")' <=> RawAhead("parser")) /\ (Taken' <=> Taken)
    BY <2>1 DEF Held, RawAhead, Taken, HasParsed, ParsedAhead, Inner, Outer, Passed, Ahead
  <2> QED
    BY <1>2, <2>1, <2>2
<1> QED
  BY <1>1, <1>3, <1>4, <1>5, <1>6, <1>7, <1>8, OwnersParsed, OwnersApp, OwnersRegister
  DEF Next, dispatch, Terminated

(* Init.                                                                   *)
LEMMA OwnersInit == Init => OwnersInv
<1> SUFFICES ASSUME Init PROVE OwnersInv
  OBVIOUS
<1>1. /\ stack = <<>> /\ submitted = <<>> /\ m_msgs = <<>> /\ m_register_messages = <<>> /\ m_paket_count = 0
  BY DEF Init
<1>2. DOMAIN submitted = {} /\ DOMAIN m_msgs = {} /\ DOMAIN m_register_messages = {} /\ Len(submitted) = 0
      /\ Len(m_register_messages) = 0
  BY <1>1
<1>3. (\A l : ~RawAhead(l)) /\ ~HasParsed
  BY <1>1, NothingAhead
<1>4. Occurrences(Null, m_msgs) = 0
  <2>1. m_msgs \in Seq(Nat) /\ \A i \in DOMAIN m_msgs : m_msgs[i] # Null
    BY <1>1, <1>2
  <2> QED
    BY <2>1, OccurrencesNat
<1>5. Kept /\ Owned /\ InOrder /\ Counted
  BY <1>1, <1>2, <1>3 DEF Kept, Owned, InOrder, Counted
<1>6. Nulls
  BY <1>2, <1>3, <1>4 DEF Nulls, Taken
<1> QED
  BY <1>5, <1>6 DEF OwnersInv

LEMMA OwnersInvariant == Spec => [](StackInv /\ Claims /\ OwnersInv)
<1>1. StackInv /\ Claims /\ OwnersInv /\ [Next]_vars => OwnersInv'
  BY OwnersStep
<1> QED
  BY <1>1, OwnersInit, ClaimsInvariant, PTL DEF Spec

(* A parsed message has one owner, none is lost where the application      *)
(* listens, and the application keeps them in the order they came.         *)
THEOREM OneOwnerEach == Spec => []OneOwner
<1>1. StackInv /\ Claims /\ OwnersInv => OneOwner
  <2> SUFFICES ASSUME StackInv, Claims, OwnersInv PROVE OneOwner
    OBVIOUS
  <2> DEFINE carrying(m) == {i \in DOMAIN stack : /\ stack[i].type = "MESSAGE_PARSED"
                                                 /\ stack[i].msg = m
                                                 /\ stack[i].has}
  <2>1. \A m : Cardinality(carrying(m)) = IF Held /\ m = Len(submitted) THEN 1 ELSE 0
    <3> SUFFICES ASSUME NEW m PROVE Cardinality(carrying(m)) = IF Held /\ m = Len(submitted) THEN 1 ELSE 0
      OBVIOUS
    <3>1. /\ stack \in Seq(Frame) /\ Nesting /\ Contents
      BY DEF StackInv, TypeOK
    <3>2. CASE Held /\ m = Len(submitted)
      <4>1. Len(stack) > 1 /\ Len(stack) - 1 \in DOMAIN stack /\ Inner.type = "MESSAGE_PARSED" /\ Inner.has
        BY <3>1, <3>2 DEF Held, HasParsed, Nesting, Inner
      <4>2. Inner.msg = m
        BY <3>1, <3>2, <4>1 DEF Contents, Inner
      <4>3. carrying(m) = {Len(stack) - 1}
        BY <3>1, <4>1, <4>2 DEF Nesting, Inner
      <4> QED
        BY <3>2, <4>3, FS_Singleton
    <3>3. CASE ~(Held /\ m = Len(submitted))
      <4>1. \A i \in DOMAIN stack : i \notin carrying(m)
        <5> SUFFICES ASSUME NEW i \in DOMAIN stack, i \in carrying(m) PROVE FALSE
          OBVIOUS
        <5>1. i = Len(stack) - 1 /\ Outer.type = "RAW_MESSAGE_RECEIVED" /\ stack[i].msg = Len(submitted)
          BY <3>1 DEF Nesting, Contents
        <5>2. Len(stack) > 1 /\ stack[i] = Inner
          BY <3>1, <5>1 DEF Inner
        <5> QED
          BY <3>3, <5>1, <5>2 DEF Held, HasParsed
      <4>2. carrying(m) = {}
        BY <4>1
      <4> QED
        BY <3>3, <4>2, FS_EmptySet
    <3> QED
      BY <3>2, <3>3
  <2>2. \A m : Cardinality(carrying(m)) + Occurrences(m, m_msgs) + Occurrences(m, m_register_messages) = Owners(m)
    BY <2>1 DEF Owners
  <2> HIDE DEF carrying
  <2>3. Idle => ~undefined /\ (\A l : ~RawAhead(l)) /\ ~HasParsed
    BY NothingAhead DEF Idle
  <2>4. \A m \in DOMAIN submitted :
          LET owners == Cardinality(carrying(m)) + Occurrences(m, m_msgs) + Occurrences(m, m_register_messages)
          IN  /\ owners <= 1
              /\ Idle /\ Listening("app") /\ Listening("parser") /\ ~submitted[m].cut => owners = 1
    BY <2>2, <2>3 DEF OwnersInv, Owned
  <2>5. Idle => Occurrences(Null, m_msgs) = IF Ahead("register", "app") THEN Len(m_register_messages) ELSE 0
    BY <2>3, OwnersTypes DEF OwnersInv, Nulls, Taken
  <2>6. Idle /\ Listening("parser") => m_paket_count = Len(submitted)
    BY <2>3, OwnersTypes DEF OwnersInv, Counted
  <2> QED
    BY <2>4, <2>5, <2>6 DEF OneOwner, OwnersInv, InOrder, carrying
<1> QED
  BY <1>1, OwnersInvariant, PTL

-----------------------------------------------------------------------------
(* Lines that are written *)

(* How many lines of message m have still to come to module l: all that    *)
(* its constructor logs as long as the parser has not been called.         *)
ToHear(l, m) ==
  IF m # Len(submitted) THEN 0 ELSE IF RawAhead("parser") THEN submitted[m].lines ELSE LinesAhead(l)

WrittenInv ==
  /\ \A i \in DOMAIN written : written[i] \in 0 .. Len(submitted)
  /\ \A i, j \in DOMAIN written : i < j /\ written[j] # Null => written[i] <= written[j]
  /\ Listening("logwriter") /\ Listening("parser") /\ ~undefined =>
       \A m \in DOMAIN submitted : Occurrences(m, written) = submitted[m].lines - ToHear("logwriter", m)

LEMMA WrittenTypes ==
  ASSUME StackInv
  PROVE  /\ written \in Seq(Nat) /\ submitted \in Seq(Text)
         /\ Len(submitted) \in Nat /\ DOMAIN submitted = 1 .. Len(submitted)
         /\ \A m : Occurrences(m, written) \in Nat
         /\ \A m \in DOMAIN submitted :
              submitted[m].lines \in Nat /\ (submitted[m].cut => submitted[m].lines = 0)
         /\ \A l : LinesAhead(l) \in Int
<1>1. written \in Seq(Nat) /\ submitted \in Seq(Text) /\ Len(stack) \in Nat
  BY DEF StackInv, TypeOK
<1>2. \A m : Occurrences(m, written) \in Nat
  BY <1>1, OccurrencesNat
<1>3. \A m \in DOMAIN submitted :
        submitted[m].lines \in Nat /\ (submitted[m].cut => submitted[m].lines = 0)
  <2>1. \A m \in DOMAIN submitted : submitted[m] \in Text
    BY <1>1
  <2> QED
    BY <2>1, EventBusAssumption DEF Text
<1>4. \A l : LinesAhead(l) \in Int
  BY <1>1 DEF LinesAhead, Coming
<1> QED
  BY <1>1, <1>2, <1>3, <1>4

(* A step that calls neither the parser nor l.                             *)
LEMMA ToHearSame ==
  ASSUME NEW l, submitted' = submitted, RawAhead("parser")' <=> RawAhead("parser"), LinesAhead(l)' = LinesAhead(l)
  PROVE  \A m : ToHear(l, m)' = ToHear(l, m)
  BY DEF ToHear

(* When no dispatch is under way, nothing is to come.                      *)
LEMMA NothingToHear ==
  ASSUME stack = <<>>
  PROVE  \A l, m : ToHear(l, m) = 0
<1>1. ~RawAhead("parser") /\ \A l : LinesAhead(l) = 0
  BY NothingAhead DEF LinesAhead
<1> QED
  BY <1>1 DEF ToHear

(* A new message has not been parsed yet, and all others have.             *)
LEMMA ToHearOrigin ==
  ASSUME StackInv, NEW text \in Text, parse_raw_message(text)
  PROVE  \A l, m : ToHear(l, m)' = IF m = Len(submitted) + 1 THEN submitted'[m].lines ELSE 0
<1>1. submitted' = Append(submitted, text)
  BY DEF parse_raw_message
<1>2. Len(submitted') = Len(submitted) + 1
  BY <1>1, WrittenTypes
<1>3. RawAhead("parser")'
  BY OriginAhead
<1> QED
  BY <1>2, <1>3 DEF ToHear

(* The parser logs what there is to log, or throws with nothing to log.    *)
LEMMA ToHearParsed ==
  ASSUME StackInv, ParserParses \/ ParserThrows
  PROVE  \A l, m : ToHear(l, m)' = ToHear(l, m)
<1>1. submitted' = submitted
  BY DEF ParserParses, ParserThrows, program
<1>2. /\ stack # <<>> /\ evt.next <= Len(listeners) /\ Callee = "parser" /\ evt.type = "RAW_MESSAGE_RECEIVED"
      /\ RawAhead("parser") /\ evt.msg = Len(submitted) /\ Len(submitted) > 0
  BY Calls, CalleeAhead, WhichEvent
<1>3. ~RawAhead("parser")' /\ \A l : LinesAhead(l)' = submitted[Len(submitted)].lines
  <2>1. CASE ParserParses
    <3>1. PICK nested : ParserSends(nested) /\ Handled([evt EXCEPT !.has = FALSE], nested)
      BY <2>1, HandlerReturns
    <3> QED
      BY <3>1, SendsAhead
  <2>2. CASE ParserThrows
    <3>1. stack' = <<>> /\ submitted[Len(submitted)].cut
      BY <1>2, <2>2 DEF ParserThrows
    <3>2. ~RawAhead("parser")' /\ \A l : LinesAhead(l)' = 0
      BY <3>1, NothingAhead DEF LinesAhead
    <3>3. Len(submitted) \in DOMAIN submitted
      BY <1>2, WrittenTypes
    <3> QED
      BY <3>1, <3>2, <3>3, WrittenTypes
  <2> QED
    BY <2>1, <2>2
<1> QED
  BY <1>1, <1>2, <1>3 DEF ToHear

(* A module called with a line of the message has one less to hear, and    *)
(* had one to hear.                                                        *)
LEMMA ToHearCalled ==
  ASSUME StackInv, Ignore \/ NetworkQueues \/ LogWriterWrites \/ RegisterProceeds, NEW l, l # "dangling"
  PROVE  /\ \A m : ToHear(l, m)' =
              IF IsLine(evt) /\ l = Callee /\ m = evt.msg THEN ToHear(l, m) - 1 ELSE ToHear(l, m)
         /\ IsLine(evt) => evt.msg = Len(submitted) /\ ~RawAhead("parser") /\ HasParsed /\ Listening("parser")
<1>1. stack # <<>> /\ submitted' = submitted
  BY Calls DEF Ignore, NetworkQueues, LogWriterWrites, RegisterProceeds, program
<1>2. LinesAhead(l)' = IF IsLine(evt) /\ l = Callee THEN LinesAhead(l) - 1 ELSE LinesAhead(l)
  BY Bystander
<1>3. IsLine(evt) => evt.msg = Len(submitted) /\ ~RawAhead("parser") /\ HasParsed
  BY <1>1, WhichEvent, ParserPassed DEF IsLine
<1>4. RawAhead("parser")' <=> RawAhead("parser")
  BY Bystander
<1>5. HasParsed => Listening("parser")
  BY ParserListens
<1> QED
  BY <1>1, <1>2, <1>3, <1>4, <1>5 DEF ToHear

(* Nothing changes for a message with which nothing happens.               *)
LEMMA WrittenSame ==
  ASSUME WrittenInv, UNCHANGED <<listeners, submitted, written, undefined>>,
         Listening("logwriter") /\ Listening("parser") /\ ~undefined =>
           \A m : ToHear("logwriter", m)' = ToHear("logwriter", m)
  PROVE  WrittenInv'
<1>1. \A m : Occurrences(m, written)' = Occurrences(m, written)
  OBVIOUS
<1> QED
  BY <1>1 DEF WrittenInv, Listening

(* A new message has not been parsed yet.                                  *)
LEMMA WrittenOrigin ==
  ASSUME StackInv, WrittenInv, NEW text \in Text, parse_raw_message(text)
  PROVE  WrittenInv'
<1>1. stack = <<>> /\ undefined' = undefined /\ submitted' = Append(submitted, text) /\ UNCHANGED <<listeners, written>>
  BY DEF parse_raw_message, MayDispatch, Idle, modules
<1>2. /\ Len(submitted') = Len(submitted) + 1 /\ DOMAIN submitted' = 1 .. Len(submitted) + 1
      /\ \A m \in 1 .. Len(submitted) : submitted'[m] = submitted[m]
      /\ submitted'[Len(submitted) + 1] = text
  BY <1>1, WrittenTypes
<1>3. /\ \A m : ToHear("logwriter", m) = 0
      /\ \A m : ToHear("logwriter", m)' = IF m = Len(submitted) + 1 THEN submitted'[m].lines ELSE 0
  BY <1>1, NothingToHear, ToHearOrigin
<1>4. \A m : Occurrences(m, written)' = Occurrences(m, written)
  BY <1>1
<1>5. Occurrences(Len(submitted) + 1, written) = 0
  <2>1. \A i \in DOMAIN written : written[i] # Len(submitted) + 1
    BY WrittenTypes DEF WrittenInv
  <2> QED
    BY <2>1, WrittenTypes, OccurrencesNat
<1>6. /\ \A i \in DOMAIN written' : written'[i] \in 0 .. Len(submitted')
      /\ \A i, j \in DOMAIN written' : i < j /\ written'[j] # Null => written'[i] <= written'[j]
  BY <1>1, <1>2, WrittenTypes DEF WrittenInv
<1>7. text.lines \in Nat
  BY EventBusAssumption DEF Text
<1>8. Listening("logwriter") /\ Listening("parser") /\ ~undefined =>
        \A m \in DOMAIN submitted' : Occurrences(m, written)' = submitted'[m].lines - ToHear("logwriter", m)'
  <2> SUFFICES ASSUME Listening("logwriter"), Listening("parser"), ~undefined, NEW m \in DOMAIN submitted'
               PROVE  Occurrences(m, written)' = submitted'[m].lines - ToHear("logwriter", m)'
    OBVIOUS
  <2>1. CASE m = Len(submitted) + 1
    BY <1>2, <1>3, <1>4, <1>5, <1>7, <2>1
  <2>2. CASE m # Len(submitted) + 1
    <3>1. m \in DOMAIN submitted /\ submitted'[m] = submitted[m]
      BY <1>2, <2>2, WrittenTypes
    <3>2. Occurrences(m, written) = submitted[m].lines - ToHear("logwriter", m)
      BY <3>1 DEF WrittenInv
    <3> QED
      BY <1>3, <1>4, <2>2, <3>1, <3>2
  <2> QED
    BY <2>1, <2>2
<1> QED
  BY <1>1, <1>6, <1>8 DEF WrittenInv, Listening

(* The log writer hears of a line.                                         *)
LEMMA WrittenLogged ==
  ASSUME StackInv, WrittenInv, LogWriterWrites
  PROVE  WrittenInv'
<1> DEFINE n == Len(submitted)
           x == evt.msg
<1>1. UNCHANGED <<listeners, submitted, undefined>> /\ written' = Append(written, x)
  BY DEF LogWriterWrites, program
<1>2. /\ stack # <<>> /\ evt.next <= Len(listeners) /\ Callee = "logwriter" /\ evt.type = "LOG_MESSAGE"
      /\ x \in {Null, n}
  BY Calls, WhichEvent
<1>3. \A m : m # Null =>
        ToHear("logwriter", m)' = IF x = m THEN ToHear("logwriter", m) - 1 ELSE ToHear("logwriter", m)
  BY <1>2, ToHearCalled DEF IsLine
<1>4. x \in Nat /\ x \in 0 .. n /\ n \in Nat
  BY <1>2, WrittenTypes DEF Null
<1>5. \A m : Occurrences(m, written)' = IF x = m THEN Occurrences(m, written) + 1 ELSE Occurrences(m, written)
  BY <1>1, <1>4, WrittenTypes, OccurrencesAppend
<1>6. \A m \in DOMAIN submitted : m # Null /\ submitted[m].lines \in Nat /\ ToHear("logwriter", m) \in Int
  BY WrittenTypes DEF Null, ToHear
<1> HIDE DEF n, x
<1>7. DOMAIN written' = 1 .. Len(written) + 1
      /\ \A i \in DOMAIN written' : written'[i] = IF i = Len(written) + 1 THEN x ELSE written[i]
  BY <1>1, <1>4, WrittenTypes
<1>8. \A i \in 1 .. Len(written) : written[i] \in 0 .. n
  BY WrittenTypes DEF WrittenInv, n
<1>9. \A i \in DOMAIN written' : written'[i] \in 0 .. n
  BY <1>4, <1>7, <1>8
<1>10. \A i, j \in DOMAIN written' : i < j /\ written'[j] # Null => written'[i] <= written'[j]
  <2> SUFFICES ASSUME NEW i \in DOMAIN written', NEW j \in DOMAIN written', i < j, written'[j] # Null
               PROVE  written'[i] <= written'[j]
    OBVIOUS
  <2>1. i \in DOMAIN written /\ written'[i] = written[i] /\ i \in 1 .. Len(written)
    BY <1>7, WrittenTypes
  <2>2. CASE j = Len(written) + 1
    <3>1. written'[j] = n
      BY <1>2, <1>7, <2>2 DEF n, x
    <3> QED
      BY <1>4, <1>8, <2>1, <3>1
  <2>3. CASE j # Len(written) + 1
    <3>1. j \in DOMAIN written /\ written'[j] = written[j]
      BY <1>7, <2>3, WrittenTypes
    <3> QED
      BY <2>1, <3>1 DEF WrittenInv
  <2> QED
    BY <2>2, <2>3
<1>11. Listening("logwriter") /\ Listening("parser") /\ ~undefined =>
         \A m \in DOMAIN submitted : Occurrences(m, written)' = submitted[m].lines - ToHear("logwriter", m)'
  BY <1>3, <1>5, <1>6 DEF WrittenInv
<1> QED
  BY <1>1, <1>9, <1>10, <1>11 DEF WrittenInv, Listening, n

(* No other step touches what has been written or has still to be.         *)
LEMMA WrittenStep ==
  ASSUME StackInv, Claims, WrittenInv, [Next]_vars
  PROVE  WrittenInv'
<1>1. ASSUME \E text \in Text : parse_raw_message(text) PROVE WrittenInv'
  BY <1>1, WrittenOrigin
<1>2. ASSUME \E type \in {"TIME_TO_REGISTER", "NETWORK_SOCKET_CREATED"}, connection \in Connection :
               DispatchOther(type, connection)
      PROVE  WrittenInv'
  <2>1. stack = <<>> /\ UNCHANGED <<listeners, submitted, written, undefined>>
    BY <1>2 DEF DispatchOther, MayDispatch, Idle, modules
  <2>2. ~RawAhead("parser") /\ ~HasLine /\ ~RawAhead("parser")' /\ ~HasLine'
    BY <1>2, <2>1, OriginAhead, NothingAhead
  <2>3. \A m : ToHear("logwriter", m)' = ToHear("logwriter", m)
    BY <2>1, <2>2, ToHearSame DEF LinesAhead
  <2> QED
    BY <2>1, <2>3, WrittenSame
<1>3. ASSUME EndOfLoop PROVE WrittenInv'
  <2>1. UNCHANGED <<listeners, submitted, written, undefined>>
    BY <1>3 DEF EndOfLoop, program, modules
  <2>2. Listening("logwriter") /\ Listening("parser") =>
          \A m : ToHear("logwriter", m)' = ToHear("logwriter", m)
    BY <1>3, <2>1, EndAhead, ToHearSame
  <2> QED
    BY <2>1, <2>2, WrittenSame
<1>4. ASSUME Ignore \/ NetworkQueues \/ RegisterProceeds PROVE WrittenInv'
  <2>1. UNCHANGED <<listeners, submitted, written, undefined>>
    BY <1>4 DEF Ignore, NetworkQueues, RegisterProceeds, program, modules
  <2>2. Callee = "logwriter" => ~IsLine(evt)
    BY <1>4, Calls DEF Concern, IsLine
  <2>3. \A m : ToHear("logwriter", m)' = ToHear("logwriter", m)
    BY <1>4, <2>2, ToHearCalled
  <2> QED
    BY <2>1, <2>3, WrittenSame
<1>5. ASSUME AppTakes \/ RegisterTakes PROVE WrittenInv'
  <2>1. UNCHANGED <<listeners, submitted, written, undefined>>
    BY <1>5 DEF AppTakes, RegisterTakes, program
  <2>2. (RawAhead("parser")' <=> RawAhead("parser")) /\ LinesAhead("logwriter")' = LinesAhead("logwriter")
    BY <1>5, AppAhead, RegisterAhead
  <2>3. \A m : ToHear("logwriter", m)' = ToHear("logwriter", m)
    BY <2>1, <2>2, ToHearSame
  <2> QED
    BY <2>1, <2>3, WrittenSame
<1>6. ASSUME RegisterDereferences \/ CallDangling PROVE WrittenInv'
  <2>1. UNCHANGED <<listeners, submitted, written>> /\ undefined'
    BY <1>6, Calls DEF BeyondDefined, program, modules
  <2> QED
    BY <2>1 DEF WrittenInv
<1>7. ASSUME UNCHANGED vars PROVE WrittenInv'
  <2>1. UNCHANGED <<listeners, submitted, written, undefined, stack>>
    BY <1>7 DEF vars, program, modules
  <2>2. (RawAhead("parser")' <=> RawAhead("parser")) /\ LinesAhead("logwriter")' = LinesAhead("logwriter")
    BY <2>1 DEF RawAhead, LinesAhead, Coming, HasLine, Outer, Passed
  <2>3. \A m : ToHear("logwriter", m)' = ToHear("logwriter", m)
    BY <2>1, <2>2, ToHearSame
  <2> QED
    BY <2>1, <2>3, WrittenSame
<1>8. ASSUME ParserParses \/ ParserThrows PROVE WrittenInv'
  <2>1. UNCHANGED <<listeners, submitted, written, undefined>>
    BY <1>8 DEF ParserParses, ParserThrows, program
  <2> QED
    BY <1>8, <2>1, ToHearParsed, WrittenSame
<1> QED
  BY <1>1, <1>2, <1>3, <1>4, <1>5, <1>6, <1>7, <1>8, WrittenLogged DEF Next, dispatch, Terminated

LEMMA WrittenInvariant == Spec => [](StackInv /\ Claims /\ WrittenInv)
<1>1. Init => WrittenInv
  <2> SUFFICES ASSUME Init PROVE WrittenInv
    OBVIOUS
  <2>1. DOMAIN written = {} /\ DOMAIN submitted = {}
    BY DEF Init
  <2> QED
    BY <2>1 DEF WrittenInv
<1>2. StackInv /\ Claims /\ WrittenInv /\ [Next]_vars => WrittenInv'
  BY WrittenStep
<1> QED
  BY <1>1, <1>2, ClaimsInvariant, PTL DEF Spec

(* Where a log writer listens, wherever in the list, every line that is    *)
(* logged of a message has been written when the first module gets the     *)
(* message, none twice, and no line of a message after one of a later one. *)
THEOREM WrittenBeforeParsed == Spec => []LinesWrittenFirst
<1>1. StackInv /\ WrittenInv => LinesWrittenFirst
  <2> SUFFICES ASSUME StackInv, WrittenInv, Listening("logwriter"), Listening("parser"),
                      Idle \/ (stack # <<>> /\ evt.type = "MESSAGE_PARSED")
               PROVE  ~undefined /\ \A m : ToHear("logwriter", m) = 0
    BY WrittenTypes DEF LinesWrittenFirst, WrittenInv
  <2>1. CASE Idle
    BY <2>1, NothingToHear DEF Idle
  <2>2. CASE stack # <<>> /\ evt.type = "MESSAGE_PARSED"
    <3>1. ~RawAhead("parser") /\ ~HasLine /\ ~undefined
      BY <2>2, WhichEvent, ParserPassed DEF StackInv, Stopped
    <3> QED
      BY <3>1 DEF ToHear, LinesAhead
  <2> QED
    BY <2>1, <2>2
<1> QED
  BY <1>1, WrittenInvariant, PTL

-----------------------------------------------------------------------------
(* Events that the network has queued *)

(* How often the network has queued an event of message m.                 *)
Heard(type, m) == Occurrences([type |-> type, msg |-> m], m_event_queue)

(* The parser has not been called yet with a message that is cut off. (A   *)
(* raw message is always still to come for a module that does not listen.) *)
Uncut == RawAhead("nobody") /\ submitted[Len(submitted)].cut => RawAhead("parser")

(* Of the messages submitted, the network has queued each event once that  *)
(* is dispatched for it, but for those of the last one that are to come.   *)
HeardOnce(m) ==
  LET last == m = Len(submitted)
      cut  == submitted[m].cut
  IN  /\ Heard("RAW_MESSAGE_RECEIVED", m) =
           IF (last /\ RawAhead("network")) \/ (cut /\ Ahead("parser", "network")) THEN 0 ELSE 1
      /\ Heard("MESSAGE_PARSED", m) =
           IF cut \/ (last /\ (RawAhead("parser") \/ ParsedAhead("network"))) THEN 0 ELSE 1
      /\ Heard("LOG_MESSAGE", m) =
           submitted[m].lines - ToHear("network", m)

(* The order of two events of one message.                                 *)
Sequenced(a, b) ==
  a.msg = b.msg /\ a.msg # Null /\ b.type = "MESSAGE_PARSED" =>
    \A i, j \in DOMAIN m_event_queue : m_event_queue[i] = a /\ m_event_queue[j] = b =>
      /\ a.type = "RAW_MESSAGE_RECEIVED" => (j < i <=> Ahead("parser", "network"))
      /\ a.type = "LOG_MESSAGE" => i < j

Entry == [type : EventType, msg : Nat]

Both == Listening("network") /\ Listening("parser") /\ ~undefined

HeardInv ==
  /\ \A i \in DOMAIN m_event_queue : m_event_queue[i].msg \in 0 .. Len(submitted)
  /\ \A i, j \in DOMAIN m_event_queue :
       i < j /\ m_event_queue[j].msg # Null => m_event_queue[i].msg <= m_event_queue[j].msg
  /\ Both => /\ Uncut
             /\ \A m \in DOMAIN submitted : HeardOnce(m)
             /\ \A a, b \in Entry : Sequenced(a, b)

LEMMA HeardTypes ==
  ASSUME StackInv
  PROVE  /\ m_event_queue \in Seq(Entry) /\ submitted \in Seq(Text)
         /\ Len(submitted) \in Nat /\ DOMAIN submitted = 1 .. Len(submitted)
         /\ \A type, m : /\ Heard(type, m) \in Nat
                         /\ Heard(type, m) = 0 <=>
                              \A i \in DOMAIN m_event_queue : m_event_queue[i] # [type |-> type, msg |-> m]
<1>1. m_event_queue \in Seq(Entry) /\ submitted \in Seq(Text)
  BY DEF StackInv, TypeOK, Entry
<1>2. \A e : /\ Occurrences(e, m_event_queue) \in Nat
             /\ Occurrences(e, m_event_queue) = 0 <=> \A i \in DOMAIN m_event_queue : m_event_queue[i] # e
  BY <1>1, OccurrencesNat
<1> QED
  BY <1>1, <1>2 DEF Heard

(* Modules of different kinds are one ahead of the other.                  *)
LEMMA Apart ==
  ASSUME StackInv, NEW k, NEW l, k # "dangling", l # "dangling", Ahead(k, l)
  PROVE  ~Ahead(l, k)
<1> SUFFICES ASSUME Ahead(l, k) PROVE FALSE
  OBVIOUS
<1>1. PICK i \in DOMAIN listeners, j \in DOMAIN listeners : i < j /\ listeners[i] = k /\ listeners[j] = l
  BY DEF Ahead
<1>2. PICK a \in DOMAIN listeners, b \in DOMAIN listeners : a < b /\ listeners[a] = l /\ listeners[b] = k
  BY DEF Ahead
<1>3. i = b /\ j = a
  BY <1>1, <1>2 DEF StackInv, Unique
<1>4. listeners \in Seq(Listener)
  BY DEF StackInv, TypeOK
<1> QED
  BY <1>1, <1>2, <1>3, <1>4

(* The module being called is ahead of those that are still to be called.  *)
LEMMA CalleeFirst ==
  ASSUME StackInv, stack # <<>>, evt.next <= Len(listeners), NEW l, l # Callee
  PROVE  /\ ~Passed(evt, l) /\ Listening(l) => Ahead(Callee, l)
         /\ Passed(evt, l) => Ahead(l, Callee)
<1>1. listeners \in Seq(Listener) /\ evt.next \in DOMAIN listeners /\ listeners[evt.next] = Callee
  BY Delivered DEF StackInv, TypeOK, Callee
<1>2. ASSUME ~Passed(evt, l), Listening(l) PROVE Ahead(Callee, l)
  <2>1. PICK i \in DOMAIN listeners : listeners[i] = l
    BY <1>2 DEF Listening
  <2>2. i \notin 1 .. evt.next - 1 /\ i # evt.next
    BY <1>1, <1>2, <2>1 DEF Passed
  <2>3. evt.next < i
    BY <1>1, <2>2
  <2> QED
    BY <1>1, <2>1, <2>3 DEF Ahead
<1>3. ASSUME Passed(evt, l) PROVE Ahead(l, Callee)
  <2>1. PICK i \in 1 .. evt.next - 1 : listeners[i] = l
    BY <1>3 DEF Passed
  <2>2. i \in DOMAIN listeners /\ i < evt.next
    BY <1>1
  <2> QED
    BY <1>1, <2>1, <2>2 DEF Ahead
<1> QED
  BY <1>2, <1>3

(* Nothing changes for a message with which nothing happens.               *)
LEMMA HeardSame ==
  ASSUME HeardInv, UNCHANGED <<listeners, submitted, m_event_queue, undefined>>,
         RawAhead("nobody")' => RawAhead("nobody"),
         Both => /\ RawAhead("parser")' <=> RawAhead("parser")
                 /\ RawAhead("network")' <=> RawAhead("network")
                 /\ ParsedAhead("network")' <=> ParsedAhead("network")
                 /\ LinesAhead("network")' = LinesAhead("network")
  PROVE  HeardInv'
<1>1. Both' <=> Both
  BY DEF Both, Listening
<1>2. \A type, m : Heard(type, m)' = Heard(type, m)
  BY DEF Heard
<1>3. Ahead("parser", "network")' <=> Ahead("parser", "network")
  BY DEF Ahead
<1>4. \A a, b : Sequenced(a, b)' <=> Sequenced(a, b)
  BY <1>3 DEF Sequenced
<1>5. Both => \A m \in DOMAIN submitted : HeardOnce(m)' <=> HeardOnce(m)
  <2>1. Both => \A m : ToHear("network", m)' = ToHear("network", m)
    BY ToHearSame
  <2> QED
    BY <1>2, <1>3, <2>1 DEF HeardOnce
<1>6. Both => (Uncut => Uncut')
  BY DEF Uncut
<1> QED
  BY <1>1, <1>4, <1>5, <1>6 DEF HeardInv

(* Nothing has been heard of a new message.                                *)
LEMMA HeardOrigin ==
  ASSUME StackInv, HeardInv, NEW text \in Text, parse_raw_message(text)
  PROVE  HeardInv'
<1>1. /\ stack = <<>> /\ ~undefined /\ undefined' = undefined /\ submitted' = Append(submitted, text)
      /\ UNCHANGED <<listeners, m_event_queue>>
  BY DEF parse_raw_message, MayDispatch, Idle, modules
<1>2. /\ Len(submitted') = Len(submitted) + 1 /\ DOMAIN submitted' = 1 .. Len(submitted) + 1
      /\ \A m \in 1 .. Len(submitted) : submitted'[m] = submitted[m]
  BY <1>1, HeardTypes
<1>3. /\ \A l : ~RawAhead(l) /\ RawAhead(l)'
      /\ \A l : ~ParsedAhead(l) /\ ~ParsedAhead(l)'
      /\ \A m : ToHear("network", m) = 0
      /\ \A m : ToHear("network", m)' = IF m = Len(submitted) + 1 THEN submitted'[m].lines ELSE 0
  BY <1>1, OriginAhead, NothingAhead, NothingToHear, ToHearOrigin DEF ParsedAhead
<1>4. \A type, m : Heard(type, m)' = Heard(type, m)
  BY <1>1 DEF Heard
<1>5. \A type : Heard(type, Len(submitted) + 1) = 0
  <2> SUFFICES ASSUME NEW type, NEW i \in DOMAIN m_event_queue,
                      m_event_queue[i] = [type |-> type, msg |-> Len(submitted) + 1]
               PROVE  FALSE
    BY HeardTypes
  <2>1. m_event_queue[i].msg = Len(submitted) + 1
    OBVIOUS
  <2> QED
    BY <2>1, HeardTypes DEF HeardInv
<1>6. Ahead("parser", "network")' <=> Ahead("parser", "network")
  BY <1>1 DEF Ahead
<1>7. \A a, b : Sequenced(a, b)' <=> Sequenced(a, b)
  BY <1>1, <1>6 DEF Sequenced
<1>8. Both' <=> Both
  BY <1>1 DEF Both, Listening
<1>9. Both => \A m \in DOMAIN submitted' : HeardOnce(m)'
  <2> SUFFICES ASSUME Both, NEW m \in DOMAIN submitted' PROVE HeardOnce(m)'
    OBVIOUS
  <2>1. CASE m = Len(submitted')
    <3>1. submitted'[m] = text /\ text.lines \in Nat
      BY <1>1, <1>2, <2>1, HeardTypes, EventBusAssumption DEF Text
    <3> QED
      BY <1>2, <1>3, <1>4, <1>5, <2>1, <3>1 DEF HeardOnce
  <2>2. CASE m # Len(submitted')
    <3>1. m \in DOMAIN submitted /\ submitted'[m] = submitted[m]
      BY <1>2, <2>2, HeardTypes
    <3>2. HeardOnce(m)
      BY <3>1 DEF HeardInv
    <3> QED
      BY <1>3, <1>4, <1>6, <2>2, <3>1, <3>2 DEF HeardOnce
  <2> QED
    BY <2>1, <2>2
<1>10. \A i \in DOMAIN m_event_queue' : m_event_queue'[i].msg \in 0 .. Len(submitted')
  BY <1>1, <1>2, HeardTypes DEF HeardInv
<1>11. Uncut'
  BY <1>3 DEF Uncut
<1> QED
  BY <1>1, <1>7, <1>8, <1>9, <1>10, <1>11 DEF HeardInv

(* The parser goes on with the message: what it finds is still to come for *)
(* the network.                                                            *)
LEMMA HeardParsed ==
  ASSUME StackInv, HeardInv, ParserParses
  PROVE  HeardInv'
<1>1. UNCHANGED <<listeners, submitted, m_event_queue, undefined>>
  BY DEF ParserParses, program
<1>2. PICK nested : ParserSends(nested) /\ Handled([evt EXCEPT !.has = FALSE], nested)
  BY HandlerReturns
<1>3. /\ \A l : RawAhead(l)' <=> RawAhead(l) /\ l # "parser"
      /\ \A l : ParsedAhead(l)'
      /\ \A m : ToHear("network", m)' = ToHear("network", m)
      /\ ~submitted[Len(submitted)].cut
  BY <1>2, SendsAhead, ToHearParsed
<1>4. RawAhead("parser")
  BY Calls, CalleeAhead
<1>5. \A type, m : Heard(type, m)' = Heard(type, m)
  BY <1>1 DEF Heard
<1>6. (Ahead("parser", "network")' <=> Ahead("parser", "network")) /\ (Both' <=> Both)
  BY <1>1 DEF Ahead, Both, Listening
<1>7. \A a, b : Sequenced(a, b)' <=> Sequenced(a, b)
  BY <1>1, <1>6 DEF Sequenced
<1>8. \A m \in DOMAIN submitted : HeardOnce(m) => HeardOnce(m)'
  BY <1>1, <1>3, <1>4, <1>5, <1>6 DEF HeardOnce
<1>9. Uncut'
  BY <1>1, <1>3 DEF Uncut
<1> QED
  BY <1>1, <1>6, <1>7, <1>8, <1>9 DEF HeardInv

(* The parser throws: the network has queued the raw message if it is      *)
(* ahead of the parser, and will not hear of it if it is not.              *)
LEMMA HeardThrown ==
  ASSUME StackInv, HeardInv, ParserThrows
  PROVE  HeardInv'
<1>1. UNCHANGED <<listeners, submitted, m_event_queue, undefined>> /\ stack' = <<>>
  BY DEF ParserThrows, program
<1>2. /\ stack # <<>> /\ evt.next <= Len(listeners) /\ Callee = "parser" /\ RawAhead("parser")
      /\ evt = Outer /\ evt.type = "RAW_MESSAGE_RECEIVED" /\ evt.msg = Len(submitted) /\ Len(submitted) > 0
  BY Calls, CalleeAhead, WhichEvent
<1>3. submitted[Len(submitted)].cut /\ \A m : ToHear("network", m)' = ToHear("network", m)
  BY <1>2, ToHearParsed DEF ParserThrows
<1>4. \A l : ~RawAhead(l)' /\ ~ParsedAhead(l)'
  BY <1>1, NothingAhead DEF ParsedAhead
<1>5. RawAhead("network") /\ Listening("network") => Ahead("parser", "network")
  BY <1>2, CalleeFirst DEF RawAhead
<1>6. \A type, m : Heard(type, m)' = Heard(type, m)
  BY <1>1 DEF Heard
<1>7. (Ahead("parser", "network")' <=> Ahead("parser", "network")) /\ (Both' <=> Both)
  BY <1>1 DEF Ahead, Both, Listening
<1>8. \A a, b : Sequenced(a, b)' <=> Sequenced(a, b)
  BY <1>1, <1>7 DEF Sequenced
<1>9. Both => \A m \in DOMAIN submitted : HeardOnce(m) => HeardOnce(m)'
  BY <1>1, <1>2, <1>3, <1>4, <1>5, <1>6, <1>7 DEF HeardOnce, Both
<1>10. Uncut'
  BY <1>4 DEF Uncut
<1> QED
  BY <1>1, <1>7, <1>8, <1>9, <1>10 DEF HeardInv

(* The parser has dispatched what it parsed before the raw message comes   *)
(* to a network behind it.                                                 *)
LEMMA NetworkBehind ==
  ASSUME StackInv, HasParsed, Ahead("parser", "network")
  PROVE  RawAhead("network")
<1>1. Len(stack) > 1 /\ Outer.type = "RAW_MESSAGE_RECEIVED" /\ Outer.next > 1 /\ listeners[Outer.next - 1] = "parser"
  BY DEF StackInv, Contents, HasParsed
<1>2. stack \in Seq(Frame) /\ listeners \in Seq(Listener)
  BY DEF StackInv, TypeOK
<1>3. Outer.next \in 1 .. Len(listeners) + 1
  <2>1. Len(stack) \in DOMAIN stack
    BY <1>1, <1>2
  <2> QED
    BY <2>1 DEF StackInv, TypeOK, Outer
<1> SUFFICES ASSUME Passed(Outer, "network") PROVE FALSE
  BY <1>1, <1>2 DEF RawAhead
<1>4. PICK i \in 1 .. Outer.next - 1 : listeners[i] = "network"
  BY DEF Passed
<1>5. i \in DOMAIN listeners /\ Outer.next - 1 \in DOMAIN listeners /\ i < Outer.next - 1
  <2>1. i # Outer.next - 1
    BY <1>1, <1>4
  <2> QED
    BY <1>1, <1>2, <1>3, <2>1
<1>6. Ahead("network", "parser")
  BY <1>1, <1>4, <1>5 DEF Ahead
<1> QED
  BY <1>6, Apart

(* The network hears of it.                                                *)
LEMMA HeardQueued ==
  ASSUME StackInv, HeardInv, NetworkQueues
  PROVE  HeardInv'
<1> DEFINE n == Len(submitted)
           x == [type |-> evt.type, msg |-> evt.msg]
           last == Len(m_event_queue) + 1
<1>1. UNCHANGED <<listeners, submitted, undefined>> /\ m_event_queue' = Append(m_event_queue, x)
  BY DEF NetworkQueues, program
<1>2. stack # <<>> /\ evt.next <= Len(listeners) /\ Callee = "network" /\ evt.msg \in {Null, n} /\ evt \in Frame
  BY Calls, WhichEvent, Delivered
<1>3. /\ \A l : RawAhead(l)' <=> RawAhead(l) /\ ~(evt.type = "RAW_MESSAGE_RECEIVED" /\ l = "network")
      /\ \A l : ParsedAhead(l)' <=> ParsedAhead(l) /\ ~(evt.type = "MESSAGE_PARSED" /\ l = "network")
      /\ \A m : ToHear("network", m)' = IF IsLine(evt) /\ m = evt.msg THEN ToHear("network", m) - 1 ELSE ToHear("network", m)
  BY <1>2, Bystander, ToHearCalled
<1>4. x \in Entry /\ x.type = evt.type /\ x.msg = evt.msg /\ n \in Nat
  BY <1>2, HeardTypes DEF Frame, Entry
<1>5. ~undefined
  BY <1>2 DEF StackInv, Stopped
<1>6. \A type, m : Heard(type, m)' = IF x = [type |-> type, msg |-> m] THEN Heard(type, m) + 1 ELSE Heard(type, m)
  <2> HIDE DEF x
  <2>1. m_event_queue \in Seq(Entry) /\ x \in Entry /\ m_event_queue' = Append(m_event_queue, x)
    BY <1>1, <1>4, HeardTypes
  <2>2. \A e : Occurrences(e, Append(m_event_queue, x))
                 = IF x = e THEN Occurrences(e, m_event_queue) + 1 ELSE Occurrences(e, m_event_queue)
    BY <2>1, OccurrencesAppend
  <2>3. \A e : Occurrences(e, m_event_queue)'
                 = IF x = e THEN Occurrences(e, m_event_queue) + 1 ELSE Occurrences(e, m_event_queue)
    BY <2>1, <2>2
  <2> QED
    BY <2>3 DEF Heard
<1>7. (Ahead("parser", "network")' <=> Ahead("parser", "network")) /\ (Both' <=> Both)
  BY <1>1 DEF Ahead, Both, Listening
<1>8. /\ DOMAIN m_event_queue = 1 .. Len(m_event_queue) /\ DOMAIN m_event_queue' = 1 .. last
      /\ last \in Nat /\ m_event_queue'[last] = x
      /\ \A i \in DOMAIN m_event_queue : m_event_queue'[i] = m_event_queue[i] /\ i < last
      /\ \A i \in DOMAIN m_event_queue' : i \in DOMAIN m_event_queue \/ i = last
  BY <1>1, <1>4, HeardTypes
<1>9. /\ \A i \in DOMAIN m_event_queue' : m_event_queue'[i].msg \in 0 .. n
      /\ \A i, j \in DOMAIN m_event_queue' :
           i < j /\ m_event_queue'[j].msg # Null => m_event_queue'[i].msg <= m_event_queue'[j].msg
  <2>1. \A i \in DOMAIN m_event_queue : m_event_queue'[i] = m_event_queue[i] /\ m_event_queue[i].msg \in 0 .. n
    BY <1>8 DEF HeardInv
  <2>2. m_event_queue'[last].msg \in {Null, n}
    BY <1>2, <1>4, <1>8
  <2>3. \A i \in DOMAIN m_event_queue' : m_event_queue'[i].msg \in 0 .. n
    BY <1>4, <1>8, <2>1, <2>2 DEF Null
  <2> SUFFICES ASSUME NEW i \in DOMAIN m_event_queue', NEW j \in DOMAIN m_event_queue', i < j,
                      m_event_queue'[j].msg # Null
               PROVE  m_event_queue'[i].msg <= m_event_queue'[j].msg
    BY <2>3
  <2>4. i \in DOMAIN m_event_queue
    BY <1>8
  <2>5. CASE j = last
    BY <1>4, <2>2, <2>3, <2>5
  <2>6. CASE j # last
    <3>1. j \in DOMAIN m_event_queue
      BY <1>8, <2>6
    <3> QED
      BY <2>1, <2>4, <3>1 DEF HeardInv
  <2> QED
    BY <2>5, <2>6
<1> HIDE DEF x, n, last
<1> SUFFICES ASSUME Both
             PROVE  /\ Uncut' /\ \A m \in DOMAIN submitted : HeardOnce(m)'
                    /\ \A a, b \in Entry : Sequenced(a, b)'
  BY <1>1, <1>7, <1>9 DEF HeardInv, n
<1>10. Uncut /\ (\A m \in DOMAIN submitted : HeardOnce(m)) /\ \A a, b \in Entry : Sequenced(a, b)
  BY DEF HeardInv
<1>11. Uncut'
  BY <1>1, <1>3, <1>10 DEF Uncut
<1>12. evt.type = "RAW_MESSAGE_RECEIVED" =>
         /\ RawAhead("network") /\ n \in DOMAIN submitted
         /\ ~(submitted[n].cut /\ Ahead("parser", "network"))
         /\ ~RawAhead("parser") => Ahead("parser", "network")
  <2> SUFFICES ASSUME evt.type = "RAW_MESSAGE_RECEIVED"
               PROVE  /\ RawAhead("network") /\ n \in DOMAIN submitted
                      /\ ~(submitted[n].cut /\ Ahead("parser", "network"))
                      /\ ~RawAhead("parser") => Ahead("parser", "network")
    OBVIOUS
  <2>1. RawAhead("network") /\ evt = Outer /\ n > 0
    BY <1>2, CalleeAhead, WhichEvent DEF n
  <2>2. n \in DOMAIN submitted
    BY <1>4, <2>1, HeardTypes DEF n
  <2>3. \A l : RawAhead(l) <=> ~Passed(evt, l)
    BY <2>1 DEF RawAhead
  <2>4. ~RawAhead("parser") => Ahead("parser", "network")
    BY <1>2, <2>3, CalleeFirst
  <2>5. RawAhead("parser") => Ahead("network", "parser")
    BY <1>2, <2>3, CalleeFirst DEF Both
  <2>6. RawAhead("nobody")
    <3>1. listeners \in Seq(Listener) /\ evt.next \in 1 .. Len(listeners) + 1
      BY <1>2, Delivered DEF StackInv, TypeOK
    <3>2. \A i \in 1 .. evt.next - 1 : listeners[i] \in Listener
      BY <3>1
    <3> QED
      BY <2>3, <3>2 DEF Passed, Listener
  <2>7. submitted[n].cut => ~Ahead("parser", "network")
    BY <1>10, <2>5, <2>6, Apart DEF Uncut, n
  <2> QED
    BY <2>1, <2>2, <2>4, <2>7
<1>13. evt.type = "MESSAGE_PARSED" =>
         /\ ParsedAhead("network") /\ ~RawAhead("parser") /\ n \in DOMAIN submitted /\ ~submitted[n].cut
         /\ Ahead("parser", "network") => RawAhead("network")
  <2> SUFFICES ASSUME evt.type = "MESSAGE_PARSED"
               PROVE  /\ ParsedAhead("network") /\ ~RawAhead("parser") /\ n \in DOMAIN submitted
                      /\ ~submitted[n].cut /\ (Ahead("parser", "network") => RawAhead("network"))
    OBVIOUS
  <2>1. ParsedAhead("network") /\ HasParsed /\ n > 0
    BY <1>2, CalleeAhead, WhichEvent DEF n
  <2>2. ~RawAhead("parser") /\ ~submitted[n].cut
    BY <2>1, ParserPassed DEF HasParsed, StackInv, Contents, n
  <2>3. n \in DOMAIN submitted
    BY <1>4, <2>1, HeardTypes DEF n
  <2>4. Ahead("parser", "network") => RawAhead("network")
    BY <2>1, NetworkBehind
  <2> QED
    BY <2>1, <2>2, <2>3, <2>4
<1>14. IsLine(evt) => ParsedAhead("network") /\ ~RawAhead("parser") /\ n \in DOMAIN submitted
  <2> SUFFICES ASSUME IsLine(evt)
               PROVE  ParsedAhead("network") /\ ~RawAhead("parser") /\ n \in DOMAIN submitted
    OBVIOUS
  <2>1. HasParsed /\ Inner.next = 1
    BY <1>2, WhichEvent
  <2>2. ~RawAhead("parser") /\ ParsedAhead("network")
    BY <2>1, ParserPassed DEF ParsedAhead, Passed
  <2>3. n \in DOMAIN submitted
    BY <1>2, <1>4, HeardTypes DEF n, Null, IsLine
  <2> QED
    BY <2>2, <2>3
<1>15. ASSUME NEW m \in DOMAIN submitted PROVE HeardOnce(m)'
  <2>1. HeardOnce(m) /\ m # Null
    BY <1>10, HeardTypes DEF Null
  <2>2. \A type : x = [type |-> type, msg |-> m] <=> evt.type = type /\ evt.msg = m
    BY <1>4 DEF x
  <2>3. evt.msg = m => m = n
    BY <1>2, <2>1
  <2>4. Heard("RAW_MESSAGE_RECEIVED", m)' =
          IF (m = n /\ RawAhead("network")') \/ (submitted[m].cut /\ Ahead("parser", "network")) THEN 0 ELSE 1
    <3>1. CASE evt.type = "RAW_MESSAGE_RECEIVED"
      <4>1. evt.msg = n
        BY <1>2, <3>1, WhichEvent DEF n
      <4> QED
        BY <1>3, <1>6, <1>12, <2>1, <2>2, <3>1, <4>1 DEF HeardOnce, n
    <3>2. CASE evt.type # "RAW_MESSAGE_RECEIVED"
      BY <1>3, <1>6, <2>1, <2>2, <3>2 DEF HeardOnce, n
    <3> QED
      BY <3>1, <3>2
  <2>5. Heard("MESSAGE_PARSED", m)' =
          IF submitted[m].cut \/ (m = n /\ (RawAhead("parser")' \/ ParsedAhead("network")')) THEN 0 ELSE 1
    <3>1. CASE evt.type = "MESSAGE_PARSED"
      <4>1. evt.msg = n
        BY <1>2, <3>1, WhichEvent DEF n
      <4> QED
        BY <1>3, <1>6, <1>13, <2>1, <2>2, <3>1, <4>1 DEF HeardOnce, n
    <3>2. CASE evt.type # "MESSAGE_PARSED"
      BY <1>3, <1>6, <2>1, <2>2, <3>2 DEF HeardOnce, n
    <3> QED
      BY <3>1, <3>2
  <2>6. Heard("LOG_MESSAGE", m)' = submitted[m].lines - ToHear("network", m)'
    <3>1. submitted[m].lines \in Nat /\ ToHear("network", m) \in Int /\ Heard("LOG_MESSAGE", m) \in Nat
      BY HeardTypes, WrittenTypes DEF ToHear
    <3>2. Heard("LOG_MESSAGE", m) = submitted[m].lines - ToHear("network", m)
      BY <2>1 DEF HeardOnce
    <3>3. IsLine(evt) /\ m = evt.msg <=> x = [type |-> "LOG_MESSAGE", msg |-> m]
      BY <2>1, <2>2 DEF IsLine
    <3> QED
      BY <1>3, <1>6, <3>1, <3>2, <3>3
  <2> QED
    BY <1>1, <1>7, <2>4, <2>5, <2>6 DEF HeardOnce, n
<1>16. ASSUME NEW a \in Entry, NEW b \in Entry PROVE Sequenced(a, b)'
  <2> SUFFICES ASSUME a.msg = b.msg, a.msg # Null, b.type = "MESSAGE_PARSED",
                      NEW i \in DOMAIN m_event_queue', NEW j \in DOMAIN m_event_queue',
                      m_event_queue'[i] = a, m_event_queue'[j] = b
               PROVE  /\ a.type = "RAW_MESSAGE_RECEIVED" => (j < i <=> Ahead("parser", "network"))
                      /\ a.type = "LOG_MESSAGE" => i < j
    BY <1>7 DEF Sequenced
  <2> DEFINE m == a.msg
  <2>1. /\ a = [type |-> a.type, msg |-> m] /\ b = [type |-> "MESSAGE_PARSED", msg |-> m]
        /\ i \in Nat /\ j \in Nat
    BY <1>8 DEF Entry
  <2>2. CASE i # last /\ j # last
    <3>1. i \in DOMAIN m_event_queue /\ j \in DOMAIN m_event_queue /\ m_event_queue[i] = a /\ m_event_queue[j] = b
      BY <1>8, <2>2
    <3> QED
      BY <1>10, <3>1 DEF Sequenced
  <2>3. CASE i = last /\ j # last
    <3>1. /\ j \in DOMAIN m_event_queue /\ m_event_queue[j] = b /\ j < i
          /\ evt.type = a.type /\ evt.msg = m /\ m = n
      BY <1>2, <1>4, <1>8, <2>3
    <3>2. Heard("MESSAGE_PARSED", m) # 0
      BY <2>1, <3>1, HeardTypes
    <3>3. a.type = "RAW_MESSAGE_RECEIVED" => Ahead("parser", "network")
      BY <1>10, <1>12, <3>1, <3>2 DEF HeardOnce, n
    <3>4. a.type # "LOG_MESSAGE"
      BY <1>10, <1>14, <3>1, <3>2 DEF HeardOnce, n, IsLine
    <3> QED
      BY <3>1, <3>3, <3>4
  <2>4. CASE j = last /\ i # last
    <3>1. /\ i \in DOMAIN m_event_queue /\ m_event_queue[i] = a /\ i < j
          /\ evt.type = "MESSAGE_PARSED" /\ evt.msg = m /\ m = n
      BY <1>2, <1>4, <1>8, <2>4
    <3>2. Heard(a.type, m) # 0
      BY <2>1, <3>1, HeardTypes
    <3>3. a.type = "RAW_MESSAGE_RECEIVED" => ~Ahead("parser", "network")
      BY <1>10, <1>13, <3>1, <3>2 DEF HeardOnce, n
    <3> QED
      BY <2>1, <3>1, <3>3
  <2>5. CASE i = last /\ j = last
    <3>1. a.type = "MESSAGE_PARSED"
      BY <2>5
    <3> QED
      BY <3>1
  <2> QED
    BY <2>2, <2>3, <2>4, <2>5
<1> QED
  BY <1>11, <1>15, <1>16

(* No other step touches the queue, or what is to come for the network.    *)
LEMMA HeardStep ==
  ASSUME StackInv, Claims, HeardInv, [Next]_vars
  PROVE  HeardInv'
<1>1. ASSUME \E text \in Text : parse_raw_message(text) PROVE HeardInv'
  BY <1>1, HeardOrigin
<1>2. ASSUME \E type \in {"TIME_TO_REGISTER", "NETWORK_SOCKET_CREATED"}, connection \in Connection :
               DispatchOther(type, connection)
      PROVE  HeardInv'
  <2>1. stack = <<>> /\ UNCHANGED <<listeners, submitted, m_event_queue, undefined>>
    BY <1>2 DEF DispatchOther, MayDispatch, Idle, modules
  <2>2. /\ \A l : ~RawAhead(l) /\ ~ParsedAhead(l) /\ LinesAhead(l) = 0
        /\ \A l : ~RawAhead(l)' /\ ~ParsedAhead(l)' /\ LinesAhead(l)' = 0
    BY <1>2, <2>1, OriginAhead, NothingAhead DEF ParsedAhead, LinesAhead
  <2> QED
    BY <2>1, <2>2, HeardSame
<1>3. ASSUME EndOfLoop PROVE HeardInv'
  <2>1. UNCHANGED <<listeners, submitted, m_event_queue, undefined>>
    BY <1>3 DEF EndOfLoop, program, modules
  <2> QED
    BY <1>3, <2>1, EndAhead, HeardSame DEF Both
<1>4. ASSUME Ignore \/ LogWriterWrites \/ RegisterProceeds PROVE HeardInv'
  <2>1. UNCHANGED <<listeners, submitted, m_event_queue, undefined>>
    BY <1>4 DEF Ignore, LogWriterWrites, RegisterProceeds, program, modules
  <2>2. Callee # "network"
    <3>1. ASSUME Ignore, Callee = "network" PROVE FALSE
      <4>1. stack # <<>> /\ evt.type \notin Concern("network")
        BY <3>1, Calls
      <4>2. evt.type \in EventType
        BY <4>1, Delivered DEF Frame
      <4> QED
        BY <4>1, <4>2 DEF Concern
    <3> QED
      BY <1>4, <3>1, Calls
  <2>3. /\ RawAhead("network")' <=> RawAhead("network")
        /\ ParsedAhead("network")' <=> ParsedAhead("network")
        /\ LinesAhead("network")' = LinesAhead("network")
        /\ RawAhead("parser")' <=> RawAhead("parser")
        /\ RawAhead("nobody")' => RawAhead("nobody")
    BY <1>4, <2>2, Bystander
  <2> QED
    BY <2>1, <2>3, HeardSame
<1>5. ASSUME AppTakes \/ RegisterTakes PROVE HeardInv'
  <2>1. UNCHANGED <<listeners, submitted, m_event_queue, undefined>>
    BY <1>5 DEF AppTakes, RegisterTakes, program
  <2>2. /\ RawAhead("network")' <=> RawAhead("network")
        /\ ParsedAhead("network")' <=> ParsedAhead("network")
        /\ LinesAhead("network")' = LinesAhead("network")
        /\ RawAhead("parser")' <=> RawAhead("parser")
        /\ RawAhead("nobody")' => RawAhead("nobody")
    BY <1>5, AppAhead, RegisterAhead
  <2> QED
    BY <2>1, <2>2, HeardSame
<1>6. ASSUME RegisterDereferences \/ CallDangling PROVE HeardInv'
  <2>1. UNCHANGED <<submitted, m_event_queue>> /\ undefined'
    BY <1>6, Calls DEF BeyondDefined, program, modules
  <2> QED
    BY <2>1 DEF HeardInv, Both
<1>7. ASSUME UNCHANGED vars PROVE HeardInv'
  <2>1. UNCHANGED <<listeners, submitted, m_event_queue, undefined, stack>>
    BY <1>7 DEF vars, program, modules
  <2>2. \A l : /\ RawAhead(l)' <=> RawAhead(l)
               /\ ParsedAhead(l)' <=> ParsedAhead(l)
               /\ LinesAhead(l)' = LinesAhead(l)
    BY <2>1 DEF RawAhead, ParsedAhead, LinesAhead, Coming, HasParsed, HasLine, Outer, Inner, Passed
  <2> QED
    BY <2>1, <2>2, HeardSame
<1> QED
  BY <1>1, <1>2, <1>3, <1>4, <1>5, <1>6, <1>7, HeardParsed, HeardThrown, HeardQueued DEF Next, dispatch, Terminated

LEMMA HeardInvariant == Spec => [](StackInv /\ Claims /\ HeardInv)
<1>1. Init => HeardInv
  <2> SUFFICES ASSUME Init PROVE HeardInv
    OBVIOUS
  <2>1. stack = <<>> /\ DOMAIN m_event_queue = {} /\ DOMAIN submitted = {}
    BY DEF Init
  <2> QED
    BY <2>1, NothingAhead DEF HeardInv, Uncut, Sequenced
<1>2. StackInv /\ Claims /\ HeardInv /\ [Next]_vars => HeardInv'
  BY HeardStep
<1> QED
  BY <1>1, <1>2, ClaimsInvariant, PTL DEF Spec

(* Between dispatches the network's queue holds every message once, raw    *)
(* and parsed, with each line that was logged of it, and what it holds of  *)
(* one message comes before all of the next, wherever in the list the network and the parser are.              *)
THEOREM NetworkHearsEach == Spec => []NetworkHearsAll
<1>1. StackInv /\ HeardInv => NetworkHearsAll
  <2> SUFFICES ASSUME StackInv, HeardInv, Idle, Listening("network"), Listening("parser"), NEW m \in DOMAIN submitted
               PROVE  LET raw    == Queued("RAW_MESSAGE_RECEIVED", m)
                          parsed == Queued("MESSAGE_PARSED", m)
                          logged == Queued("LOG_MESSAGE", m)
                          all    == raw \cup parsed \cup logged
                      IN  /\ Cardinality(raw) = IF submitted[m].cut /\ Ahead("parser", "network") THEN 0 ELSE 1
                          /\ Cardinality(parsed) = IF submitted[m].cut THEN 0 ELSE 1
                          /\ Cardinality(logged) = submitted[m].lines
                          /\ \A i \in raw, j \in parsed : j < i <=> Ahead("parser", "network")
                          /\ \A i \in logged, j \in parsed : i < j
                          /\ \A i \in all, j \in DOMAIN m_event_queue : m_event_queue[j].msg > m => i < j
    BY DEF NetworkHearsAll
  <2>1. Both /\ m # Null /\ m \in Nat
    BY HeardTypes DEF Both, Idle, Null
  <2>2. /\ \A l : ~RawAhead(l) /\ ~ParsedAhead(l)
        /\ ToHear("network", m) = 0 /\ submitted[m].lines \in Nat
    BY NothingAhead, NothingToHear, WrittenTypes DEF Idle, ParsedAhead
  <2>3. \A type : Cardinality(Queued(type, m)) = Heard(type, m)
    BY DEF Queued, Heard, Occurrences
  <2>4. HeardOnce(m)
    BY <2>1 DEF HeardInv
  <2>5. \A type \in EventType : \A i \in Queued(type, m) :
          i \in DOMAIN m_event_queue /\ m_event_queue[i] = [type |-> type, msg |-> m]
    BY DEF Queued
  <2>6. \A type \in EventType : \A i \in Queued(type, m), j \in Queued("MESSAGE_PARSED", m) :
          /\ type = "RAW_MESSAGE_RECEIVED" => (j < i <=> Ahead("parser", "network"))
          /\ type = "LOG_MESSAGE" => i < j
    <3> SUFFICES ASSUME NEW type \in EventType, NEW i \in Queued(type, m), NEW j \in Queued("MESSAGE_PARSED", m)
                 PROVE  /\ type = "RAW_MESSAGE_RECEIVED" => (j < i <=> Ahead("parser", "network"))
                        /\ type = "LOG_MESSAGE" => i < j
      OBVIOUS
    <3> DEFINE a == [type |-> type, msg |-> m]
               b == [type |-> "MESSAGE_PARSED", msg |-> m]
    <3>1. a \in Entry /\ b \in Entry /\ a.msg = m /\ b.msg = m /\ a.type = type /\ b.type = "MESSAGE_PARSED"
      BY <2>1 DEF Entry, EventType
    <3>2. i \in DOMAIN m_event_queue /\ m_event_queue[i] = a /\ j \in DOMAIN m_event_queue /\ m_event_queue[j] = b
      BY <2>5, <3>1 DEF EventType
    <3> HIDE DEF a, b
    <3>3. Sequenced(a, b)
      BY <2>1, <3>1 DEF HeardInv
    <3> QED
      BY <2>1, <3>1, <3>2, <3>3 DEF Sequenced
  <2>7. \A type \in EventType : \A i \in Queued(type, m), j \in DOMAIN m_event_queue :
          m_event_queue[j].msg > m => i < j
    <3> SUFFICES ASSUME NEW type \in EventType, NEW i \in Queued(type, m), NEW j \in DOMAIN m_event_queue,
                        m_event_queue[j].msg > m
                 PROVE  i < j
      OBVIOUS
    <3>1. i \in DOMAIN m_event_queue /\ m_event_queue[i].msg = m
      <4>1. i \in DOMAIN m_event_queue /\ m_event_queue[i] = [type |-> type, msg |-> m]
        BY <2>5
      <4> QED
        BY <4>1
    <3>2. i \in Nat /\ j \in Nat /\ i # j /\ m_event_queue[j].msg \in Nat
      <4>1. m_event_queue \in Seq(Entry)
        BY HeardTypes
      <4>2. m_event_queue[j] \in Entry /\ i \in Nat /\ j \in Nat
        BY <3>1, <4>1
      <4>3. i # j
        BY <2>1, <3>1
      <4> QED
        BY <4>2, <4>3 DEF Entry
    <3>3. j < i => m_event_queue[j].msg <= m_event_queue[i].msg
      BY <2>1, <3>1 DEF HeardInv
    <3> QED
      BY <2>1, <3>1, <3>2, <3>3
  <2> QED
    BY <2>2, <2>3, <2>4, <2>6, <2>7 DEF HeardOnce, EventType
<1> QED
  BY <1>1, HeardInvariant, PTL
=============================================================================
