-------------------------- MODULE TcpFramingProofs --------------------------
(***************************************************************************)
(* Proofs about TcpFraming for every set of well-formed messages, every    *)
(* size of buffer and every number of messages.                            *)
(*                                                                         *)
(* The algorithm is right because of two facts about one message: a buffer *)
(* that begins with it is complete and needs exactly its length, and a     *)
(* buffer that holds less than it is not complete, whatever either holds   *)
(* in its body. The rest is where messages lie in the stream (Layout).     *)
(***************************************************************************)
EXTENDS TcpFraming, TLAPS

-----------------------------------------------------------------------------
(* One message in a buffer *)

(* The buffer and the message agree as far as both go.                     *)
Agree(b, m) == \A i \in 1 .. Len(m) : i <= Len(b) => b[i] = m[i]

(* The least number of a set is the one that is found.                     *)
LEMMA LeastIs ==
  ASSUME NEW S \in SUBSET Nat, NEW x \in S, \A y \in S : x <= y
  PROVE  Least(S) = x
<1>1. \A z \in S : (\A y \in S : z <= y) => z = x
  <2> SUFFICES ASSUME NEW z \in S, \A y \in S : z <= y PROVE z = x
    OBVIOUS
  <2>1. z <= x /\ x <= z
    OBVIOUS
  <2> QED
    BY <2>1
<1> QED
  BY <1>1 DEF Least

(* A message is not empty, and its header ends inside it.                  *)
LEMMA MessageHeader ==
  ASSUME NEW m \in Message
  PROVE  /\ m \in Seq(Octet)
         /\ \E n \in 4 .. Len(m) :
              /\ TerminatorAt(m, n - 3)
              /\ \A i \in 1 .. n - 4 : ~TerminatorAt(m, i)
              /\ \/ Len(m) = n /\ \A i \in 1 .. n : m[i] \notin LengthField
                 \/ \E j \in 1 .. n :
                      /\ m[j] \in LengthField /\ \A i \in 1 .. j - 1 : m[i] \notin LengthField
                      /\ Len(m) = n + stoul[m[j]]
  BY TcpFramingAssumption DEF WellFormed

(* Where both have four octets, they have the same terminators.            *)
LEMMA SameTerminator ==
  ASSUME NEW m \in Seq(Octet), NEW b \in Seq(Octet), Agree(b, m),
         NEW i \in Nat \ {0}, i + 3 <= Len(b), i + 3 <= Len(m)
  PROVE  TerminatorAt(b, i) <=> TerminatorAt(m, i)
<1>1. \A k \in 0 .. 3 : i + k \in 1 .. Len(m) /\ i + k <= Len(b)
  OBVIOUS
<1>2. b[i + 0] = m[i + 0] /\ b[i + 1] = m[i + 1] /\ b[i + 2] = m[i + 2] /\ b[i + 3] = m[i + 3]
  BY <1>1 DEF Agree
<1>3. b[i] = m[i]
  BY <1>2
<1> QED
  BY <1>2, <1>3, Zenon DEF TerminatorAt

(* What the code finds in a buffer that agrees with a message and holds    *)
(* the end of its header: the message's own header and length.             *)
LEMMA HeaderFound ==
  ASSUME NEW m \in Seq(Octet), NEW b \in Seq(Octet), Agree(b, m),
         NEW n \in 4 .. Len(m), n <= Len(b),
         TerminatorAt(m, n - 3), \A i \in 1 .. n - 4 : ~TerminatorAt(m, i)
  PROVE  Terminators(b) # {} /\ HeaderLength(b) = n
<1>1. n - 3 \in Terminators(b)
  <2>1. n - 3 \in Nat \ {0} /\ n - 3 + 3 <= Len(b) /\ n - 3 + 3 <= Len(m) /\ n - 3 \in 1 .. Len(b)
    OBVIOUS
  <2>2. TerminatorAt(b, n - 3)
    BY <2>1, SameTerminator
  <2> QED
    BY <2>1, <2>2 DEF Terminators
<1>2. \A y \in Terminators(b) : n - 3 <= y
  <2> SUFFICES ASSUME NEW y \in Terminators(b), y < n - 3 PROVE FALSE
    BY DEF Terminators
  <2>1. y \in 1 .. n - 4 /\ TerminatorAt(b, y) /\ y \in Nat \ {0} /\ y + 3 <= Len(b) /\ y + 3 <= Len(m)
    BY DEF Terminators
  <2>2. TerminatorAt(m, y)
    BY <2>1, SameTerminator
  <2> QED
    BY <2>1, <2>2
<1>3. Terminators(b) \in SUBSET Nat
  BY DEF Terminators
<1>4. Least(Terminators(b)) = n - 3
  BY <1>1, <1>2, <1>3, LeastIs
<1> QED
  BY <1>1, <1>4 DEF HeaderLength

(* If there is a terminator at all, the length needed is the message's.    *)
LEMMA LengthFound ==
  ASSUME NEW m \in Message, NEW b \in Seq(Octet), Agree(b, m), Terminators(b) # {}
  PROVE  TotalNeeded(b) = Len(m)
<1>0. m \in Seq(Octet)
  BY MessageHeader
<1>1. PICK n \in 4 .. Len(m) :
        /\ TerminatorAt(m, n - 3)
        /\ \A i \in 1 .. n - 4 : ~TerminatorAt(m, i)
        /\ \/ Len(m) = n /\ \A i \in 1 .. n : m[i] \notin LengthField
           \/ \E j \in 1 .. n :
                /\ m[j] \in LengthField /\ \A i \in 1 .. j - 1 : m[i] \notin LengthField
                /\ Len(m) = n + stoul[m[j]]
  BY MessageHeader
<1>2. n <= Len(b)
  <2> SUFFICES ASSUME Len(b) < n PROVE FALSE
    BY <1>0
  <2>1. PICK y \in Terminators(b) : TRUE
    OBVIOUS
  <2>2. y \in 1 .. n - 4 /\ TerminatorAt(b, y) /\ y \in Nat \ {0} /\ y + 3 <= Len(b) /\ y + 3 <= Len(m)
    BY <1>0 DEF Terminators
  <2>3. TerminatorAt(m, y)
    BY <1>0, <2>2, SameTerminator
  <2> QED
    BY <1>1, <2>2, <2>3
<1>3. HeaderLength(b) = n
  BY <1>0, <1>1, <1>2, HeaderFound
<1>4. LengthFields(b, n) = {i \in 1 .. n : m[i] \in LengthField}
  BY <1>0, <1>2 DEF LengthFields, Agree
<1>5. CASE Len(m) = n /\ \A i \in 1 .. n : m[i] \notin LengthField
  <2>1. LengthFields(b, n) = {}
    BY <1>4, <1>5
  <2> QED
    BY <1>0, <1>3, <1>5, <2>1 DEF TotalNeeded, ContentLength
<1>6. ASSUME NEW j \in 1 .. n, m[j] \in LengthField, \A i \in 1 .. j - 1 : m[i] \notin LengthField,
             Len(m) = n + stoul[m[j]]
      PROVE  TotalNeeded(b) = Len(m)
  <2>1. j \in LengthFields(b, n) /\ LengthFields(b, n) \in SUBSET Nat
    BY <1>4, <1>6
  <2>2. \A y \in LengthFields(b, n) : j <= y
    BY <1>4, <1>6
  <2>3. Least(LengthFields(b, n)) = j
    BY <2>1, <2>2, LeastIs
  <2>4. ContentLength(b) = stoul[b[j]]
    BY <1>3, <2>1, <2>3 DEF ContentLength
  <2>5. b[j] = m[j]
    BY <1>0, <1>2, <1>6 DEF Agree
  <2> QED
    BY <1>3, <1>6, <2>4, <2>5 DEF TotalNeeded
<1> QED
  BY <1>1, <1>5, <1>6

(* Less than a message is not complete.                                    *)
LEMMA PartIncomplete ==
  ASSUME NEW m \in Message, NEW b \in Seq(Octet), Agree(b, m), Len(b) < Len(m)
  PROVE  ~Complete(b)
<1> SUFFICES ASSUME Terminators(b) # {}, Len(b) >= TotalNeeded(b) PROVE FALSE
  BY DEF Complete
<1>1. TotalNeeded(b) = Len(m)
  BY LengthFound
<1> QED
  BY <1>1, MessageHeader

(* A buffer that begins with a message is complete, and the message is     *)
(* what is cut off.                                                        *)
LEMMA WholeComplete ==
  ASSUME NEW m \in Message, NEW b \in Seq(Octet), Agree(b, m), Len(m) <= Len(b)
  PROVE  Complete(b) /\ TotalNeeded(b) = Len(m)
<1>0. m \in Seq(Octet)
  BY MessageHeader
<1>1. Terminators(b) # {}
  <2>1. PICK n \in 4 .. Len(m) : TerminatorAt(m, n - 3) /\ \A i \in 1 .. n - 4 : ~TerminatorAt(m, i)
    BY MessageHeader
  <2>2. n <= Len(b)
    BY <1>0
  <2> QED
    BY <1>0, <2>1, <2>2, HeaderFound
<1>2. TotalNeeded(b) = Len(m)
  BY <1>1, LengthFound
<1> QED
  BY <1>1, <1>2 DEF Complete

(* Nothing is not complete.                                                *)
LEMMA EmptyIncomplete == ~Complete(<<>>)
  BY DEF Complete, Terminators

-----------------------------------------------------------------------------
(* Messages in the stream *)

(* Where the messages written to their end stop.                           *)
Written == bounds[Len(sent) + 1]

(* The messages lie one behind the other from the start of the stream.     *)
Layout ==
  /\ bounds[1] = 0
  /\ \A k \in 1 .. Len(sent) : bounds[k + 1] = bounds[k] + Len(sent[k])
  /\ \A k \in 1 .. Len(sent) + 1 : bounds[k] <= Len(stream)
  /\ \A k \in 1 .. Len(sent) : \A i \in 1 .. Len(sent[k]) : stream[bounds[k] + i] = sent[k][i]

(* Behind the last of them there is nothing while the peer is there, and   *)
(* at most a part of one more when it has closed.                          *)
Remainder ==
  /\ ~fin => Len(stream) = Written
  /\ fin => \E m \in Message : /\ Len(stream) < Written + Len(m)
                               /\ \A i \in 1 .. Len(stream) - Written : stream[Written + i] = m[i]

(* An entry is erased only when the peer has closed.                       *)
ClosedByPeer == pc = "closed" => fin

FramingInv == TypeOK /\ Layout /\ Remainder /\ ClosedByPeer /\ FramingExact /\ NothingCompleteHeld

(* Messages are sequences of octets, and so is what was sent.              *)
LEMMA MessageSeq == Message \subseteq Seq(Octet)
  BY TcpFramingAssumption

(* Where message k lies.                                                   *)
LEMMA MessageAt ==
  ASSUME TypeOK, Layout, NEW k \in 1 .. Len(sent)
  PROVE  /\ sent[k] \in Seq(Octet)
         /\ k \in 1 .. Len(sent) + 1 /\ k + 1 \in 1 .. Len(sent) + 1
         /\ bounds[k] \in Nat /\ bounds[k + 1] \in Nat
         /\ bounds[k + 1] = bounds[k] + Len(sent[k])
         /\ bounds[k + 1] <= Len(stream)
         /\ \A i \in 1 .. Len(sent[k]) : bounds[k] + i \in 1 .. Len(stream)
<1>1. k \in 1 .. Len(sent) + 1 /\ k + 1 \in 1 .. Len(sent) + 1 /\ sent[k] \in Message
  BY DEF TypeOK
<1>2. sent[k] \in Seq(Octet) /\ stream \in Seq(Octet)
  BY <1>1, MessageSeq DEF TypeOK
<1>3. bounds[k] \in Nat /\ bounds[k + 1] \in Nat
  BY <1>1 DEF TypeOK
<1>4. bounds[k + 1] = bounds[k] + Len(sent[k]) /\ bounds[k + 1] <= Len(stream)
  BY <1>1 DEF Layout
<1> QED
  BY <1>1, <1>2, <1>3, <1>4

(* What is written goes behind what was there.                             *)
LEMMA StreamGrows ==
  ASSUME NEW s \in Seq(Octet), NEW t \in Seq(Octet)
  PROVE  /\ s \o t \in Seq(Octet)
         /\ Len(s \o t) = Len(s) + Len(t)
         /\ \A i \in 1 .. Len(s) : (s \o t)[i] = s[i]
         /\ \A i \in 1 .. Len(t) : (s \o t)[Len(s) + i] = t[i]
  OBVIOUS

(* What the buffer of an open connection holds, octet by octet.            *)
LEMMA BufferContents ==
  ASSUME FramingInv, pc # "closed"
  PROVE  /\ recv_buffer \in Seq(Octet)
         /\ Consumed \in Nat /\ received \in Nat /\ Consumed <= received /\ received <= Len(stream)
         /\ Len(recv_buffer) = received - Consumed
         /\ \A i \in 1 .. Len(recv_buffer) : recv_buffer[i] = stream[Consumed + i]
<1>1. recv_buffer = SubSeq(stream, Consumed + 1, received) /\ Consumed <= received
  BY DEF FramingInv, FramingExact
<1>2. received \in 0 .. Len(stream) /\ recv_buffer \in Seq(Octet) /\ stream \in Seq(Octet)
  BY DEF FramingInv, TypeOK
<1>3. Consumed \in Nat
  BY DEF FramingInv, FramingExact, TypeOK, Consumed
<1> QED
  BY <1>1, <1>2, <1>3

(* The next message of those sent begins where the buffer does, and the    *)
(* buffer reaches its end if as much has been received.                    *)
LEMMA NextMessage ==
  ASSUME FramingInv, pc # "closed", Len(dispatched) < Len(sent)
  PROVE  LET m == sent[Len(dispatched) + 1]
         IN  /\ m \in Message /\ Agree(recv_buffer, m)
             /\ bounds[Len(dispatched) + 2] = Consumed + Len(m)
<1> DEFINE k == Len(dispatched) + 1
           m == sent[k]
<1>1. k \in 1 .. Len(sent) /\ k + 1 = Len(dispatched) + 2
  BY DEF FramingInv, TypeOK
<1>2. m \in Message /\ m \in Seq(Octet)
  BY <1>1, MessageSeq DEF FramingInv, TypeOK
<1>3. bounds[k + 1] = Consumed + Len(m)
  BY <1>1 DEF FramingInv, Layout, Consumed
<1>4. \A i \in 1 .. Len(m) : stream[Consumed + i] = m[i]
  BY <1>1 DEF FramingInv, Layout, Consumed
<1>5. Agree(recv_buffer, m)
  BY <1>2, <1>4, BufferContents DEF Agree
<1> QED
  BY <1>1, <1>2, <1>3, <1>5

(* When every message sent has been dispatched, what is left in the buffer *)
(* is not one.                                                             *)
LEMMA NothingMore ==
  ASSUME FramingInv, pc # "closed", Len(dispatched) = Len(sent)
  PROVE  ~Complete(recv_buffer)
<1>1. Consumed = Written
  BY DEF Consumed, Written
<1>2. CASE ~fin
  <2>1. recv_buffer = <<>>
    BY <1>1, <1>2, BufferContents DEF FramingInv, Remainder
  <2> QED
    BY <2>1, EmptyIncomplete
<1>3. CASE fin
  <2>1. PICK m \in Message : /\ Len(stream) < Written + Len(m)
                             /\ \A i \in 1 .. Len(stream) - Written : stream[Written + i] = m[i]
    BY <1>3 DEF FramingInv, Remainder
  <2>2. m \in Seq(Octet)
    BY MessageSeq
  <2>3. Len(recv_buffer) < Len(m) /\ Agree(recv_buffer, m)
    BY <1>1, <2>1, <2>2, BufferContents DEF Agree, FramingInv, TypeOK
  <2> QED
    BY <2>3, BufferContents, PartIncomplete
<1> QED
  BY <1>2, <1>3

(* A buffer is complete exactly when the next message has been received to *)
(* its end, and what is cut off it is that message.                        *)
LEMMA CutsMessage ==
  ASSUME FramingInv, pc # "closed", Complete(recv_buffer)
  PROVE  LET m == sent[Len(dispatched) + 1]
         IN  /\ Len(dispatched) < Len(sent)
             /\ m \in Message
             /\ TotalNeeded(recv_buffer) = Len(m) /\ Len(m) <= Len(recv_buffer)
             /\ SubSeq(recv_buffer, 1, Len(m)) = m
             /\ bounds[Len(dispatched) + 2] = Consumed + Len(m)
<1> DEFINE m == sent[Len(dispatched) + 1]
<1>0. Len(dispatched) \in Nat /\ Len(sent) \in Nat /\ Len(dispatched) <= Len(sent)
  BY DEF FramingInv, TypeOK, FramingExact
<1>1. Len(dispatched) < Len(sent)
  BY <1>0, NothingMore
<1>2. m \in Message /\ Agree(recv_buffer, m) /\ bounds[Len(dispatched) + 2] = Consumed + Len(m)
  BY <1>1, NextMessage
<1>3. m \in Seq(Octet) /\ recv_buffer \in Seq(Octet)
  BY <1>2, MessageSeq, BufferContents
<1>4. Len(m) <= Len(recv_buffer)
  BY <1>2, <1>3, PartIncomplete
<1>5. TotalNeeded(recv_buffer) = Len(m)
  BY <1>2, <1>3, <1>4, WholeComplete
<1>6. SubSeq(recv_buffer, 1, Len(m)) = m
  BY <1>2, <1>3, <1>4 DEF Agree
<1> QED
  BY <1>1, <1>2, <1>4, <1>5, <1>6

(* An open connection whose buffer is not complete has not received the    *)
(* next message to its end.                                                *)
LEMMA HoldsNoMessage ==
  ASSUME FramingInv, pc # "closed", ~Complete(recv_buffer), Len(dispatched) < Len(sent)
  PROVE  received < bounds[Len(dispatched) + 2]
<1> DEFINE m == sent[Len(dispatched) + 1]
<1>1. m \in Message /\ Agree(recv_buffer, m) /\ bounds[Len(dispatched) + 2] = Consumed + Len(m)
  BY NextMessage
<1>2. m \in Seq(Octet)
  BY <1>1, MessageSeq
<1>3. ~(Len(m) <= Len(recv_buffer))
  BY <1>1, BufferContents, WholeComplete
<1> QED
  BY <1>1, <1>2, <1>3, BufferContents

(* Variables keep their types.                                             *)
LEMMA TypeStep == FramingInv /\ [Next]_vars => TypeOK'
<1> SUFFICES ASSUME FramingInv, [Next]_vars PROVE TypeOK'
  OBVIOUS
<1>0. TypeOK
  BY DEF FramingInv
<1>1. ASSUME NEW m \in Message, Write(m) PROVE TypeOK'
  <2>1. m \in Seq(Octet)
    BY MessageSeq
  <2>2. stream' \in Seq(Octet) /\ Len(stream') = Len(stream) + Len(m)
    BY <1>0, <1>1, <2>1 DEF Write, TypeOK
  <2>3. sent' \in Seq(Message) /\ Len(sent') = Len(sent) + 1
    BY <1>0, <1>1 DEF Write, TypeOK
  <2>4. bounds' \in Seq(Nat) /\ Len(bounds') = Len(bounds) + 1
    BY <1>0, <1>1, <2>1 DEF Write, TypeOK
  <2> QED
    BY <1>0, <1>1, <2>1, <2>2, <2>3, <2>4 DEF Write, TypeOK
<1>2. ASSUME NEW m \in Message, NEW n \in 0 .. Len(m), BreakOff(m, n) PROVE TypeOK'
  <2>1. SubSeq(m, 1, n) \in Seq(Octet)
    BY <1>2, MessageSeq DEF BreakOff
  <2>2. stream' \in Seq(Octet) /\ Len(stream') >= Len(stream)
    BY <1>0, <1>2, <2>1 DEF BreakOff, TypeOK
  <2> QED
    BY <1>0, <1>2, <2>2 DEF BreakOff, TypeOK
<1>3. CASE Reset
  BY <1>0, <1>3 DEF Reset, TypeOK
<1>4. CASE Poll \/ RecvFails \/ NeedMore
  BY <1>0, <1>4 DEF Poll, RecvFails, NeedMore, TypeOK, peer
<1>5. ASSUME NEW n \in 1 .. BufferSize, Recv(n) PROVE TypeOK'
  <2>0. n \in Nat
    BY TcpFramingAssumption
  <2>1. received' \in 0 .. Len(stream')
    BY <1>0, <1>5, <2>0 DEF Recv, TypeOK, peer
  <2>2. SubSeq(stream, received + 1, received + n) \in Seq(Octet)
    BY <1>0, <1>5, <2>0 DEF Recv, TypeOK
  <2>3. recv_buffer' \in Seq(Octet)
    BY <1>0, <1>5, <2>2 DEF Recv, TypeOK
  <2> QED
    BY <1>0, <1>5, <2>1, <2>3 DEF Recv, TypeOK, peer
<1>6. CASE RecvEnd
  BY <1>0, <1>6 DEF RecvEnd, TypeOK, peer
<1>7. CASE Extract
  <2>1. TotalNeeded(recv_buffer) \in Nat /\ TotalNeeded(recv_buffer) <= Len(recv_buffer)
    <3>1. pc # "closed" /\ Complete(recv_buffer)
      BY <1>7 DEF Extract
    <3>2. \E m \in Message : TotalNeeded(recv_buffer) = Len(m) /\ Len(m) <= Len(recv_buffer)
      BY <1>0, <3>1, CutsMessage, Zenon
    <3>3. \A m \in Message : Len(m) \in Nat
      BY MessageSeq
    <3> QED
      BY <3>2, <3>3
  <2> QED
    <3> DEFINE total == TotalNeeded(recv_buffer)
    <3>0. recv_buffer \in Seq(Octet) /\ dispatched \in Seq(Seq(Octet)) /\ total \in Nat /\ total <= Len(recv_buffer)
      BY <1>0, <2>1 DEF TypeOK
    <3>4. /\ dispatched' = Append(dispatched, SubSeq(recv_buffer, 1, total))
          /\ recv_buffer' = SubSeq(recv_buffer, total + 1, Len(recv_buffer))
      BY <1>7 DEF Extract, CutFirst
    <3> HIDE DEF total
    <3>1. recv_buffer' \in Seq(Octet)
      BY <3>0, <3>4
    <3>2. SubSeq(recv_buffer, 1, total) \in Seq(Octet)
      BY <3>0
    <3>3. dispatched' \in Seq(Seq(Octet))
      BY <3>0, <3>2, <3>4
    <3> QED
      BY <1>0, <1>7, <3>1, <3>3 DEF Extract, TypeOK, peer
<1>8. CASE UNCHANGED vars
  BY <1>0, <1>8 DEF vars, peer, TypeOK
<1> QED
  BY <1>1, <1>2, <1>3, <1>4, <1>5, <1>6, <1>7, <1>8 DEF Next, process_recv_on_socket, Terminated

(* The stream and what was sent grow together, and nothing moves in them.  *)
LEMMA LayoutStep == FramingInv /\ [Next]_vars => Layout' /\ Remainder' /\ ClosedByPeer'
<1> SUFFICES ASSUME FramingInv, [Next]_vars PROVE Layout' /\ Remainder' /\ ClosedByPeer'
  OBVIOUS
<1>0. TypeOK /\ Layout /\ Remainder /\ ClosedByPeer
  BY DEF FramingInv
<1>1. ASSUME NEW m \in Message, Write(m) PROVE Layout' /\ Remainder' /\ ClosedByPeer'
  <2>0. m \in Seq(Octet) /\ stream \in Seq(Octet) /\ sent \in Seq(Message) /\ bounds \in Seq(Nat)
        /\ Len(bounds) = Len(sent) + 1 /\ Len(stream) = Written
    BY <1>0, <1>1, MessageSeq DEF TypeOK, Write, Connected, Remainder
  <2>1. /\ Len(stream') = Len(stream) + Len(m)
        /\ \A i \in 1 .. Len(stream) : stream'[i] = stream[i]
        /\ \A i \in 1 .. Len(m) : stream'[Len(stream) + i] = m[i]
    BY <1>1, <2>0, StreamGrows DEF Write
  <2>2. /\ Len(sent') = Len(sent) + 1
        /\ \A k \in 1 .. Len(sent) : sent'[k] = sent[k]
        /\ sent'[Len(sent) + 1] = m
    BY <1>1, <2>0 DEF Write
  <2>3. /\ Len(bounds') = Len(bounds) + 1
        /\ \A k \in 1 .. Len(sent) + 1 : bounds'[k] = bounds[k]
        /\ bounds'[Len(sent) + 2] = Len(stream) + Len(m)
    BY <1>1, <2>0 DEF Write
  <2>4. bounds'[1] = 0
    BY <1>0, <2>0, <2>3 DEF Layout
  <2>5. ASSUME NEW k \in 1 .. Len(sent') PROVE bounds'[k + 1] = bounds'[k] + Len(sent'[k])
    <3>1. CASE k \in 1 .. Len(sent)
      BY <1>0, <2>2, <2>3, <3>1, MessageAt
    <3>2. CASE k = Len(sent) + 1
      <4>1. k \in 1 .. Len(sent) + 1 /\ k + 1 = Len(sent) + 2
        BY <2>0, <3>2
      <4>2. bounds'[k] = Len(stream) /\ sent'[k] = m /\ bounds'[k + 1] = Len(stream) + Len(m)
        BY <2>0, <2>2, <2>3, <3>2, <4>1 DEF Written
      <4> QED
        BY <4>2
    <3> QED
      BY <2>0, <2>2, <3>1, <3>2
  <2>6. ASSUME NEW k \in 1 .. Len(sent') + 1 PROVE bounds'[k] <= Len(stream')
    <3>1. CASE k \in 1 .. Len(sent) + 1
      BY <1>0, <2>0, <2>1, <2>3, <3>1 DEF Layout
    <3>2. CASE k = Len(sent) + 2
      BY <2>0, <2>1, <2>3, <3>2
    <3> QED
      BY <2>0, <2>2, <3>1, <3>2
  <2>7. ASSUME NEW k \in 1 .. Len(sent'), NEW i \in 1 .. Len(sent'[k])
        PROVE  stream'[bounds'[k] + i] = sent'[k][i]
    <3>1. CASE k \in 1 .. Len(sent)
      <4>1. sent'[k] = sent[k] /\ bounds'[k] = bounds[k]
        BY <1>0, <2>2, <2>3, <3>1, MessageAt
      <4>2. bounds[k] + i \in 1 .. Len(stream)
        BY <1>0, <3>1, <4>1, MessageAt
      <4> QED
        BY <1>0, <2>1, <3>1, <4>1, <4>2 DEF Layout
    <3>2. CASE k = Len(sent) + 1
      <4>1. bounds'[k] = Len(stream) /\ sent'[k] = m
        BY <2>0, <2>2, <2>3, <3>2 DEF Written
      <4> QED
        BY <2>1, <4>1
    <3> QED
      BY <2>0, <2>2, <3>1, <3>2
  <2>8. Layout'
    BY <2>4, <2>5, <2>6, <2>7 DEF Layout
  <2>9. Remainder'
    BY <1>1, <2>0, <2>1, <2>2, <2>3 DEF Remainder, Write, Connected, Written
  <2> QED
    BY <1>0, <1>1, <2>8, <2>9 DEF ClosedByPeer, Write
<1>2. ASSUME NEW m \in Message, NEW n \in 0 .. Len(m), BreakOff(m, n)
      PROVE  Layout' /\ Remainder' /\ ClosedByPeer'
  <2>0. m \in Seq(Octet) /\ stream \in Seq(Octet) /\ Len(stream) = Written /\ n < Len(m)
        /\ sent \in Seq(Message) /\ bounds \in Seq(Nat) /\ Len(bounds) = Len(sent) + 1
        /\ sent' = sent /\ bounds' = bounds /\ fin'
    BY <1>0, <1>2, MessageSeq DEF TypeOK, BreakOff, Connected, Remainder
  <2> DEFINE part == SubSeq(m, 1, n)
  <2>1. part \in Seq(Octet) /\ Len(part) = n /\ \A i \in 1 .. n : part[i] = m[i]
    BY <2>0
  <2>7. stream' = stream \o part
    BY <1>2 DEF BreakOff
  <2>2. /\ Len(stream') = Len(stream) + n
        /\ \A i \in 1 .. Len(stream) : stream'[i] = stream[i]
        /\ \A i \in 1 .. n : stream'[Len(stream) + i] = m[i]
    <3> HIDE DEF part
    <3> QED
      BY <2>0, <2>1, <2>7, StreamGrows
  <2>3. Layout'
    <3>1. \A k \in 1 .. Len(sent) + 1 : bounds[k] <= Len(stream')
      <4> SUFFICES ASSUME NEW k \in 1 .. Len(sent) + 1 PROVE bounds[k] <= Len(stream')
        OBVIOUS
      <4>1. bounds[k] <= Len(stream) /\ bounds[k] \in Nat
        BY <1>0, <2>0 DEF Layout
      <4> QED
        BY <2>0, <2>2, <4>1
    <3>2. ASSUME NEW k \in 1 .. Len(sent), NEW i \in 1 .. Len(sent[k])
          PROVE  stream'[bounds[k] + i] = sent[k][i]
      <4>1. bounds[k] + i \in 1 .. Len(stream)
        BY <1>0, MessageAt
      <4> QED
        BY <1>0, <2>2, <4>1 DEF Layout
    <3> QED
      BY <1>0, <2>0, <3>1, <3>2 DEF Layout
  <2>4. Written' = Written
    BY <2>0 DEF Written
  <2>5. Len(stream') < Written + Len(m) /\ \A i \in 1 .. Len(stream') - Written : stream'[Written + i] = m[i]
    BY <2>0, <2>2
  <2>6. Remainder'
    BY <2>0, <2>4, <2>5 DEF Remainder
  <2> QED
    BY <2>0, <2>3, <2>6 DEF ClosedByPeer
<1>3. CASE UNCHANGED <<stream, fin, sent, bounds>>
  <2>1. Layout' /\ Remainder'
    BY <1>0, <1>3 DEF Layout, Remainder, Written
  <2>2. ClosedByPeer'
    BY <1>0, <1>3 DEF ClosedByPeer, Next, Write, BreakOff, Reset, process_recv_on_socket, Poll, Recv,
           RecvFails, RecvEnd, Extract, NeedMore, Terminated, vars
  <2> QED
    BY <2>1, <2>2
<1> QED
  BY <1>1, <1>2, <1>3 DEF Next, Reset, process_recv_on_socket, Poll, Recv, RecvFails, RecvEnd, Extract,
       NeedMore, Terminated, vars, peer

(* Sequences are equal that have the same length and elements.             *)
LEMMA SeqEq ==
  ASSUME NEW S, NEW s \in Seq(S), NEW t \in Seq(S), Len(s) = Len(t), \A i \in 1 .. Len(s) : s[i] = t[i]
  PROVE  s = t
  OBVIOUS

(* What is written after them does not change the octets received.         *)
LEMMA PrefixStays ==
  ASSUME NEW s \in Seq(Octet), NEW t \in Seq(Octet), NEW a \in Nat, NEW n \in Nat, n <= Len(s)
  PROVE  SubSeq(s \o t, a + 1, n) = SubSeq(s, a + 1, n)
<1>1. \A i \in 1 .. Len(s) : (s \o t)[i] = s[i]
  BY StreamGrows
<1>2. s \o t \in Seq(Octet) /\ Len(s) <= Len(s \o t)
  BY StreamGrows
<1> QED
  BY <1>1, <1>2

(* A step of the peer leaves the network thread as it is.                  *)
LEMMA PeerStep ==
  ASSUME FramingInv,
         (\E m \in Message : Write(m)) \/ (\E m \in Message : \E n \in 0 .. Len(m) : BreakOff(m, n)) \/ Reset
  PROVE  FramingExact' /\ NothingCompleteHeld'
<1>0. TypeOK /\ FramingExact /\ NothingCompleteHeld /\ ClosedByPeer
  BY DEF FramingInv
<1>1. CASE Reset
  BY <1>0, <1>1 DEF Reset, FramingExact, NothingCompleteHeld, Consumed
<1>2. ASSUME NEW m \in Message, NEW n \in 0 .. Len(m), BreakOff(m, n)
      PROVE  FramingExact' /\ NothingCompleteHeld'
  <2>1. SubSeq(m, 1, n) \in Seq(Octet) /\ stream \in Seq(Octet)
    BY <1>0, <1>2, MessageSeq DEF BreakOff, TypeOK
  <2>2. stream' = stream \o SubSeq(m, 1, n)
    BY <1>2 DEF BreakOff
  <2>3. pc # "closed" => SubSeq(stream', Consumed + 1, received) = SubSeq(stream, Consumed + 1, received)
    BY <2>1, <2>2, BufferContents, PrefixStays
  <2> QED
    BY <1>0, <1>2, <2>3 DEF BreakOff, FramingExact, NothingCompleteHeld, Consumed
<1>3. ASSUME NEW m \in Message, Write(m) PROVE FramingExact' /\ NothingCompleteHeld'
  <2>0. /\ pc # "closed" /\ pc' = pc /\ received' = received /\ dispatched' = dispatched
        /\ recv_buffer' = recv_buffer
    BY <1>0, <1>3 DEF Write, Connected, ClosedByPeer
  <2>1. m \in Seq(Octet) /\ stream \in Seq(Octet) /\ sent \in Seq(Message) /\ bounds \in Seq(Nat)
        /\ Len(bounds) = Len(sent) + 1 /\ Len(dispatched) \in Nat /\ Len(dispatched) <= Len(sent)
        /\ received \in 0 .. Len(stream)
    BY <1>0, MessageSeq DEF TypeOK, FramingExact
  <2>2. /\ \A i \in 1 .. Len(stream) : stream'[i] = stream[i]
        /\ \A k \in 1 .. Len(sent) : sent'[k] = sent[k]
        /\ \A k \in 1 .. Len(sent) + 1 : bounds'[k] = bounds[k]
        /\ Len(sent') = Len(sent) + 1
        /\ bounds'[Len(sent) + 2] = Len(stream) + Len(m)
        /\ Len(stream') = Len(stream) + Len(m) /\ stream' \in Seq(Octet)
    <3>1. stream' = stream \o m /\ sent' = Append(sent, m) /\ bounds' = Append(bounds, Len(stream) + Len(m))
      BY <1>3 DEF Write
    <3>2. Len(stream) + Len(m) \in Nat
      BY <2>1
    <3>3. \A k \in 1 .. Len(sent) : sent'[k] = sent[k]
      BY <2>1, <3>1
    <3>4. (\A k \in 1 .. Len(sent) + 1 : bounds'[k] = bounds[k]) /\ bounds'[Len(sent) + 2] = Len(stream) + Len(m)
      BY <2>1, <3>1, <3>2
    <3>5. Len(sent') = Len(sent) + 1
      BY <2>1, <3>1
    <3> QED
      BY <2>1, <3>1, <3>3, <3>4, <3>5, StreamGrows
  <2>3. Consumed' = Consumed
    BY <2>0, <2>1, <2>2 DEF Consumed
  <2>4. SubSeq(stream', Consumed + 1, received) = SubSeq(stream, Consumed + 1, received)
    <3>1. stream' = stream \o m
      BY <1>3 DEF Write
    <3> QED
      BY <2>0, <2>1, <3>1, BufferContents, PrefixStays
  <2>5. FramingExact'
    <3>1. Len(dispatched') <= Len(sent')
      BY <2>0, <2>1, <2>2
    <3>2. \A k \in 1 .. Len(dispatched') : dispatched'[k] = sent'[k]
      BY <1>0, <2>0, <2>1, <2>2 DEF FramingExact
    <3> QED
      BY <1>0, <2>0, <2>3, <2>4, <3>1, <3>2 DEF FramingExact
  <2>6. CASE Len(dispatched) < Len(sent)
    <3>1. Len(dispatched) + 2 \in 1 .. Len(sent) + 1
      BY <2>1, <2>6
    <3>2. bounds'[Len(dispatched) + 2] = bounds[Len(dispatched) + 2]
      BY <2>2, <3>1
    <3>3. NothingCompleteHeld'
      BY <1>0, <2>0, <2>6, <3>2 DEF NothingCompleteHeld
    <3> QED
      BY <2>5, <3>3
  <2>7. CASE Len(dispatched) = Len(sent)
    <3>1. Len(m) >= 4
      BY <2>1, MessageHeader
    <3>2. received < bounds'[Len(dispatched) + 2]
      BY <2>1, <2>2, <2>7, <3>1
    <3>3. NothingCompleteHeld'
      BY <2>0, <3>2 DEF NothingCompleteHeld
    <3> QED
      BY <2>5, <3>3
  <2> QED
    BY <2>1, <2>5, <2>6, <2>7
<1> QED
  BY <1>1, <1>2, <1>3

(* A step of the network thread takes from the stream what it adds to the  *)
(* buffer, and cuts off one message.                                       *)
LEMMA ThreadStep ==
  ASSUME FramingInv, process_recv_on_socket
  PROVE  FramingExact' /\ NothingCompleteHeld'
<1>0. TypeOK /\ FramingExact /\ NothingCompleteHeld
  BY DEF FramingInv
<1>1. UNCHANGED peer
  BY DEF process_recv_on_socket, Poll, Recv, RecvFails, RecvEnd, Extract, NeedMore, peer
<1>2. CASE Poll \/ RecvFails
  BY <1>0, <1>1, <1>2 DEF Poll, RecvFails, peer, FramingExact, NothingCompleteHeld, Consumed
<1>3. CASE NeedMore
  <2>1. pc # "closed" /\ ~Complete(recv_buffer)
    BY <1>3 DEF NeedMore
  <2>2. Len(dispatched) < Len(sent) => received < bounds[Len(dispatched) + 2]
    BY <2>1, HoldsNoMessage
  <2> QED
    BY <1>0, <1>1, <1>3, <2>2 DEF NeedMore, peer, FramingExact, NothingCompleteHeld, Consumed
<1>4. ASSUME NEW n \in 1 .. BufferSize, Recv(n) PROVE FramingExact' /\ NothingCompleteHeld'
  <2>0. n \in Nat /\ pc # "closed" /\ received + n <= Len(stream) /\ stream \in Seq(Octet)
    BY <1>0, <1>4, TcpFramingAssumption DEF Recv, TypeOK
  <2>1. Consumed' = Consumed /\ received' = received + n
    BY <1>1, <1>4 DEF Recv, Consumed, peer
  <2>2. recv_buffer' = SubSeq(stream, Consumed + 1, received) \o SubSeq(stream, received + 1, received + n)
    BY <1>0, <1>4, <2>0 DEF Recv, FramingExact
  <2>3. recv_buffer' = SubSeq(stream, Consumed + 1, received + n)
    <3>1. Consumed \in Nat /\ received \in Nat /\ Consumed <= received /\ received + n \in Nat
      BY <2>0, BufferContents
    <3> QED
      BY <2>0, <2>2, <3>1
  <2>4. FramingExact'
    <3>1. Consumed <= received + n
      BY <2>0, BufferContents
    <3>2. UNCHANGED <<stream, sent, dispatched>>
      BY <1>1, <1>4 DEF Recv, peer
    <3> QED
      BY <1>0, <2>1, <2>3, <3>1, <3>2 DEF FramingExact
  <2> QED
    BY <1>4, <2>4 DEF Recv, NothingCompleteHeld
<1>5. CASE RecvEnd
  <2>1. pc = "recv" /\ pc' = "closed" /\ received = Len(stream) /\ UNCHANGED <<received, dispatched>>
    BY <1>5 DEF RecvEnd
  <2>2. Len(dispatched) = Len(sent)
    <3> SUFFICES ASSUME Len(dispatched) < Len(sent) PROVE FALSE
      BY <1>0 DEF FramingExact, TypeOK
    <3>1. Len(dispatched) + 1 \in 1 .. Len(sent) /\ Len(dispatched) + 1 + 1 = Len(dispatched) + 2
      BY <1>0 DEF TypeOK
    <3>2. Len(stream) < bounds[Len(dispatched) + 2]
      BY <1>0, <2>1 DEF NothingCompleteHeld
    <3>3. bounds[Len(dispatched) + 2] <= Len(stream)
      BY <3>1, MessageAt DEF FramingInv
    <3>4. bounds[Len(dispatched) + 2] \in Nat /\ Len(stream) \in Nat
      BY <3>1, MessageAt DEF FramingInv, TypeOK
    <3> QED
      BY <3>2, <3>3, <3>4
  <2>3. dispatched = sent
    <3>1. dispatched \in Seq(Seq(Octet)) /\ sent \in Seq(Seq(Octet))
      BY <1>0, MessageSeq DEF TypeOK
    <3> QED
      BY <1>0, <2>2, <3>1, SeqEq DEF FramingExact
  <2> QED
    BY <1>0, <1>1, <2>1, <2>3 DEF peer, FramingExact, NothingCompleteHeld, Consumed
<1>6. CASE Extract
  <2> DEFINE m == sent[Len(dispatched) + 1]
  <2>0. pc = "extract" /\ pc' = pc /\ received' = received /\ Complete(recv_buffer) /\ CutFirst
    BY <1>6 DEF Extract
  <2>1. /\ Len(dispatched) < Len(sent)
        /\ m \in Message
        /\ TotalNeeded(recv_buffer) = Len(m) /\ Len(m) <= Len(recv_buffer)
        /\ SubSeq(recv_buffer, 1, Len(m)) = m
        /\ bounds[Len(dispatched) + 2] = Consumed + Len(m)
    BY <2>0, CutsMessage
  <2>2. m \in Seq(Octet) /\ dispatched \in Seq(Seq(Octet)) /\ sent \in Seq(Message)
    BY <1>0, <2>1, MessageSeq DEF TypeOK
  <2>3. dispatched' = Append(dispatched, m)
    BY <2>0, <2>1 DEF CutFirst
  <2>4. Len(dispatched') = Len(dispatched) + 1 /\ \A k \in 1 .. Len(dispatched') : dispatched'[k] = sent[k]
    BY <1>0, <2>2, <2>3 DEF FramingExact
  <2>5. Consumed' = Consumed + Len(m)
    BY <1>1, <2>1, <2>4 DEF Consumed, peer
  <2>6. recv_buffer' = SubSeq(recv_buffer, Len(m) + 1, Len(recv_buffer))
    BY <2>0, <2>1 DEF CutFirst
  <2>7. recv_buffer' = SubSeq(stream, Consumed + Len(m) + 1, received) /\ Consumed + Len(m) <= received
    <3>1. stream \in Seq(Octet) /\ recv_buffer = SubSeq(stream, Consumed + 1, received)
      BY <1>0, <2>0 DEF TypeOK, FramingExact
    <3>2. Consumed \in Nat /\ received \in Nat /\ Len(m) \in Nat /\ received <= Len(stream)
          /\ Len(recv_buffer) = received - Consumed /\ Len(m) <= Len(recv_buffer)
      BY <2>0, <2>1, <2>2, BufferContents
    <3>3. Consumed + Len(m) <= received
      BY <3>2
    <3>4. recv_buffer' = SubSeq(SubSeq(stream, Consumed + 1, received), Len(m) + 1, received - Consumed)
      BY <2>6, <3>1, <3>2
    <3> HIDE DEF m
    <3>5. recv_buffer' = SubSeq(stream, Consumed + Len(m) + 1, received)
      BY <3>1, <3>2, <3>3, <3>4
    <3> QED
      BY <3>3, <3>5
  <2> QED
    BY <1>1, <2>0, <2>1, <2>4, <2>5, <2>7 DEF peer, FramingExact, NothingCompleteHeld, TypeOK, FramingInv
<1> QED
  BY <1>2, <1>3, <1>4, <1>5, <1>6 DEF process_recv_on_socket

(* Nothing has been written yet.                                           *)
LEMMA FramingInit == Init => FramingInv
<1> SUFFICES ASSUME Init PROVE FramingInv
  OBVIOUS
<1> USE DEF Init
<1>1. TypeOK
  <2>1. bounds \in Seq(Nat) /\ Len(bounds) = 1
    OBVIOUS
  <2>2. stream \in Seq(Octet) /\ recv_buffer \in Seq(Octet) /\ dispatched \in Seq(Seq(Octet)) /\ sent \in Seq(Message)
    OBVIOUS
  <2>3. Len(bounds) = Len(sent) + 1 /\ received \in 0 .. Len(stream)
    OBVIOUS
  <2>4. fin \in BOOLEAN /\ failed \in BOOLEAN /\ pc \in {"poll", "recv", "extract", "closed"}
    OBVIOUS
  <2> QED
    BY <2>1, <2>2, <2>3, <2>4, Zenon DEF TypeOK
<1>2. Layout /\ Remainder /\ ClosedByPeer
  BY DEF Layout, Remainder, ClosedByPeer, Written
<1>3. FramingExact /\ NothingCompleteHeld
  BY DEF FramingExact, NothingCompleteHeld, Consumed
<1> QED
  BY <1>1, <1>2, <1>3 DEF FramingInv

(* No step disturbs the invariant.                                         *)
LEMMA FramingStep == FramingInv /\ [Next]_vars => FramingInv'
<1> SUFFICES ASSUME FramingInv, [Next]_vars PROVE FramingInv'
  OBVIOUS
<1>1. TypeOK' /\ Layout' /\ Remainder' /\ ClosedByPeer'
  BY TypeStep, LayoutStep
<1>2. CASE UNCHANGED vars
  <2>1. FramingExact' /\ NothingCompleteHeld'
    BY <1>2 DEF FramingInv, vars, peer, FramingExact, NothingCompleteHeld, Consumed
  <2> QED
    BY <1>1, <2>1 DEF FramingInv
<1> QED
  BY <1>1, <1>2, PeerStep, ThreadStep DEF Next, Terminated, FramingInv

(* The invariant holds from the start on.                                  *)
LEMMA FramingInvariant == Spec => []FramingInv
  BY FramingInit, FramingStep, PTL DEF Spec

-----------------------------------------------------------------------------
(* The variables of the connection have their types (module TcpFraming,    *)
(* TypeOK), whatever the messages and the buffer.                          *)
THEOREM FramingTypeCorrect == Spec => []TypeOK
  BY FramingInvariant, PTL DEF FramingInv

(* process_recv_on_socket dispatches exactly the messages the peer wrote,  *)
(* in their order, however recv splits or joins them.                      *)
THEOREM MessagesExact == Spec => []FramingExact
  BY FramingInvariant, PTL DEF FramingInv

(* Its inner loop leaves no whole message in recv_buffer, and an orderly   *)
(* close loses none.                                                       *)
THEOREM NoneHeldBack == Spec => []NothingCompleteHeld
  BY FramingInvariant, PTL DEF FramingInv

(* Above recv_buffer a connection is a channel of whole messages.          *)
THEOREM FramingRefinement == Spec => ImplementsMessageChannel
<1>1. Init => Channel!Init
  BY DEF Init, Channel!Init
<1>2. FramingInv /\ [Next]_vars => [Channel!Next]_(Channel!vars)
  <2> SUFFICES ASSUME FramingInv, [Next]_vars PROVE [Channel!Next]_(Channel!vars)
    OBVIOUS
  <2> USE DEF Channel!vars
  <2>1. ASSUME NEW m \in Message, Write(m) PROVE Channel!Send(m)
    BY <2>1 DEF Write, Channel!Send
  <2>2. CASE Extract
    <3>1. Len(dispatched) < Len(sent) /\ dispatched' = Append(dispatched, sent[Len(dispatched) + 1])
      BY <2>2, CutsMessage DEF Extract, CutFirst
    <3>2. Channel!Deliver
      BY <2>2, <3>1 DEF Extract, peer, Channel!Deliver
    <3> QED
      BY <3>2 DEF Channel!Next
  <2>3. CASE RecvEnd
    BY <2>3 DEF RecvEnd, peer, Channel!End, Channel!Next
  <2>4. CASE Poll \/ RecvFails \/ NeedMore \/ Reset \/ UNCHANGED vars
    BY <2>4 DEF Poll, RecvFails, NeedMore, Reset, vars, peer
  <2>5. ASSUME NEW n \in 1 .. BufferSize, Recv(n) PROVE UNCHANGED Channel!vars
    BY <2>5 DEF Recv, peer
  <2>6. ASSUME NEW m \in Message, NEW n \in 0 .. Len(m), BreakOff(m, n) PROVE UNCHANGED Channel!vars
    BY <2>6 DEF BreakOff
  <2> QED
    BY <2>1, <2>2, <2>3, <2>4, <2>5, <2>6 DEF Next, process_recv_on_socket, Terminated, Channel!Next
<1> QED
  BY <1>1, <1>2, FramingInvariant, PTL DEF Spec, ImplementsMessageChannel, Channel!Spec
=============================================================================
