----------------------------- MODULE TcpFraming -----------------------------
(***************************************************************************)
(* How SIPNetwork::process_recv_on_socket cuts SIP messages out of a TCP   *)
(* stream: recv appends whatever bytes have arrived to recv_buffer, then   *)
(* every message that is complete there is cut off and dispatched.         *)
(*                                                                         *)
(* An octet is CR, LF, any other one, or the text of a whole               *)
(* Content-Length field, which counts as one octet like the rest: it is    *)
(* read only from a complete header, so where recv splits it is no matter. *)
(* A peer writes well-formed messages (each Content-Length tells the       *)
(* length of its body), may break off in the middle of one, may close.     *)
(*                                                                         *)
(* A definition whose comment begins with "Slip" is not part of the model: *)
(* it is a wrong version of the definition that follows it, put in its     *)
(* place to see that the properties tell the two apart.                    *)
(***************************************************************************)
EXTENDS Naturals, Sequences

CONSTANTS
  Octet,
  CR, LF,
  LengthField,  (* octets that stand for "Content-Length: ..."             *)
  stoul,        (* the number each of them holds, 0 if it holds none       *)
  Message,      (* what a peer may write                                   *)
  BufferSize,   (* sizeof(buffer), the most one recv returns               *)
  MaxMessages   (* bound: messages a peer writes                           *)

VARIABLES
  stream,       (* every octet the peer has written                        *)
  fin,          (* the peer has closed its end                             *)
  failed,       (* the connection is reset: recv fails                     *)
  received,     (* how many octets recv has returned                       *)
  recv_buffer,
  pc,           (* before WSAPoll, recv or the inner loop, or gone         *)
  dispatched,   (* history: arguments of dispatch_raw_message              *)
  sent,         (* history: messages the peer has written to their end     *)
  bounds        (* history: where each of them begins, and the next one    *)

peer == <<stream, fin, failed, sent, bounds>>
vars == <<peer, received, recv_buffer, pc, dispatched>>

-----------------------------------------------------------------------------
(* Message boundaries *)

Least(S) == CHOOSE x \in S : \A y \in S : x <= y

TerminatorAt(s, i) == s[i] = CR /\ s[i + 1] = LF /\ s[i + 2] = CR /\ s[i + 3] = LF

Terminators(s) == {i \in 1 .. Len(s) : i + 3 <= Len(s) /\ TerminatorAt(s, i)}

(* The length of the header, its terminator "\r\n\r\n" included.           *)
HeaderLength(s) == Least(Terminators(s)) + 3

LengthFields(s, n) == {i \in 1 .. n : s[i] \in LengthField}

(* Slip: Content-Length is looked for in the whole buffer.                 *)
ContentLengthAnywhere(s) ==
  LET fields == LengthFields(s, Len(s))
  IN  IF fields = {} THEN 0 ELSE stoul[s[Least(fields)]]

(* The first Content-Length of the header; without one the body is empty.  *)
ContentLength(s) ==
  LET fields == LengthFields(s, HeaderLength(s))
  IN  IF fields = {} THEN 0 ELSE stoul[s[Least(fields)]]

(* Slip: the four octets of the terminator are not counted.                *)
TotalNeededShort(s) == HeaderLength(s) - 4 + ContentLength(s)

TotalNeeded(s) == HeaderLength(s) + ContentLength(s)

(* Slip: a buffer that ends with the message is taken for incomplete.      *)
CompleteAndMore(s) == Terminators(s) # {} /\ Len(s) > TotalNeeded(s)

Complete(s) == Terminators(s) # {} /\ Len(s) >= TotalNeeded(s)

(* What SIP requires of a message, apart from how the code finds its end:  *)
(* a header up to the first terminator, then a body as long as the first   *)
(* Content-Length of the header says, or none.                             *)
WellFormed(m) ==
  \E n \in 4 .. Len(m) :
    /\ TerminatorAt(m, n - 3)
    /\ \A i \in 1 .. n - 4 : ~TerminatorAt(m, i)
    /\ \/ Len(m) = n /\ \A i \in 1 .. n : m[i] \notin LengthField
       \/ \E j \in 1 .. n :
            /\ m[j] \in LengthField /\ \A i \in 1 .. j - 1 : m[i] \notin LengthField
            /\ Len(m) = n + stoul[m[j]]

ASSUME TcpFramingAssumption ==
  /\ stoul \in [LengthField -> Nat]
  /\ Message \subseteq Seq(Octet)
  /\ \A m \in Message : WellFormed(m)
  /\ BufferSize \in Nat \ {0}
  /\ MaxMessages \in Nat

-----------------------------------------------------------------------------
Init ==
  /\ stream = <<>>
  /\ fin = FALSE
  /\ failed = FALSE
  /\ received = 0
  /\ recv_buffer = <<>>
  /\ pc = "poll"
  /\ dispatched = <<>>
  /\ sent = <<>>
  /\ bounds = <<0>>

Connected == ~fin /\ ~failed

Write(m) ==
  /\ Connected
  /\ Len(sent) < MaxMessages
  /\ stream' = stream \o m
  /\ sent' = Append(sent, m)
  /\ bounds' = Append(bounds, Len(stream) + Len(m))
  /\ UNCHANGED <<fin, failed, received, recv_buffer, pc, dispatched>>

(* The peer dies n octets into a message, and its kernel closes.           *)
BreakOff(m, n) ==
  /\ Connected
  /\ n < Len(m)
  /\ stream' = stream \o SubSeq(m, 1, n)
  /\ fin' = TRUE
  /\ UNCHANGED <<failed, received, recv_buffer, pc, dispatched, sent, bounds>>

Reset ==
  /\ ~failed
  /\ pc # "closed"
  /\ failed' = TRUE
  /\ UNCHANGED <<stream, fin, received, recv_buffer, pc, dispatched, sent, bounds>>

-----------------------------------------------------------------------------
(* The network thread *)

Poll ==
  /\ pc = "poll"
  /\ received < Len(stream) \/ fin \/ failed
  /\ pc' = "recv"
  /\ UNCHANGED <<peer, received, recv_buffer, dispatched>>

(* Slip: append(buffer, sizeof(buffer)).                                   *)
RecvWholeBuffer(n) ==
  /\ pc = "recv"
  /\ ~failed
  /\ received + n <= Len(stream)
  /\ recv_buffer' = recv_buffer \o
       [i \in 1 .. BufferSize |-> IF i <= n THEN stream[received + i] ELSE LF]
  /\ received' = received + BufferSize
  /\ pc' = "extract"
  /\ UNCHANGED <<peer, dispatched>>

Recv(n) ==
  /\ pc = "recv"
  /\ ~failed
  /\ received + n <= Len(stream)
  /\ recv_buffer' = recv_buffer \o SubSeq(stream, received + 1, received + n)
  /\ received' = received + n
  /\ pc' = "extract"
  /\ UNCHANGED <<peer, dispatched>>

(* rec < 0: the entry and its buffer stay, and are polled again.           *)
RecvFails ==
  /\ pc = "recv"
  /\ failed
  /\ pc' = "poll"
  /\ UNCHANGED <<peer, received, recv_buffer, dispatched>>

(* rec == 0: the entry is erased, with what its buffer still holds.        *)
RecvEnd ==
  /\ pc = "recv"
  /\ ~failed
  /\ fin
  /\ received = Len(stream)
  /\ recv_buffer' = <<>>
  /\ pc' = "closed"
  /\ UNCHANGED <<peer, received, dispatched>>

CutFirst ==
  LET total == TotalNeeded(recv_buffer)
  IN  /\ dispatched' = Append(dispatched, SubSeq(recv_buffer, 1, total))
      /\ recv_buffer' = SubSeq(recv_buffer, total + 1, Len(recv_buffer))

(* Slip: if instead of while, one message per recv.                        *)
ExtractOnce ==
  /\ pc = "extract"
  /\ Complete(recv_buffer)
  /\ CutFirst
  /\ pc' = "recv"
  /\ UNCHANGED <<peer, received>>

(* One round of the inner loop: cut the first message off and dispatch it. *)
Extract ==
  /\ pc = "extract"
  /\ Complete(recv_buffer)
  /\ CutFirst
  /\ UNCHANGED <<peer, received, pc>>

NeedMore ==
  /\ pc = "extract"
  /\ ~Complete(recv_buffer)
  /\ pc' = "recv"
  /\ UNCHANGED <<peer, received, recv_buffer, dispatched>>

process_recv_on_socket ==
  \/ Poll
  \/ \E n \in 1 .. BufferSize : Recv(n)
  \/ RecvFails
  \/ RecvEnd
  \/ Extract
  \/ NeedMore

Terminated == pc = "closed" /\ UNCHANGED vars

Next ==
  \/ \E m \in Message : Write(m)
  \/ \E m \in Message : \E n \in 0 .. Len(m) : BreakOff(m, n)
  \/ Reset
  \/ process_recv_on_socket
  \/ Terminated

Spec == Init /\ [][Next]_vars

(* The network thread is scheduled and the network delivers what was sent, *)
(* unless the connection is reset. The peer owes nothing.                  *)
FairSpec == Spec /\ WF_vars(process_recv_on_socket)

-----------------------------------------------------------------------------
(* Properties *)

TypeOK ==
  /\ stream \in Seq(Octet)
  /\ fin \in BOOLEAN
  /\ failed \in BOOLEAN
  /\ received \in 0 .. Len(stream)
  /\ recv_buffer \in Seq(Octet)
  /\ pc \in {"poll", "recv", "extract", "closed"}
  /\ dispatched \in Seq(Seq(Octet))
  /\ sent \in Seq(Message)
  /\ bounds \in Seq(Nat)
  /\ Len(bounds) = Len(sent) + 1

(* Where the first message not yet dispatched begins in the stream.        *)
Consumed == bounds[Len(dispatched) + 1]

(* However the network splits or joins what the peer writes, no octet is   *)
(* lost, repeated or moved: what was dispatched are the first messages     *)
(* sent, and the buffer of an open connection is everything received after *)
(* them.                                                                   *)
FramingExact ==
  /\ Len(dispatched) <= Len(sent)
  /\ \A k \in 1 .. Len(dispatched) : dispatched[k] = sent[k]
  /\ Consumed <= received
  /\ pc # "closed" => recv_buffer = SubSeq(stream, Consumed + 1, received)

(* A message that has been received to its end never waits for more octets *)
(* to arrive: outside the inner loop the next message is still incomplete, *)
(* and when the end of the stream is seen, every message written to its    *)
(* end has been dispatched, and nothing of one that was broken off.        *)
NothingCompleteHeld ==
  /\ pc \in {"poll", "recv"} /\ Len(dispatched) < Len(sent) => received < bounds[Len(dispatched) + 2]
  /\ pc = "closed" => dispatched = sent

(* A message written to its end is dispatched unless the connection is     *)
(* reset.                                                                  *)
EveryMessageArrives ==
  \A k \in 1 .. MaxMessages : Len(sent) >= k ~> (Len(dispatched) >= k \/ failed)

(* Above recv_buffer the connection is a channel of whole messages.        *)
Channel == INSTANCE MessageChannel WITH
  delivered <- dispatched,
  ended <- pc = "closed"

ImplementsMessageChannel == Channel!Spec
=============================================================================
