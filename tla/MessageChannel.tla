--------------------------- MODULE MessageChannel ---------------------------
(***************************************************************************)
(* What a transport promises above a byte stream: the messages that one    *)
(* side wrote come out whole, in the order they were written, each once,   *)
(* until the connection ends; then a tail of them may be missing.          *)
(***************************************************************************)
EXTENDS Naturals, Sequences

CONSTANT Message

VARIABLES
  sent,        (* every message written so far   *)
  delivered,   (* every message handed on so far *)
  ended        (* the connection is over         *)

vars == <<sent, delivered, ended>>

Init ==
  /\ sent = <<>>
  /\ delivered = <<>>
  /\ ended = FALSE

Send(m) ==
  /\ sent' = Append(sent, m)
  /\ UNCHANGED <<delivered, ended>>

Deliver ==
  /\ ~ended
  /\ Len(delivered) < Len(sent)
  /\ delivered' = Append(delivered, sent[Len(delivered) + 1])
  /\ UNCHANGED <<sent, ended>>

End ==
  /\ ~ended
  /\ ended' = TRUE
  /\ UNCHANGED <<sent, delivered>>

Next == Deliver \/ End \/ \E m \in Message : Send(m)

Spec == Init /\ [][Next]_vars
=============================================================================
