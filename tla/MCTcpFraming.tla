---------------------------- MODULE MCTcpFraming ----------------------------
(***************************************************************************)
(* Messages for TLC: the shapes that a search for the terminator and for   *)
(* Content-Length could confuse.                                           *)
(***************************************************************************)
EXTENDS TcpFraming, TLC

CONSTANTS x, L1, L4, Lbad

MCstoul == L1 :> 1 @@ L4 :> 4 @@ Lbad :> 0

(* No Content-Length and no body.                                          *)
Bare == <<x, CR, LF, CR, LF>>

(* A body that looks like the end of a header.                             *)
BodyTerminator == <<x, CR, LF, L4, CR, LF, CR, LF, CR, LF, CR, LF>>

(* A body that holds the text of a Content-Length field.                   *)
BodyField == <<L1, CR, LF, CR, LF, L4>>

(* A Content-Length that is no number.                                     *)
BadField == <<Lbad, CR, LF, CR, LF>>

MCMessage == {Bare, BodyTerminator, BodyField, BadField}
=============================================================================
