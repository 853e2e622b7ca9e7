---------------------------- MODULE OneShotTimer ----------------------------
(***************************************************************************)
(* What a timer service promises its users, whatever its threads do: a job *)
(* is delivered at most once, a job that was removed while pending is      *)
(* never delivered, and once the service is closed nothing is delivered.   *)
(***************************************************************************)
CONSTANT Ids

VARIABLES
  issued,     (* identifiers handed out so far     *)
  pending,    (* jobs neither delivered nor removed *)
  delivered,  (* jobs delivered                     *)
  closed

vars == <<issued, pending, delivered, closed>>

Init ==
  /\ issued = {}
  /\ pending = {}
  /\ delivered = {}
  /\ closed = FALSE

Add(i) ==
  /\ ~closed
  /\ i \notin issued
  /\ issued' = issued \cup {i}
  /\ pending' = pending \cup {i}
  /\ UNCHANGED <<delivered, closed>>

Remove(i) ==
  /\ i \in pending
  /\ pending' = pending \ {i}
  /\ UNCHANGED <<issued, delivered, closed>>

Deliver(i) ==
  /\ ~closed
  /\ i \in pending
  /\ pending' = pending \ {i}
  /\ delivered' = delivered \cup {i}
  /\ UNCHANGED <<issued, closed>>

Close ==
  /\ ~closed
  /\ closed' = TRUE
  /\ UNCHANGED <<issued, pending, delivered>>

Next == Close \/ \E i \in Ids : Add(i) \/ Remove(i) \/ Deliver(i)

Spec == Init /\ [][Next]_vars
=============================================================================
