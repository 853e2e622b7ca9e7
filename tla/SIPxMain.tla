------------------------------ MODULE SIPxMain ------------------------------
(***************************************************************************)
(* The program main.cpp: two threads on one EventDispatcher. The main      *)
(* thread makes a SIPTimer, whose worker thread starts at once, makes a    *)
(* SIPParser, schedules TIME_TO_REGISTER a second ahead, sleeps for a      *)
(* second and a half and returns, which destroys the parser and then the   *)
(* timer. Both threads register with the dispatcher, which has no lock,    *)
(* and the worker calls the parser through a pointer.                      *)
(*                                                                         *)
(* The timer's own steps are the actions of SIPTimer. One instant of the   *)
(* clock stands for half a second.                                         *)
(*                                                                         *)
(* A definition whose comment begins with "Slip" is not part of the model: *)
(* it is a wrong version of the definition that follows it, put in its     *)
(* place to see that the properties tell the two apart.                    *)
(***************************************************************************)
EXTENDS Naturals, Sequences

CONSTANTS
  MaxTime,      (* bound: last instant of steady_clock                     *)
  MaxSpurious,  (* bound: spurious wake-ups of the condition variable      *)
  MaxDelay      (* bound: last instant before main sleeps; no instant      *)
                (* before schedule_after matters to anything               *)

(* schedule_after(1000 ms) and sleep_for(1500 ms).                         *)
Delay == 2
Nap == 3

ASSUME SIPxMainAssumption ==
  /\ MaxSpurious \in Nat
  /\ MaxDelay \in Nat
  /\ MaxTime \in Nat
  /\ MaxTime >= MaxDelay + Nap

VARIABLES
  now, m_jobs, m_next_id, m_running, run_pc, deadline, signalled, dtor,
  spurious, fired, cancelled,
  listeners,    (* EventDispatcher::listeners                              *)
  slot,         (* where a push_back under way will write; 0: none is      *)
  overlapped,   (* history: two calls of push_back overlapped              *)
  main_pc,
  wake_at,      (* when main's sleep ends                                  *)
  loop,         (* the listener dispatch comes to next                     *)
  called,       (* history: the listeners whose on_event was called        *)
  behind,       (* history: an instant passed while the worker could run   *)
  undefined     (* the vector is torn, or a destroyed listener was called  *)

Timer == INSTANCE SIPTimer WITH MaxJobs <- 1

timer_vars == <<now, m_jobs, m_next_id, m_running, run_pc, deadline, signalled, dtor,
                spurious, fired, cancelled>>
main_vars == <<main_pc, wake_at>>
dispatcher_vars == <<listeners, slot, overlapped, loop, called>>
vars == <<timer_vars, main_vars, dispatcher_vars, behind, undefined>>

Thread == {"main", "worker"}

(* Locations of main: about to construct the parser, in the push_back of   *)
(* its constructor, then before and in each call; the parser is gone once  *)
(* main leaves its scope.                                                  *)
MainPC == {"construct", "register", "schedule", "sleep", "sleeping", "leave", "returned"}

ParserAlive == main_pc \notin {"leave", "returned"}

Init ==
  /\ Timer!Init
  /\ listeners = <<>>
  /\ slot = [t \in Thread |-> 0]
  /\ overlapped = FALSE
  /\ main_pc = "construct"
  /\ wake_at = 0
  /\ loop = 1
  /\ called = <<>>
  /\ behind = FALSE
  /\ undefined = FALSE

-----------------------------------------------------------------------------
(* register_listener: push_back reads the end of the vector, and later     *)
(* writes there and moves the end.                                         *)

PushBackReads(t) ==
  /\ slot' = [slot EXCEPT ![t] = Len(listeners) + 1]
  /\ overlapped' = (overlapped \/ \E u \in Thread \ {t} : slot[u] # 0)
  /\ UNCHANGED <<listeners, loop, called>>

(* Slip: the vector is assigned to.                                        *)
PushBackAssigns(t, l) ==
  /\ slot[t] # 0
  /\ listeners' = <<l>>
  /\ slot' = [slot EXCEPT ![t] = 0]
  /\ UNCHANGED <<overlapped, loop, called>>

PushBackWrites(t, l) ==
  /\ slot[t] # 0
  /\ listeners' = Append(SubSeq(listeners, 1, slot[t] - 1), l)
  /\ slot' = [slot EXCEPT ![t] = 0]
  /\ UNCHANGED <<overlapped, loop, called>>

(* Two writes at once leave the vector's pointers torn: begin of one array *)
(* and end of another.                                                     *)
PushBacksCollide ==
  /\ \A t \in Thread : slot[t] # 0
  /\ undefined' = TRUE
  /\ UNCHANGED <<timer_vars, main_vars, dispatcher_vars, behind>>

-----------------------------------------------------------------------------
(* The main thread *)

ConstructParser ==
  /\ main_pc = "construct"
  /\ PushBackReads("main")
  /\ main_pc' = "register"
  /\ UNCHANGED <<timer_vars, wake_at, behind, undefined>>

RegisterParser ==
  /\ main_pc = "register"
  /\ PushBackWrites("main", "parser")
  /\ main_pc' = "schedule"
  /\ UNCHANGED <<timer_vars, wake_at, behind, undefined>>

schedule_after ==
  /\ main_pc = "schedule"
  /\ Timer!schedule_at(now + Delay)
  /\ main_pc' = "sleep"
  /\ UNCHANGED <<wake_at, dispatcher_vars, behind, undefined>>

(* Slip: the two times swapped.                                            *)
SleepsForDelay ==
  /\ main_pc = "sleep"
  /\ wake_at' = now + Delay
  /\ main_pc' = "sleeping"
  /\ UNCHANGED <<timer_vars, dispatcher_vars, behind, undefined>>

sleep_for ==
  /\ main_pc = "sleep"
  /\ wake_at' = now + Nap
  /\ main_pc' = "sleeping"
  /\ UNCHANGED <<timer_vars, dispatcher_vars, behind, undefined>>

(* The sleep is over, nothing is in the try block, and ~SIPParser runs.    *)
Leave ==
  /\ main_pc = "sleeping"
  /\ now >= wake_at
  /\ main_pc' = "leave"
  /\ UNCHANGED <<timer_vars, wake_at, dispatcher_vars, behind, undefined>>

(* ~SIPTimer, and main returns.                                            *)
DestroyTimer ==
  /\ main_pc = "leave"
  /\ Timer!RequestStop \/ Timer!NotifyStop \/ Timer!Join
  /\ main_pc' = IF dtor' = "done" THEN "returned" ELSE "leave"
  /\ UNCHANGED <<wake_at, dispatcher_vars, behind, undefined>>

main ==
  \/ ConstructParser
  \/ RegisterParser
  \/ schedule_after
  \/ sleep_for
  \/ Leave
  \/ DestroyTimer

-----------------------------------------------------------------------------
(* The timer's worker thread *)

(* The first line of run registers the timer itself.                       *)
StartRegistering ==
  /\ run_pc = "start"
  /\ slot["worker"] = 0
  /\ PushBackReads("worker")
  /\ UNCHANGED <<timer_vars, main_vars, behind, undefined>>

RegisterTimer ==
  /\ PushBackWrites("worker", "timer")
  /\ Timer!Enter
  /\ UNCHANGED <<main_vars, behind, undefined>>

RunLoop ==
  /\ \/ Timer!CheckRunning
     \/ Timer!ParkIdle
     \/ Timer!ParkUntil
     \/ Timer!WakeSignalled
     \/ Timer!WakeTimeout
  /\ UNCHANGED <<main_vars, dispatcher_vars, behind, undefined>>

(* Slip: the handlers get the event in turn, and in turn again.            *)
CallListenerForEver ==
  /\ run_pc = "dispatch"
  /\ loop <= Len(listeners)
  /\ called' = Append(SelectSeq(called, LAMBDA l : l # listeners[loop]), listeners[loop])
  /\ loop' = (loop % Len(listeners)) + 1
  /\ UNCHANGED <<timer_vars, main_vars, listeners, slot, overlapped, behind, undefined>>

(* Slip: the loop takes every other listener.                              *)
CallEveryOther ==
  /\ run_pc = "dispatch"
  /\ loop <= Len(listeners)
  /\ listeners[loop] = "parser" => ParserAlive
  /\ called' = Append(called, listeners[loop])
  /\ loop' = loop + 2
  /\ UNCHANGED <<timer_vars, main_vars, listeners, slot, overlapped, behind, undefined>>

(* Neither handler changes any state for this event.                       *)
CallListener ==
  /\ run_pc = "dispatch"
  /\ loop <= Len(listeners)
  /\ listeners[loop] = "parser" => ParserAlive
  /\ called' = Append(called, listeners[loop])
  /\ loop' = loop + 1
  /\ UNCHANGED <<timer_vars, main_vars, listeners, slot, overlapped, behind, undefined>>

(* The parser never leaves the list.                                       *)
CallDestroyed ==
  /\ run_pc = "dispatch"
  /\ loop <= Len(listeners)
  /\ listeners[loop] = "parser"
  /\ ~ParserAlive
  /\ undefined' = TRUE
  /\ UNCHANGED <<timer_vars, main_vars, dispatcher_vars, behind>>

(* Slip: the next dispatch starts a place too early.                       *)
DispatchEndsAtZero ==
  /\ loop > Len(listeners)
  /\ Timer!FinishDispatch
  /\ loop' = 0
  /\ UNCHANGED <<main_vars, listeners, slot, overlapped, called, behind, undefined>>

DispatchEnds ==
  /\ loop > Len(listeners)
  /\ Timer!FinishDispatch
  /\ loop' = 1
  /\ UNCHANGED <<main_vars, listeners, slot, overlapped, called, behind, undefined>>

worker ==
  \/ StartRegistering
  \/ RegisterTimer
  \/ RunLoop
  \/ CallListener
  \/ CallDestroyed
  \/ DispatchEnds

-----------------------------------------------------------------------------
(* The C++ library and the clock *)

SpuriousWakeup ==
  /\ Timer!SpuriousWakeup
  /\ UNCHANGED <<main_vars, dispatcher_vars, behind, undefined>>

(* The worker has nothing to do before the clock or another thread moves.  *)
WorkerIdle ==
  \/ run_pc = "exited"
  \/ Timer!Parked /\ ~signalled /\ (run_pc = "timed_waiting" => now < deadline)

Tick ==
  /\ main_pc \in {"sleeping", "leave", "returned"} \/ now < MaxDelay
  /\ Timer!Tick
  /\ behind' = (behind \/ ~WorkerIdle)
  /\ UNCHANGED <<main_vars, dispatcher_vars, undefined>>

Terminated ==
  /\ undefined \/ main_pc = "returned"
  /\ UNCHANGED vars

Next ==
  \/ /\ ~undefined
     /\ main \/ worker \/ PushBacksCollide \/ SpuriousWakeup \/ Tick
  \/ Terminated

Spec == Init /\ [][Next]_vars

(* Both threads are scheduled, handlers return, and the clock advances.    *)
FairSpec ==
  /\ Spec
  /\ WF_vars(~undefined /\ main)
  /\ WF_vars(~undefined /\ worker)
  /\ WF_vars(~undefined /\ Tick)

-----------------------------------------------------------------------------
(* Properties *)

TypeOK ==
  /\ Timer!TypeOK
  /\ listeners \in Seq({"parser", "timer"})
  /\ slot \in [Thread -> 0 .. 2]
  /\ overlapped \in BOOLEAN
  /\ main_pc \in MainPC
  /\ wake_at \in Timer!Time
  /\ loop \in Nat \ {0}
  /\ called \in Seq({"parser", "timer"})
  /\ behind \in BOOLEAN
  /\ undefined \in BOOLEAN

Listening(l) == \E i \in DOMAIN listeners : listeners[i] = l

(* Both constructors' registrations are kept, each once, unless the two    *)
(* calls of push_back overlapped; and even then one of them is kept. The   *)
(* list does not change any more once an event has been scheduled and the  *)
(* worker is past its first line, so no dispatch runs over a moving list.  *)
LostOnlyByOverlap ==
  /\ main_pc \notin {"construct", "register"} => Listening("parser") \/ overlapped
  /\ run_pc # "start" => Listening("timer") \/ overlapped
  /\ Len(listeners) <= 2
  /\ main_pc \notin {"construct", "register"} /\ run_pc # "start" => Len(listeners) >= 1
  /\ run_pc = "dispatch" => slot = [t \in Thread |-> 0]

(* The only other way into undefined behaviour is a worker that is late: a *)
(* destroyed parser is called only if the clock passed an instant, half a  *)
(* second, at which the worker could have run and did not.                 *)
UndefinedOnlyByRaces == undefined => overlapped \/ behind

(* Every registered listener gets the event at most once, in the order of  *)
(* registration; when main leaves, all have, if the worker kept up.        *)
DeliveredOnce ==
  /\ called = SubSeq(listeners, 1, Len(called)) /\ Len(called) <= Len(listeners)
  /\ ~ParserAlive /\ ~behind => called = listeners

(* In this program nobody cancels a job, so the defect of SIPTimer that    *)
(* cancel brings about does not show: no event comes before its second has *)
(* passed.                                                                 *)
NeverEarly == Timer!NeverEarly

(* main's return from sleep_for is followed by its return, or by undefined *)
(* behaviour: a worker in the middle of a dispatch, asleep or not even     *)
(* started does not keep ~SIPTimer waiting for ever.                       *)
MainReturns == <>(main_pc = "returned" \/ undefined)

(* "allowing any number of EventHandler instances to register themselves   *)
(* and receive Event objects": when the event is dispatched, both modules  *)
(* that registered are in the list.                                        *)
EveryRegistrationKept ==
  run_pc = "dispatch" => Listening("parser") /\ Listening("timer")
=============================================================================
