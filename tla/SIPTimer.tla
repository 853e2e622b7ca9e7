------------------------------ MODULE SIPTimer ------------------------------
(***************************************************************************)
(* The one-shot timer of eventhandler/SIPTimer.cpp: client threads put     *)
(* jobs into a priority queue, a worker thread sleeps on a condition       *)
(* variable until the earliest job is due and dispatches its event.        *)
(*                                                                         *)
(* Every member function of the class runs under m_mutex from its first    *)
(* line to its last, so a call is one action that needs the mutex free.    *)
(* The worker is split where another thread can see or change something:   *)
(* between the test of m_running and the wait (both under the mutex),      *)
(* while it is parked, and while it dispatches with the mutex released.    *)
(*                                                                         *)
(* A definition whose comment begins with "Slip" is not part of the model: *)
(* it is a wrong version of the definition that follows it, put in its     *)
(* place to see that the properties tell the two apart.                    *)
(***************************************************************************)
EXTENDS Naturals

CONSTANTS
  MaxJobs,      (* bound: calls of schedule_at                             *)
  MaxTime,      (* bound: last instant of steady_clock                     *)
  MaxSpurious   (* bound: spurious wake-ups of the condition variable      *)

ASSUME SIPTimerAssumption ==
  /\ MaxJobs \in Nat
  /\ MaxTime \in Nat
  /\ MaxSpurious \in Nat

VARIABLES
  now,          (* steady_clock                                            *)
  m_jobs,       (* the priority queue, a set of [id, fire_at]              *)
  m_next_id,
  m_running,
  run_pc,       (* where the worker thread is in SIPTimer::run             *)
  deadline,     (* next_time of the wait_until the worker is parked in     *)
  signalled,    (* the parked worker has been notified or woken spuriously *)
  dtor,         (* progress of ~SIPTimer                                   *)
  spurious,     (* spurious wake-ups so far                                *)
  fired,        (* history: jobs popped for dispatch                       *)
  cancelled     (* history: jobs removed by cancel                         *)

vars == <<now, m_jobs, m_next_id, m_running, run_pc, deadline, signalled,
          dtor, spurious, fired, cancelled>>

Time == 0 .. MaxTime
Job == [id : 1 .. MaxJobs, fire_at : Time]

(* A job as it left the queue: when, and whether the stop was already      *)
(* requested.                                                              *)
Firing == [id : 1 .. MaxJobs, fire_at : Time, at : Time, late : BOOLEAN]

(* Locations of the worker: before the loop, testing m_running, choosing   *)
(* how to wait, parked in wait or in wait_until, in dispatch, returned, or *)
(* past an undefined top() of an empty queue.                              *)
RunPC == {"start", "check", "choose", "waiting", "timed_waiting",
          "dispatch", "exited", "undefined"}

Parked == run_pc \in {"waiting", "timed_waiting"}

(* Slip: members that do not take the lock.                                *)
NoMutex == TRUE

(* The worker holds m_mutex exactly while it tests and chooses.            *)
MutexFree == run_pc \notin {"check", "choose"}

(* Public members are called by owners of the timer until its destruction  *)
(* begins, and by event handlers from inside the worker's own dispatch.    *)
MayCall == dtor = "none" \/ run_pc = "dispatch"

(* Slip: nobody notifies.                                                  *)
NotifyNobody == UNCHANGED signalled

(* notify_one: only a worker that is parked hears it.                      *)
NotifyOne == signalled' = (signalled \/ Parked)

(* Slip: m_next_id left to be zero-initialised.                            *)
InitIdsFromZero ==
  /\ now = 0 /\ m_jobs = {} /\ m_next_id = 0 /\ m_running = TRUE
  /\ run_pc = "start" /\ deadline = 0 /\ signalled = FALSE /\ dtor = "none"
  /\ spurious = 0 /\ fired = {} /\ cancelled = {}

Init ==
  /\ now = 0
  /\ m_jobs = {}
  /\ m_next_id = 1
  /\ m_running = TRUE
  /\ run_pc = "start"
  /\ deadline = 0
  /\ signalled = FALSE
  /\ dtor = "none"
  /\ spurious = 0
  /\ fired = {}
  /\ cancelled = {}

-----------------------------------------------------------------------------
(* Clients *)

schedule_at(time) ==
  /\ MayCall
  /\ MutexFree
  /\ m_next_id <= MaxJobs
  /\ m_jobs' = m_jobs \cup {[id |-> m_next_id, fire_at |-> time]}
  /\ m_next_id' = m_next_id + 1
  /\ NotifyOne
  /\ UNCHANGED <<now, m_running, run_pc, deadline, dtor, spurious, fired, cancelled>>

(* cancel rebuilds the queue without the job and notifies nobody.          *)
cancel(id) ==
  /\ MayCall
  /\ MutexFree
  /\ m_jobs' = {j \in m_jobs : j.id # id}
  /\ cancelled' = cancelled \cup {j \in m_jobs : j.id = id}
  /\ UNCHANGED <<now, m_next_id, m_running, run_pc, deadline, signalled, dtor, spurious, fired>>

(* ~SIPTimer: clear the flag under the mutex, notify without it, join.     *)
RequestStop ==
  /\ dtor = "none"
  /\ MutexFree
  /\ m_running' = FALSE
  /\ dtor' = "notify"
  /\ UNCHANGED <<now, m_jobs, m_next_id, run_pc, deadline, signalled, spurious, fired, cancelled>>

NotifyStop ==
  /\ dtor = "notify"
  /\ NotifyOne
  /\ dtor' = "join"
  /\ UNCHANGED <<now, m_jobs, m_next_id, m_running, run_pc, deadline, spurious, fired, cancelled>>

(* Slip: detach instead of join.                                           *)
JoinDetached ==
  /\ dtor = "join"
  /\ dtor' = "done"
  /\ UNCHANGED <<now, m_jobs, m_next_id, m_running, run_pc, deadline, signalled, spurious, fired, cancelled>>

Join ==
  /\ dtor = "join"
  /\ run_pc = "exited"
  /\ dtor' = "done"
  /\ UNCHANGED <<now, m_jobs, m_next_id, m_running, run_pc, deadline, signalled, spurious, fired, cancelled>>

-----------------------------------------------------------------------------
(* The worker thread *)

(* The prologue of run: enter the listener list, take the mutex.           *)
Enter ==
  /\ run_pc = "start"
  /\ run_pc' = "check"
  /\ UNCHANGED <<now, m_jobs, m_next_id, m_running, deadline, signalled, dtor, spurious, fired, cancelled>>

(* Slip: while (m_running || !m_jobs.empty()).                             *)
CheckDrained ==
  /\ run_pc = "check"
  /\ run_pc' = IF m_running \/ m_jobs # {} THEN "choose" ELSE "exited"
  /\ UNCHANGED <<now, m_jobs, m_next_id, m_running, deadline, signalled, dtor, spurious, fired, cancelled>>

(* while (m_running)                                                       *)
CheckRunning ==
  /\ run_pc = "check"
  /\ run_pc' = IF m_running THEN "choose" ELSE "exited"
  /\ UNCHANGED <<now, m_jobs, m_next_id, m_running, deadline, signalled, dtor, spurious, fired, cancelled>>

(* Releasing the mutex and parking is one atomic step of the wait.         *)
ParkIdle ==
  /\ run_pc = "choose"
  /\ m_jobs = {}
  /\ run_pc' = "waiting"
  /\ signalled' = FALSE
  /\ UNCHANGED <<now, m_jobs, m_next_id, m_running, deadline, dtor, spurious, fired, cancelled>>

(* Slip: a Compare the wrong way round.                                    *)
TopLatest(j) == j \in m_jobs /\ \A k \in m_jobs : j.fire_at >= k.fire_at

(* top() of the queue: a job no other job precedes; ties in any order.     *)
Top(j) == j \in m_jobs /\ \A k \in m_jobs : j.fire_at <= k.fire_at

ParkUntil ==
  /\ run_pc = "choose"
  /\ \E j \in m_jobs : Top(j) /\ deadline' = j.fire_at
  /\ run_pc' = "timed_waiting"
  /\ signalled' = FALSE
  /\ UNCHANGED <<now, m_jobs, m_next_id, m_running, dtor, spurious, fired, cancelled>>

(* A wait that returns without a timeout goes round the loop. The mutex is *)
(* taken again before the wait returns.                                    *)
WakeSignalled ==
  /\ Parked
  /\ signalled
  /\ run_pc' = "check"
  /\ UNCHANGED <<now, m_jobs, m_next_id, m_running, deadline, signalled, dtor, spurious, fired, cancelled>>

(* Slip: wake-ups of every kind are taken for the timeout.                 *)
TimedOutOrWoken ==
  /\ run_pc = "timed_waiting"
  /\ now >= deadline \/ signalled
  /\ UNCHANGED <<now, m_next_id, m_running, deadline, signalled, dtor, spurious, cancelled>>

(* wait_until times out: the deadline it was given has passed, also when a *)
(* notification came too. The queue is read as it is now, not as it was    *)
(* when the wait began; m_running is not read again.                       *)
TimedOut ==
  /\ run_pc = "timed_waiting"
  /\ now >= deadline
  /\ UNCHANGED <<now, m_next_id, m_running, deadline, signalled, dtor, spurious, cancelled>>

(* Slip: top() without pop().                                              *)
WakeTimeoutNoPop ==
  /\ TimedOut
  /\ \E j \in m_jobs :
       /\ Top(j)
       /\ fired' = fired \cup
            {[id |-> j.id, fire_at |-> j.fire_at, at |-> now, late |-> ~m_running]}
  /\ run_pc' = "dispatch"
  /\ UNCHANGED m_jobs

WakeTimeout ==
  /\ TimedOut
  /\ \E j \in m_jobs :
       /\ Top(j)
       /\ m_jobs' = m_jobs \ {j}
       /\ fired' = fired \cup
            {[id |-> j.id, fire_at |-> j.fire_at, at |-> now, late |-> ~m_running]}
  /\ run_pc' = "dispatch"

(* top() and pop() of an empty priority_queue are undefined.               *)
WakeTimeoutEmpty ==
  /\ TimedOut
  /\ m_jobs = {}
  /\ run_pc' = "undefined"
  /\ UNCHANGED <<m_jobs, fired>>

(* The handlers have returned; lock() again and go round the loop.         *)
FinishDispatch ==
  /\ run_pc = "dispatch"
  /\ run_pc' = "check"
  /\ UNCHANGED <<now, m_jobs, m_next_id, m_running, deadline, signalled, dtor, spurious, fired, cancelled>>

run == \/ Enter
       \/ CheckRunning
       \/ ParkIdle
       \/ ParkUntil
       \/ WakeSignalled
       \/ WakeTimeout
       \/ WakeTimeoutEmpty
       \/ FinishDispatch

-----------------------------------------------------------------------------
(* The C++ library and the clock *)

SpuriousWakeup ==
  /\ Parked
  /\ ~signalled
  /\ spurious < MaxSpurious
  /\ spurious' = spurious + 1
  /\ signalled' = TRUE
  /\ UNCHANGED <<now, m_jobs, m_next_id, m_running, run_pc, deadline, dtor, fired, cancelled>>

Tick ==
  /\ now < MaxTime
  /\ now' = now + 1
  /\ UNCHANGED <<m_jobs, m_next_id, m_running, run_pc, deadline, signalled, dtor, spurious, fired, cancelled>>

(* The timer is gone, or its worker is beyond what C++ defines.            *)
Ended == dtor = "done" \/ run_pc = "undefined"

Terminated == Ended /\ UNCHANGED vars

Next ==
  \/ \E time \in Time : schedule_at(time)
  \/ \E id \in 1 .. MaxJobs : cancel(id)
  \/ RequestStop
  \/ NotifyStop
  \/ Join
  \/ run
  \/ SpuriousWakeup
  \/ Tick
  \/ Terminated

Spec == Init /\ [][Next]_vars

(* The worker and a destructor under way are scheduled by the operating    *)
(* system and handlers return; the clock advances. Nothing obliges a       *)
(* client to call anything.                                                *)
Fairness ==
  /\ WF_vars(run)
  /\ WF_vars(NotifyStop)
  /\ WF_vars(Join)
  /\ WF_vars(Tick)

FairSpec == Spec /\ Fairness
-----------------------------------------------------------------------------
(* Properties *)

TypeOK ==
  /\ now \in Time
  /\ m_jobs \subseteq Job
  /\ m_next_id \in 1 .. MaxJobs + 1
  /\ m_running \in BOOLEAN
  /\ run_pc \in RunPC
  /\ deadline \in Time
  /\ signalled \in BOOLEAN
  /\ dtor \in {"none", "notify", "join", "done"}
  /\ spurious \in 0 .. MaxSpurious
  /\ fired \subseteq Firing
  /\ cancelled \subseteq Job

JobIds == {j.id : j \in m_jobs}
FiredIds == {f.id : f \in fired}
CancelledIds == {c.id : c \in cancelled}

(* Every identifier schedule_at has returned belongs to exactly one of:    *)
(* the queue, the jobs dispatched, the jobs cancelled; and to one job      *)
(* there. So no interleaving of schedule_at, cancel and the worker loses   *)
(* a job, dispatches one twice, or dispatches one that cancel removed.     *)
JobAccounting ==
  /\ JobIds \cup FiredIds \cup CancelledIds = 1 .. m_next_id - 1
  /\ JobIds \cap FiredIds = {}
  /\ JobIds \cap CancelledIds = {}
  /\ FiredIds \cap CancelledIds = {}
  /\ \A j, k \in m_jobs : j.id = k.id => j = k

(* No lost wake-up. A worker that sleeps with no notification on its way   *)
(* has nothing to miss: nobody has stopped the timer (or the destructor    *)
(* has yet to notify), an unbounded wait means an empty queue, and a       *)
(* bounded wait ends no later than the earliest job.                       *)
NoOversleep ==
  Parked /\ ~signalled =>
    /\ m_running \/ dtor = "notify"
    /\ run_pc = "waiting" => m_jobs = {}
    /\ run_pc = "timed_waiting" => \A j \in m_jobs : deadline <= j.fire_at

(* The worker pops whatever is on top when a wait times out. It pops a job *)
(* before its fire_at, or pops an empty queue, only when a job was         *)
(* cancelled whose own fire_at has been reached: without cancel no job is  *)
(* ever early and the queue is never popped empty.                         *)
EarlyOnlyAfterCancel ==
  /\ \A f \in fired :
       f.at < f.fire_at => \E c \in cancelled : c.fire_at <= f.at
  /\ run_pc = "undefined" => \E c \in cancelled : c.fire_at <= now

(* m_running is read once per round of the loop, not after a timeout: a    *)
(* job may still be dispatched after ~SIPTimer cleared it, but never two.  *)
AtMostOneLateFiring ==
  \A f, g \in fired : f.late /\ g.late => f = g

(* schedule_at(time) keeps its parameter as TimerJob::fire_at: the job is  *)
(* not dispatched before that instant.                                     *)
NeverEarly == \A f \in fired : f.at >= f.fire_at

(* The destructor always returns: its notification reaches the worker      *)
(* wherever it is, and the worker leaves the loop.                         *)
DestructorReturns == dtor = "notify" ~> Ended

(* A scheduled job does not stay in the queue for ever while the timer     *)
(* runs.                                                                   *)
DueJobsLeaveQueue ==
  \A i \in 1 .. MaxJobs : i \in JobIds ~> (i \notin JobIds \/ ~m_running \/ Ended)

(* The class as a one-shot timer service: pending is the queue, delivered  *)
(* is what the worker popped, closed is the return of the destructor.      *)
Abstract == INSTANCE OneShotTimer WITH
  Ids <- 1 .. MaxJobs,
  issued <- 1 .. m_next_id - 1,
  pending <- JobIds,
  delivered <- FiredIds,
  closed <- dtor = "done"

ImplementsOneShotTimer == Abstract!Spec
=============================================================================
