--------------------------- MODULE SIPTimerProofs ---------------------------
(***************************************************************************)
(* Proofs about SIPTimer for every number of jobs and every clock.         *)
(*                                                                         *)
(* The safety properties of SIPTimer are inductive only together with      *)
(* three facts about the worker and the destructor, defined first: each    *)
(* property is proved in conjunction with the fact it rests on.            *)
(***************************************************************************)
EXTENDS SIPTimer, TLAPS

(* The flag is down exactly when the destructor has begun, and a worker    *)
(* that holds the mutex past the test of m_running still finds it up.      *)
StopFlag ==
  /\ m_running <=> dtor = "none"
  /\ run_pc = "choose" => m_running

(* The instant a worker sleeps until was taken from a job that is still    *)
(* queued or has since been cancelled.                                     *)
DeadlineOrigin ==
  run_pc = "timed_waiting" => \E j \in m_jobs \cup cancelled : j.fire_at = deadline

(* After a late firing the worker is on its way out of the loop.           *)
LateLeaves ==
  (\E f \in fired : f.late) => ~m_running /\ run_pc \in {"dispatch", "check", "exited"}

-----------------------------------------------------------------------------
(* The constructor leaves every variable in its type.                      *)
LEMMA TypeInit == Init => TypeOK
<1> SUFFICES ASSUME Init PROVE TypeOK
  OBVIOUS
<1>1. 0 \in Time /\ 0 \in 0 .. MaxSpurious /\ 1 \in 1 .. MaxJobs + 1
  BY SIPTimerAssumption DEF Time
<1>2. m_jobs \subseteq Job /\ fired \subseteq Firing /\ cancelled \subseteq Job
  BY DEF Init
<1> QED
  BY <1>1, <1>2 DEF Init, TypeOK, RunPC

(* Every step keeps the variables in their types.                          *)
LEMMA TypeStep == TypeOK /\ [Next]_vars => TypeOK'
<1> SUFFICES ASSUME TypeOK, [Next]_vars PROVE TypeOK'
  OBVIOUS
<1> USE SIPTimerAssumption DEF TypeOK, Time, RunPC
<1>1. ASSUME NEW time \in Time, schedule_at(time) PROVE TypeOK'
  <2>1. [id |-> m_next_id, fire_at |-> time] \in Job
    BY <1>1 DEF schedule_at, Job
  <2> QED
    BY <1>1, <2>1 DEF schedule_at, NotifyOne, Parked
<1>2. ASSUME NEW id \in 1 .. MaxJobs, cancel(id) PROVE TypeOK'
  BY <1>2 DEF cancel
<1>3. CASE RequestStop
  BY <1>3 DEF RequestStop
<1>4. CASE NotifyStop
  BY <1>4 DEF NotifyStop, NotifyOne, Parked
<1>5. CASE Join
  BY <1>5 DEF Join
<1>6. CASE run
  <2>1. CASE Enter
    BY <2>1 DEF Enter
  <2>2. CASE CheckRunning
    BY <2>2 DEF CheckRunning
  <2>3. CASE ParkIdle
    BY <2>3 DEF ParkIdle
  <2>4. CASE ParkUntil
    BY <2>4 DEF ParkUntil, Top, Job
  <2>5. CASE WakeSignalled
    BY <2>5 DEF WakeSignalled
  <2>6. CASE WakeTimeout
    <3>1. PICK j \in m_jobs :
            /\ m_jobs' = m_jobs \ {j}
            /\ fired' = fired \cup {[id |-> j.id, fire_at |-> j.fire_at,
                                      at |-> now, late |-> ~m_running]}
      BY <2>6 DEF WakeTimeout
    <3>2. [id |-> j.id, fire_at |-> j.fire_at, at |-> now, late |-> ~m_running] \in Firing
      BY <3>1 DEF Firing, Job
    <3> QED
      BY <2>6, <3>1, <3>2 DEF WakeTimeout, TimedOut
  <2>7. CASE WakeTimeoutEmpty
    BY <2>7 DEF WakeTimeoutEmpty, TimedOut
  <2>8. CASE FinishDispatch
    BY <2>8 DEF FinishDispatch
  <2> QED
    BY <1>6, <2>1, <2>2, <2>3, <2>4, <2>5, <2>6, <2>7, <2>8 DEF run
<1>7. CASE SpuriousWakeup
  BY <1>7 DEF SpuriousWakeup
<1>8. CASE Tick
  BY <1>8 DEF Tick
<1>9. CASE UNCHANGED vars
  BY <1>9 DEF vars
<1> QED
  BY <1>1, <1>2, <1>3, <1>4, <1>5, <1>6, <1>7, <1>8, <1>9 DEF Next, Terminated

(* SIPTimer's variables always have their types.                           *)
THEOREM TypeCorrect == Spec => []TypeOK
<1>1. Init => TypeOK
  BY TypeInit
<1>2. TypeOK /\ [Next]_vars => TypeOK'
  BY TypeStep
<1> QED
  BY <1>1, <1>2, PTL DEF Spec

-----------------------------------------------------------------------------
(* The actions of the worker that neither pop a job nor end the wait leave *)
(* the three sets of jobs alone.                                           *)
LEMMA QuietSteps ==
  ASSUME \/ RequestStop \/ NotifyStop \/ Join \/ Enter \/ CheckRunning
         \/ ParkIdle \/ ParkUntil \/ WakeSignalled \/ FinishDispatch
         \/ SpuriousWakeup \/ Tick \/ UNCHANGED vars
  PROVE  UNCHANGED <<m_jobs, m_next_id, fired, cancelled>>
  BY DEF RequestStop, NotifyStop, Join, Enter, CheckRunning, ParkIdle, ParkUntil,
         WakeSignalled, FinishDispatch, SpuriousWakeup, Tick, vars

(* A step is a call of a client, a timeout of the worker, or quiet.        *)
LEMMA StepCases ==
  ASSUME [Next]_vars
  PROVE  \/ \E time \in Time : schedule_at(time)
         \/ \E id \in 1 .. MaxJobs : cancel(id)
         \/ WakeTimeout
         \/ WakeTimeoutEmpty
         \/ \/ RequestStop \/ NotifyStop \/ Join \/ Enter \/ CheckRunning
            \/ ParkIdle \/ ParkUntil \/ WakeSignalled \/ FinishDispatch
            \/ SpuriousWakeup \/ Tick \/ UNCHANGED vars
  BY DEF Next, run, Terminated

(* schedule_at issues a new identifier, cancel and a timeout move one      *)
(* between the sets; every other step leaves the sets alone.               *)
LEMMA AccountingStep ==
  TypeOK /\ JobAccounting /\ [Next]_vars => JobAccounting'
<1> SUFFICES ASSUME TypeOK, JobAccounting, [Next]_vars PROVE JobAccounting'
  OBVIOUS
<1> USE DEF JobAccounting, JobIds, FiredIds, CancelledIds
<1>1. ASSUME NEW time \in Time, schedule_at(time) PROVE JobAccounting'
  <2> DEFINE new == [id |-> m_next_id, fire_at |-> time]
  <2>1. /\ m_jobs' = m_jobs \cup {new}
        /\ m_next_id' = m_next_id + 1
        /\ fired' = fired /\ cancelled' = cancelled
    BY <1>1 DEF schedule_at
  <2>2. m_next_id \in Nat /\ m_next_id >= 1
    BY SIPTimerAssumption DEF TypeOK
  <2>3. m_next_id \notin JobIds \cup FiredIds \cup CancelledIds
    BY <2>2
  <2>4. 1 .. m_next_id' - 1 = (1 .. m_next_id - 1) \cup {m_next_id}
    BY <2>1, <2>2
  <2>5. JobIds' = JobIds \cup {m_next_id} /\ FiredIds' = FiredIds /\ CancelledIds' = CancelledIds
    <3>1. new.id = m_next_id
      OBVIOUS
    <3>2. JobIds' = JobIds \cup {m_next_id}
      <4> HIDE DEF new
      <4> QED
        BY <2>1, <3>1
    <3> QED
      BY <2>1, <3>2
  <2>6. \A j, k \in m_jobs' : j.id = k.id => j = k
    BY <2>1, <2>3
  <2>7. /\ JobIds' \cup FiredIds' \cup CancelledIds' = 1 .. m_next_id' - 1
        /\ JobIds' \cap FiredIds' = {}
        /\ JobIds' \cap CancelledIds' = {}
        /\ FiredIds' \cap CancelledIds' = {}
    <3> HIDE DEF JobIds, FiredIds, CancelledIds
    <3> QED
      BY <2>3, <2>4, <2>5
  <2> QED
    BY <2>6, <2>7
<1>2. ASSUME NEW id \in 1 .. MaxJobs, cancel(id) PROVE JobAccounting'
  <2>1. /\ m_jobs' = {j \in m_jobs : j.id # id}
        /\ cancelled' = cancelled \cup {j \in m_jobs : j.id = id}
        /\ m_next_id' = m_next_id /\ fired' = fired
    BY <1>2 DEF cancel
  <2>2. JobIds' = JobIds \ {id}
    BY <2>1
  <2>3. CancelledIds' = CancelledIds \cup (JobIds \cap {id})
    BY <2>1
  <2>4. \A j, k \in m_jobs' : j.id = k.id => j = k
    BY <2>1
  <2>5. FiredIds' = FiredIds
    BY <2>1
  <2>6. /\ JobIds' \cup FiredIds' \cup CancelledIds' = 1 .. m_next_id' - 1
        /\ JobIds' \cap FiredIds' = {}
        /\ JobIds' \cap CancelledIds' = {}
        /\ FiredIds' \cap CancelledIds' = {}
    <3> HIDE DEF JobIds, FiredIds, CancelledIds
    <3> QED
      BY <2>1, <2>2, <2>3, <2>5
  <2> QED
    BY <2>4, <2>6
<1>3. CASE WakeTimeout
  <2>1. PICK j \in m_jobs :
          /\ m_jobs' = m_jobs \ {j}
          /\ fired' = fired \cup {[id |-> j.id, fire_at |-> j.fire_at,
                                    at |-> now, late |-> ~m_running]}
    BY <1>3 DEF WakeTimeout
  <2>2. m_next_id' = m_next_id /\ cancelled' = cancelled
    BY <1>3 DEF WakeTimeout, TimedOut
  <2>3. JobIds' = JobIds \ {j.id}
    BY <2>1
  <2>4. FiredIds' = FiredIds \cup {j.id}
    <3> DEFINE popped == [id |-> j.id, fire_at |-> j.fire_at, at |-> now, late |-> ~m_running]
    <3>1. popped.id = j.id /\ fired' = fired \cup {popped}
      BY <2>1
    <3> HIDE DEF popped
    <3> QED
      BY <3>1
  <2>5. j.id \in JobIds
    BY <2>1
  <2>6. CancelledIds' = CancelledIds
    BY <2>2
  <2>7. \A i, k \in m_jobs' : i.id = k.id => i = k
    BY <2>1
  <2>8. /\ JobIds' \cup FiredIds' \cup CancelledIds' = 1 .. m_next_id' - 1
        /\ JobIds' \cap FiredIds' = {}
        /\ JobIds' \cap CancelledIds' = {}
        /\ FiredIds' \cap CancelledIds' = {}
    <3> HIDE DEF JobIds, FiredIds, CancelledIds
    <3> QED
      BY <2>2, <2>3, <2>4, <2>5, <2>6
  <2> QED
    BY <2>7, <2>8
<1>4. CASE WakeTimeoutEmpty
  BY <1>4 DEF WakeTimeoutEmpty, TimedOut
<1>5. CASE UNCHANGED <<m_jobs, m_next_id, fired, cancelled>>
  BY <1>5
<1> QED
  BY <1>1, <1>2, <1>3, <1>4, <1>5, StepCases, QuietSteps

(* No interleaving of clients and worker loses, repeats or resurrects a    *)
(* job.                                                                    *)
THEOREM EveryJobAccounted == Spec => []JobAccounting
<1>1. Init => JobAccounting
  BY DEF Init, JobAccounting, JobIds, FiredIds, CancelledIds
<1>2. TypeOK /\ JobAccounting /\ [Next]_vars => JobAccounting'
  BY AccountingStep
<1> QED
  BY <1>1, <1>2, TypeCorrect, PTL DEF Spec

-----------------------------------------------------------------------------
(* The worker parks with the mutex held since it last saw m_running up and *)
(* the queue as it is; from then on whoever makes it miss something        *)
(* notifies, or is a destructor about to notify.                           *)
LEMMA OversleepStep ==
  TypeOK /\ NoOversleep /\ StopFlag /\ [Next]_vars => NoOversleep' /\ StopFlag'
<1> SUFFICES ASSUME TypeOK, NoOversleep, StopFlag, [Next]_vars
             PROVE  NoOversleep' /\ StopFlag'
  OBVIOUS
<1> USE DEF NoOversleep, StopFlag, Parked
<1>1. ASSUME NEW time \in Time, schedule_at(time) PROVE NoOversleep' /\ StopFlag'
  BY <1>1 DEF schedule_at, NotifyOne
<1>2. ASSUME NEW id \in 1 .. MaxJobs, cancel(id) PROVE NoOversleep' /\ StopFlag'
  BY <1>2 DEF cancel
<1>3. CASE RequestStop
  BY <1>3 DEF RequestStop, MutexFree
<1>4. CASE NotifyStop
  BY <1>4 DEF NotifyStop, NotifyOne
<1>5. CASE Join
  BY <1>5 DEF Join
<1>6. CASE Enter \/ CheckRunning \/ WakeSignalled \/ WakeTimeout \/ WakeTimeoutEmpty \/ FinishDispatch
  BY <1>6 DEF Enter, CheckRunning, WakeSignalled, WakeTimeout, WakeTimeoutEmpty, TimedOut,
              FinishDispatch
<1>7. CASE ParkIdle
  BY <1>7 DEF ParkIdle
<1>8. CASE ParkUntil
  BY <1>8 DEF ParkUntil, Top
<1>9. CASE SpuriousWakeup \/ Tick \/ UNCHANGED vars
  BY <1>9 DEF SpuriousWakeup, Tick, vars
<1> QED
  BY <1>1, <1>2, <1>3, <1>4, <1>5, <1>6, <1>7, <1>8, <1>9 DEF Next, run, Terminated

(* A sleeping worker that nobody has notified has nothing to miss.         *)
THEOREM NoLostWakeup == Spec => []NoOversleep
<1>1. Init => NoOversleep /\ StopFlag
  BY DEF Init, NoOversleep, StopFlag, Parked
<1>2. TypeOK /\ NoOversleep /\ StopFlag /\ [Next]_vars => NoOversleep' /\ StopFlag'
  BY OversleepStep
<1> QED
  BY <1>1, <1>2, TypeCorrect, PTL DEF Spec

-----------------------------------------------------------------------------
(* A timeout pops the earliest job. If the job the deadline came from is   *)
(* still queued, what is popped is due; otherwise that job was cancelled.  *)
LEMMA EarlyStep ==
  TypeOK /\ EarlyOnlyAfterCancel /\ DeadlineOrigin /\ [Next]_vars
    => EarlyOnlyAfterCancel' /\ DeadlineOrigin'
<1> SUFFICES ASSUME TypeOK, EarlyOnlyAfterCancel, DeadlineOrigin, [Next]_vars
             PROVE  EarlyOnlyAfterCancel' /\ DeadlineOrigin'
  OBVIOUS
<1> USE DEF EarlyOnlyAfterCancel, DeadlineOrigin
<1>1. ASSUME NEW time \in Time, schedule_at(time)
      PROVE  EarlyOnlyAfterCancel' /\ DeadlineOrigin'
  BY <1>1 DEF schedule_at
<1>2. ASSUME NEW id \in 1 .. MaxJobs, cancel(id)
      PROVE  EarlyOnlyAfterCancel' /\ DeadlineOrigin'
  <2>1. m_jobs' \cup cancelled' = m_jobs \cup cancelled /\ cancelled \subseteq cancelled'
    BY <1>2 DEF cancel
  <2>2. UNCHANGED <<now, run_pc, deadline, fired>>
    BY <1>2 DEF cancel
  <2> QED
    BY <2>1, <2>2
<1>3. CASE WakeTimeout
  <2>1. PICK j \in m_jobs :
          /\ Top(j)
          /\ fired' = fired \cup {[id |-> j.id, fire_at |-> j.fire_at,
                                    at |-> now, late |-> ~m_running]}
    BY <1>3 DEF WakeTimeout
  <2>2. now >= deadline /\ cancelled' = cancelled /\ now' = now /\ run_pc' = "dispatch"
    BY <1>3 DEF WakeTimeout, TimedOut
  <2>3. PICK k \in m_jobs \cup cancelled : k.fire_at = deadline
    BY <1>3 DEF WakeTimeout, TimedOut
  <2>4. j.fire_at \in Nat /\ k.fire_at \in Nat /\ now \in Nat
    BY SIPTimerAssumption DEF TypeOK, Job, Time
  <2>5. now < j.fire_at => k \in cancelled /\ k.fire_at <= now
    BY <2>1, <2>2, <2>3, <2>4 DEF Top
  <2>6. ASSUME NEW f \in fired', f.at < f.fire_at
        PROVE  \E c \in cancelled' : c.fire_at <= f.at
    <3>1. CASE f \in fired
      BY <2>2, <2>6, <3>1
    <3>2. CASE f = [id |-> j.id, fire_at |-> j.fire_at, at |-> now, late |-> ~m_running]
      BY <2>2, <2>5, <2>6, <3>2
    <3> QED
      BY <2>1, <3>1, <3>2
  <2> QED
    BY <2>2, <2>6
<1>4. CASE WakeTimeoutEmpty
  <2>1. PICK k \in cancelled : k.fire_at = deadline
    BY <1>4 DEF WakeTimeoutEmpty, TimedOut
  <2>2. k.fire_at <= now
    BY <1>4, <2>1, SIPTimerAssumption DEF WakeTimeoutEmpty, TimedOut, TypeOK, Time
  <2> QED
    BY <1>4, <2>1, <2>2 DEF WakeTimeoutEmpty, TimedOut
<1>5. CASE ParkUntil
  BY <1>5 DEF ParkUntil
<1>6. CASE Tick
  <2>1. now' = now + 1 /\ UNCHANGED <<m_jobs, run_pc, deadline, fired, cancelled>>
    BY <1>6 DEF Tick
  <2>2. \A c \in cancelled : c.fire_at <= now => c.fire_at <= now'
    BY <2>1, SIPTimerAssumption DEF TypeOK, Job, Time
  <2> QED
    BY <2>1, <2>2
<1>7. CASE \/ RequestStop \/ NotifyStop \/ Join \/ Enter \/ CheckRunning \/ ParkIdle
           \/ WakeSignalled \/ FinishDispatch \/ SpuriousWakeup \/ UNCHANGED vars
  <2>1. /\ UNCHANGED <<now, m_jobs, fired, cancelled>>
        /\ deadline' = deadline
        /\ run_pc' = run_pc \/ run_pc' \notin {"timed_waiting", "undefined"}
    BY <1>7 DEF RequestStop, NotifyStop, Join, Enter, CheckRunning, ParkIdle,
                WakeSignalled, FinishDispatch, SpuriousWakeup, vars
  <2> QED
    BY <2>1
<1> QED
  BY <1>1, <1>2, <1>3, <1>4, <1>5, <1>6, <1>7 DEF Next, run, Terminated

(* No job is dispatched before its time, and the empty queue is not popped, *)
(* unless a job that is due was cancelled.                                 *)
THEOREM EarlyNeedsCancel == Spec => []EarlyOnlyAfterCancel
<1>1. Init => EarlyOnlyAfterCancel /\ DeadlineOrigin
  BY DEF Init, EarlyOnlyAfterCancel, DeadlineOrigin
<1>2. TypeOK /\ EarlyOnlyAfterCancel /\ DeadlineOrigin /\ [Next]_vars
        => EarlyOnlyAfterCancel' /\ DeadlineOrigin'
  BY EarlyStep
<1> QED
  BY <1>1, <1>2, TypeCorrect, PTL DEF Spec

-----------------------------------------------------------------------------
(* The worker parks only while m_running is up and re-reads it after every *)
(* dispatch, so a pop with the flag down is its last.                      *)
LEMMA LateStep ==
  TypeOK /\ StopFlag /\ AtMostOneLateFiring /\ LateLeaves /\ [Next]_vars
    => AtMostOneLateFiring' /\ LateLeaves'
<1> SUFFICES ASSUME TypeOK, StopFlag, AtMostOneLateFiring, LateLeaves, [Next]_vars
             PROVE  AtMostOneLateFiring' /\ LateLeaves'
  OBVIOUS
<1> USE DEF StopFlag, AtMostOneLateFiring, LateLeaves
<1>1. CASE WakeTimeout
  <2>1. PICK j \in m_jobs :
          fired' = fired \cup {[id |-> j.id, fire_at |-> j.fire_at,
                                at |-> now, late |-> ~m_running]}
    BY <1>1 DEF WakeTimeout
  <2>2. run_pc = "timed_waiting" /\ m_running' = m_running /\ run_pc' = "dispatch"
    BY <1>1 DEF WakeTimeout, TimedOut
  <2>3. \A f \in fired : ~f.late
    BY <2>2
  <2>4. m_running \in BOOLEAN
    BY DEF TypeOK
  <2> DEFINE popped == [id |-> j.id, fire_at |-> j.fire_at, at |-> now, late |-> ~m_running]
  <2>5. popped.late = ~m_running
    OBVIOUS
  <2>6. fired' = fired \cup {popped}
    BY <2>1
  <2> HIDE DEF popped
  <2> QED
    BY <2>2, <2>3, <2>4, <2>5, <2>6
<1>2. CASE \/ RequestStop \/ NotifyStop \/ Join \/ Enter \/ CheckRunning
           \/ ParkIdle \/ ParkUntil \/ WakeSignalled \/ WakeTimeoutEmpty \/ FinishDispatch
           \/ SpuriousWakeup \/ Tick \/ UNCHANGED vars
  BY <1>2 DEF RequestStop, NotifyStop, Join, Enter, CheckRunning, ParkIdle, ParkUntil,
              WakeSignalled, WakeTimeoutEmpty, TimedOut, FinishDispatch, SpuriousWakeup,
              Tick, Parked, vars
<1>3. ASSUME \/ \E time \in Time : schedule_at(time)
             \/ \E id \in 1 .. MaxJobs : cancel(id)
      PROVE  AtMostOneLateFiring' /\ LateLeaves'
  BY <1>3 DEF schedule_at, cancel
<1> QED
  BY <1>1, <1>2, <1>3 DEF Next, run, Terminated

(* The destructor waits for at most one dispatch begun after it cleared    *)
(* m_running.                                                              *)
THEOREM OneLateFiring == Spec => []AtMostOneLateFiring
<1>1. Init => NoOversleep /\ StopFlag /\ AtMostOneLateFiring /\ LateLeaves
  BY DEF Init, NoOversleep, StopFlag, Parked, AtMostOneLateFiring, LateLeaves
<1>2. TypeOK /\ NoOversleep /\ StopFlag /\ AtMostOneLateFiring /\ LateLeaves /\ [Next]_vars
        => NoOversleep' /\ StopFlag' /\ AtMostOneLateFiring' /\ LateLeaves'
  BY OversleepStep, LateStep
<1> QED
  BY <1>1, <1>2, TypeCorrect, PTL DEF Spec

-----------------------------------------------------------------------------
(* What a popped job does to the history: the queue gives up one of its    *)
(* identifiers, the dispatched ones gain it.                               *)
LEMMA PopMovesId ==
  ASSUME TypeOK, JobAccounting, WakeTimeout
  PROVE  \E i \in JobIds : JobIds' = JobIds \ {i} /\ FiredIds' = FiredIds \cup {i}
<1>1. PICK j \in m_jobs :
        /\ m_jobs' = m_jobs \ {j}
        /\ fired' = fired \cup {[id |-> j.id, fire_at |-> j.fire_at,
                                  at |-> now, late |-> ~m_running]}
  BY DEF WakeTimeout
<1>2. JobIds' = JobIds \ {j.id}
  BY <1>1 DEF JobAccounting, JobIds
<1>3. FiredIds' = FiredIds \cup {j.id}
  <2> DEFINE popped == [id |-> j.id, fire_at |-> j.fire_at, at |-> now, late |-> ~m_running]
  <2>1. popped.id = j.id /\ fired' = fired \cup {popped}
    BY <1>1
  <2> HIDE DEF popped
  <2> QED
    BY <2>1 DEF FiredIds
<1> QED
  BY <1>1, <1>2, <1>3 DEF JobIds

(* After the destructor has returned the worker has left its loop, so no   *)
(* dispatch is left to happen.                                             *)
ClosedMeansExited == dtor = "done" => run_pc = "exited"

(* Join waits for the worker to leave, and it never comes back.            *)
LEMMA ClosedStep == ClosedMeansExited /\ [Next]_vars => ClosedMeansExited'
  BY DEF ClosedMeansExited, Next, schedule_at, cancel, RequestStop, NotifyStop, Join, run,
         Enter, CheckRunning, ParkIdle, ParkUntil, WakeSignalled, WakeTimeout,
         WakeTimeoutEmpty, TimedOut, FinishDispatch, SpuriousWakeup, Tick, Terminated,
         Parked, vars

(* Every step of the timer is a step of the abstract service or changes    *)
(* nothing it sees.                                                        *)
LEMMA RefinementStep ==
  TypeOK /\ JobAccounting /\ ClosedMeansExited /\ [Next]_vars
    => [Abstract!Next]_(Abstract!vars)
<1> SUFFICES ASSUME TypeOK, JobAccounting, ClosedMeansExited, [Next]_vars
             PROVE  [Abstract!Next]_(Abstract!vars)
  OBVIOUS
<1> USE DEF Abstract!Next, Abstract!vars
<1>0. JobIds \subseteq 1 .. MaxJobs
  BY DEF JobIds, TypeOK, Job
<1>1. ASSUME NEW time \in Time, schedule_at(time)
      PROVE  Abstract!Add(m_next_id)
  <2> DEFINE new == [id |-> m_next_id, fire_at |-> time]
  <2>1. /\ m_jobs' = m_jobs \cup {new}
        /\ m_next_id' = m_next_id + 1
        /\ UNCHANGED <<fired, dtor>>
    BY <1>1 DEF schedule_at
  <2>2. new.id = m_next_id
    OBVIOUS
  <2>3. JobIds' = JobIds \cup {m_next_id}
    <3> HIDE DEF new
    <3> QED
      BY <2>1, <2>2 DEF JobIds
  <2>4. m_next_id \in Nat /\ m_next_id >= 1
    BY SIPTimerAssumption DEF TypeOK
  <2>5. m_next_id \notin 1 .. m_next_id - 1
    BY <2>4
  <2>6. 1 .. m_next_id' - 1 = (1 .. m_next_id - 1) \cup {m_next_id}
    BY <2>1, <2>4
  <2>7. ~(dtor = "done")
    BY <1>1 DEF schedule_at, MayCall, ClosedMeansExited
  <2>8. FiredIds' = FiredIds
    BY <2>1 DEF FiredIds
  <2> QED
    BY <2>1, <2>3, <2>5, <2>6, <2>7, <2>8 DEF Abstract!Add
<1>2. ASSUME NEW id \in 1 .. MaxJobs, cancel(id)
      PROVE  Abstract!Remove(id) \/ UNCHANGED Abstract!vars
  <2>1. /\ m_jobs' = {j \in m_jobs : j.id # id}
        /\ UNCHANGED <<m_next_id, fired, dtor>>
    BY <1>2 DEF cancel
  <2>2. JobIds' = JobIds \ {id}
    BY <2>1 DEF JobIds
  <2>3. FiredIds' = FiredIds
    BY <2>1 DEF FiredIds
  <2> QED
    BY <2>1, <2>2, <2>3 DEF Abstract!Remove
<1>3. ASSUME WakeTimeout
      PROVE  \E i \in JobIds : Abstract!Deliver(i)
  <2>1. PICK i \in JobIds : JobIds' = JobIds \ {i} /\ FiredIds' = FiredIds \cup {i}
    BY <1>3, PopMovesId
  <2>2. UNCHANGED <<m_next_id, dtor>> /\ ~(dtor = "done")
    BY <1>3 DEF WakeTimeout, TimedOut, ClosedMeansExited
  <2> QED
    BY <2>1, <2>2 DEF Abstract!Deliver
<1>4. CASE Join
  BY <1>4 DEF Join, Abstract!Close, JobIds, FiredIds
<1>5. CASE \/ RequestStop \/ NotifyStop \/ Enter \/ CheckRunning \/ ParkIdle \/ ParkUntil
           \/ WakeSignalled \/ WakeTimeoutEmpty \/ FinishDispatch \/ SpuriousWakeup
           \/ Tick \/ UNCHANGED vars
  <2>1. /\ UNCHANGED <<m_jobs, m_next_id, fired>>
        /\ (dtor = "done") = (dtor' = "done")
    BY <1>5 DEF RequestStop, NotifyStop, Enter, CheckRunning, ParkIdle, ParkUntil,
                WakeSignalled, WakeTimeoutEmpty, TimedOut, FinishDispatch, SpuriousWakeup,
                Tick, vars
  <2> QED
    BY <2>1 DEF JobIds, FiredIds
<1> QED
  BY <1>0, <1>1, <1>2, <1>3, <1>4, <1>5 DEF Next, run, Terminated, TypeOK, schedule_at

(* The class implements the one-shot timer service.                        *)
THEOREM Refinement == Spec => ImplementsOneShotTimer
<1>1. Init => Abstract!Init /\ ClosedMeansExited
  BY DEF Init, Abstract!Init, JobIds, FiredIds, ClosedMeansExited
<1>2. ClosedMeansExited /\ [Next]_vars => ClosedMeansExited'
  BY ClosedStep
<1>3. TypeOK /\ JobAccounting /\ ClosedMeansExited /\ [Next]_vars
        => [Abstract!Next]_(Abstract!vars)
  BY RefinementStep
<1> QED
  BY <1>1, <1>2, <1>3, TypeCorrect, EveryJobAccounted, PTL
     DEF Spec, ImplementsOneShotTimer, Abstract!Spec
=============================================================================
