--------------------------- MODULE SIPxMainProofs ---------------------------
(***************************************************************************)
(* Proofs about SIPxMain for every clock and any number of spurious        *)
(* wake-ups.                                                               *)
(*                                                                         *)
(* The program refines its timer: every step is one of SIPTimer or leaves  *)
(* the timer alone, so what SIPTimerProofs proves of every program that    *)
(* uses a timer holds of this one. The dispatcher's list is described by   *)
(* who has registered so far (ListKnown), and the two threads by how far   *)
(* each is: main sleeps past the instant it scheduled (SleepCovers), and a *)
(* worker that never let an instant pass is on time for it (OnTime).       *)
(***************************************************************************)
EXTENDS SIPxMain, TLAPS

TimerTheorems == INSTANCE SIPTimerProofs WITH MaxJobs <- 1

-----------------------------------------------------------------------------
(* The program and its timer *)

(* What a step of the timer needs to know of main: until it sleeps the     *)
(* clock has hardly moved, so the instant it schedules is one of the clock.*)
ClockBound ==
  /\ now \in Nat
  /\ main_pc \notin {"sleeping", "leave", "returned"} => now <= MaxDelay

(* The clock is held back until main sleeps.                               *)
LEMMA ClockBoundStep == ClockBound /\ [Next]_vars => ClockBound'
<1> SUFFICES ASSUME ClockBound, [Next]_vars PROVE ClockBound'
  OBVIOUS
<1> USE DEF ClockBound
<1>1. CASE main
  <2>1. UNCHANGED now
    BY <1>1 DEF main, ConstructParser, RegisterParser, schedule_after, sleep_for, Leave, DestroyTimer,
           timer_vars, Timer!schedule_at, Timer!RequestStop, Timer!NotifyStop, Timer!Join
  <2> QED
    BY <1>1, <2>1 DEF main, ConstructParser, RegisterParser, schedule_after, sleep_for, Leave, DestroyTimer
<1>2. CASE worker
  BY <1>2 DEF worker, StartRegistering, RegisterTimer, RunLoop, CallListener, CallDestroyed, DispatchEnds,
         timer_vars, main_vars, Timer!Enter, Timer!CheckRunning, Timer!ParkIdle, Timer!ParkUntil,
         Timer!WakeSignalled, Timer!WakeTimeout, Timer!TimedOut, Timer!FinishDispatch
<1>3. CASE PushBacksCollide
  BY <1>3 DEF PushBacksCollide, timer_vars, main_vars
<1>4. CASE SpuriousWakeup
  BY <1>4 DEF SpuriousWakeup, Timer!SpuriousWakeup, main_vars
<1>5. CASE Tick
  BY <1>5, SIPxMainAssumption DEF Tick, Timer!Tick, main_vars
<1>6. CASE UNCHANGED vars
  BY <1>6 DEF vars, timer_vars, main_vars
<1> QED
  BY <1>1, <1>2, <1>3, <1>4, <1>5, <1>6 DEF Next, Terminated

(* Every step of the program is a step of its timer or leaves it alone.    *)
LEMMA TimerStep == ClockBound /\ [Next]_vars => [Timer!Next]_(Timer!vars)
<1> SUFFICES ASSUME ClockBound, [Next]_vars PROVE [Timer!Next]_(Timer!vars)
  OBVIOUS
<1>1. CASE UNCHANGED timer_vars
  BY <1>1 DEF timer_vars, Timer!vars
<1>2. CASE schedule_after
  <2>1. now + Delay \in Timer!Time
    BY <1>2, SIPxMainAssumption DEF schedule_after, ClockBound, Delay, Nap, Timer!Time
  <2> QED
    BY <1>2, <2>1 DEF schedule_after, Timer!Next
<1>3. CASE main
  BY <1>1, <1>2, <1>3 DEF main, ConstructParser, RegisterParser, sleep_for, Leave, DestroyTimer, Timer!Next
<1>4. CASE worker
  BY <1>1, <1>4 DEF worker, StartRegistering, RegisterTimer, RunLoop, CallListener, CallDestroyed,
         DispatchEnds, Timer!Next, Timer!run
<1>5. CASE SpuriousWakeup
  BY <1>5 DEF SpuriousWakeup, Timer!Next
<1>6. CASE Tick
  BY <1>6 DEF Tick, Timer!Next
<1> QED
  BY <1>1, <1>3, <1>4, <1>5, <1>6 DEF Next, Terminated, PushBacksCollide, vars

(* Every step of the program is a step of its timer or leaves it alone, as *)
(* the definitions say; what is to be shown is that the clock has not run  *)
(* out when main schedules.                                                *)
LEMMA ProgramUsesTimer == Spec => Timer!Spec
<1>1. Init => Timer!Init /\ ClockBound
  BY SIPxMainAssumption DEF Init, Timer!Init, ClockBound
<1>2. ClockBound /\ [Next]_vars => ClockBound'
  BY ClockBoundStep
<1>3. ClockBound /\ [Next]_vars => [Timer!Next]_(Timer!vars)
  BY TimerStep
<1> QED
  BY <1>1, <1>2, <1>3, PTL DEF Spec, Timer!Spec

-----------------------------------------------------------------------------
(* What SIPTimerProofs proves of every program that uses a timer           *)

(* The timer of the program and the timer of the theorems are one.         *)
LEMMA SameTimer == Timer!Spec => TimerTheorems!Spec
<1>1. Timer!Init => TimerTheorems!Init
  BY DEF Timer!Init, TimerTheorems!Init
<1>2. [Timer!Next]_(Timer!vars) => [TimerTheorems!Next]_(TimerTheorems!vars)
  <2>1. Timer!vars = TimerTheorems!vars
    BY DEF Timer!vars, TimerTheorems!vars
  <2>2. Timer!run => TimerTheorems!run
    BY DEF Timer!run, TimerTheorems!run, Timer!Enter, TimerTheorems!Enter,
           Timer!CheckRunning, TimerTheorems!CheckRunning, Timer!ParkIdle, TimerTheorems!ParkIdle,
           Timer!ParkUntil, TimerTheorems!ParkUntil, Timer!Top, TimerTheorems!Top,
           Timer!WakeSignalled, TimerTheorems!WakeSignalled, Timer!Parked, TimerTheorems!Parked,
           Timer!WakeTimeout, TimerTheorems!WakeTimeout, Timer!TimedOut, TimerTheorems!TimedOut,
           Timer!WakeTimeoutEmpty, TimerTheorems!WakeTimeoutEmpty,
           Timer!FinishDispatch, TimerTheorems!FinishDispatch
  <2>3. Timer!Next => TimerTheorems!Next
    BY <2>2 DEF Timer!Next, TimerTheorems!Next, Timer!Time, TimerTheorems!Time,
           Timer!schedule_at, TimerTheorems!schedule_at, Timer!cancel, TimerTheorems!cancel,
           Timer!MayCall, TimerTheorems!MayCall, Timer!MutexFree, TimerTheorems!MutexFree,
           Timer!NotifyOne, TimerTheorems!NotifyOne, Timer!Parked, TimerTheorems!Parked,
           Timer!RequestStop, TimerTheorems!RequestStop, Timer!NotifyStop, TimerTheorems!NotifyStop,
           Timer!Join, TimerTheorems!Join, Timer!SpuriousWakeup, TimerTheorems!SpuriousWakeup,
           Timer!Tick, TimerTheorems!Tick, Timer!Terminated, TimerTheorems!Terminated,
           Timer!Ended, TimerTheorems!Ended, Timer!vars, TimerTheorems!vars
  <2> QED
    BY <2>3 DEF Timer!vars, TimerTheorems!vars
<1> QED
  BY <1>1, <1>2, PTL DEF Timer!Spec, TimerTheorems!Spec

(* The timer's own assumption holds of the program's bounds.               *)
LEMMA TimerAssumption == 1 \in Nat /\ MaxTime \in Nat /\ MaxSpurious \in Nat
BY SIPxMainAssumption

(* Types, accounting and the absence of lost wake-ups carry over.          *)
LEMMA TimerFacts ==
  Spec => []TimerTheorems!TypeOK /\ []TimerTheorems!JobAccounting /\ []TimerTheorems!NoOversleep
            /\ []TimerTheorems!EarlyOnlyAfterCancel
<1>1. TimerTheorems!Spec => []TimerTheorems!TypeOK
  BY TimerAssumption, TimerTheorems!TypeCorrect
<1>2. TimerTheorems!Spec => []TimerTheorems!JobAccounting
  BY TimerAssumption, TimerTheorems!EveryJobAccounted
<1>3. TimerTheorems!Spec => []TimerTheorems!NoOversleep
  BY TimerAssumption, TimerTheorems!NoLostWakeup
<1>4. TimerTheorems!Spec => []TimerTheorems!EarlyOnlyAfterCancel
  BY TimerAssumption, TimerTheorems!EarlyNeedsCancel
<1> QED
  BY <1>1, <1>2, <1>3, <1>4, ProgramUsesTimer, SameTimer, PTL

-----------------------------------------------------------------------------
(* Nothing is early *)

(* The program never calls cancel.                                         *)
LEMMA NobodyCancels == Spec => [](cancelled = {})
<1>1. Init => cancelled = {}
  BY DEF Init, Timer!Init
<1>2. cancelled = {} /\ [Next]_vars => (cancelled = {})'
  BY DEF Next, vars, timer_vars, main, worker, Terminated, PushBacksCollide, SpuriousWakeup, Tick,
         ConstructParser, RegisterParser, schedule_after, sleep_for, Leave, DestroyTimer,
         StartRegistering, RegisterTimer, RunLoop, CallListener, CallDestroyed, DispatchEnds,
         Timer!schedule_at, Timer!RequestStop, Timer!NotifyStop, Timer!Join, Timer!Enter,
         Timer!CheckRunning, Timer!ParkIdle, Timer!ParkUntil, Timer!WakeSignalled, Timer!WakeTimeout,
         Timer!TimedOut, Timer!FinishDispatch, Timer!SpuriousWakeup, Timer!Tick
<1> QED
  BY <1>1, <1>2, PTL DEF Spec

(* In this program the timer is never early: only a cancel makes it so.    *)
THEOREM NothingEarly == Spec => []NeverEarly
<1>1. TimerTheorems!TypeOK /\ TimerTheorems!EarlyOnlyAfterCancel /\ cancelled = {} => NeverEarly
  <2> SUFFICES ASSUME TimerTheorems!TypeOK, TimerTheorems!EarlyOnlyAfterCancel, cancelled = {},
                      NEW f \in fired
               PROVE  f.at >= f.fire_at
    BY DEF NeverEarly, Timer!NeverEarly
  <2>1. f.at \in Nat /\ f.fire_at \in Nat
    BY SIPxMainAssumption DEF TimerTheorems!TypeOK, TimerTheorems!Firing, TimerTheorems!Time
  <2>2. ~(f.at < f.fire_at)
    BY DEF TimerTheorems!EarlyOnlyAfterCancel
  <2> QED
    BY <2>1, <2>2
<1> QED
  BY <1>1, TimerFacts, NobodyCancels, PTL

-----------------------------------------------------------------------------
(* Who is in the list *)

MainDone == main_pc \notin {"construct", "register"}
WorkerDone == run_pc # "start"

(* Nothing is queued or dispatched before main schedules it.               *)
BeforeSchedule ==
  main_pc \in {"construct", "register", "schedule"} => m_jobs = {} /\ run_pc # "dispatch"

(* A place is held exactly by a thread inside push_back.                   *)
PlacesHeld ==
  /\ slot \in [Thread -> 0 .. 2]
  /\ main_pc = "register" <=> slot["main"] # 0
  /\ slot["worker"] # 0 => ~WorkerDone

(* One call after the other: each is about to write at the end, and the    *)
(* list holds whoever is done.                                             *)
ListInTurn ==
  /\ slot["main"] = 0 \/ slot["worker"] = 0
  /\ \A t \in Thread : slot[t] # 0 => slot[t] = Len(listeners) + 1
  /\ MainDone => Listening("parser")
  /\ WorkerDone => Listening("timer")
  /\ Len(listeners) = (IF MainDone THEN 1 ELSE 0) + (IF WorkerDone THEN 1 ELSE 0)

(* Two at once: both were to write the first place, and one of them has    *)
(* or the list is still empty.                                             *)
ListShared ==
  /\ main_pc # "construct"
  /\ WorkerDone \/ slot["worker"] # 0
  /\ \A t \in Thread : slot[t] <= 1
  /\ Len(listeners) = IF MainDone \/ WorkerDone THEN 1 ELSE 0

ListKnown ==
  /\ listeners \in Seq({"parser", "timer"})
  /\ overlapped \in BOOLEAN
  /\ BeforeSchedule
  /\ PlacesHeld
  /\ IF overlapped THEN ListShared ELSE ListInTurn

(* What push_back leaves when it writes at place n of list l.              *)
LEMMA WriteAt ==
  ASSUME NEW S, NEW l \in Seq(S), NEW n \in 1 .. Len(l) + 1, NEW x \in S
  PROVE  LET r == Append(SubSeq(l, 1, n - 1), x)
         IN  /\ r \in Seq(S)
             /\ Len(r) = n
             /\ r[n] = x
             /\ \A i \in 1 .. n - 1 : r[i] = l[i]
<1> DEFINE s == SubSeq(l, 1, n - 1)
<1>1. s \in Seq(S) /\ Len(s) = n - 1 /\ \A i \in 1 .. n - 1 : s[i] = l[i]
  OBVIOUS
<1> HIDE DEF s
<1>2. /\ Append(s, x) \in Seq(S)
      /\ Len(Append(s, x)) = n
      /\ Append(s, x)[n] = x
      /\ \A i \in 1 .. n - 1 : Append(s, x)[i] = l[i]
  BY <1>1
<1> QED
  BY <1>2 DEF s

(* A thread that starts a push_back: alone, or while the other is at it.   *)
LEMMA ReadsStep ==
  ASSUME ListKnown, NEW t \in Thread, slot[t] = 0, PushBackReads(t), UNCHANGED <<m_jobs, run_pc>>,
         \/ t = "main" /\ main_pc = "construct" /\ main_pc' = "register"
         \/ t = "worker" /\ ~WorkerDone /\ UNCHANGED main_pc
  PROVE  ListKnown'
<1> USE DEF ListKnown, PlacesHeld, Thread, WorkerDone, MainDone
<1> DEFINE u == IF t = "main" THEN "worker" ELSE "main"
<1>1. /\ u \in Thread /\ Thread \ {t} = {u} /\ u # t
      /\ listeners' = listeners
      /\ slot' = [slot EXCEPT ![t] = Len(listeners) + 1]
      /\ overlapped' = (overlapped \/ slot[u] # 0)
  BY DEF PushBackReads
<1>2. BeforeSchedule'
  BY DEF BeforeSchedule
<1>3. ~overlapped
  BY DEF ListShared
<1>4. Len(listeners) \in 0 .. 1 /\ Len(listeners) + 1 \in 0 .. 2
  BY <1>3 DEF ListInTurn
<1>5. slot' \in [Thread -> 0 .. 2] /\ slot'[t] = Len(listeners) + 1 /\ slot'[u] = slot[u]
  <2> HIDE DEF u, ListKnown
  <2> DEFINE n == Len(listeners) + 1
  <2>1. n \in 0 .. 2
    BY <1>4
  <2> HIDE DEF n
  <2>2. slot' = [slot EXCEPT ![t] = n] /\ slot \in [Thread -> 0 .. 2]
    BY <1>1 DEF n, ListKnown
  <2> QED
    BY <1>1, <2>1, <2>2 DEF n
<1>6. PlacesHeld'
  BY <1>1, <1>4, <1>5
<1>7. CASE slot[u] # 0
  <2>1. Len(listeners) = 0 /\ slot[u] = 1
    BY <1>1, <1>3, <1>7 DEF ListInTurn
  <2>2. ListShared'
    BY <1>1, <1>5, <1>7, <2>1 DEF ListShared
  <2> QED
    BY <1>1, <1>2, <1>6, <1>7, <2>2
<1>8. CASE slot[u] = 0
  <2>1. ListInTurn'
    BY <1>1, <1>3, <1>5, <1>8 DEF ListInTurn, Listening
  <2> QED
    BY <1>1, <1>2, <1>3, <1>6, <1>8, <2>1
<1> QED
  BY <1>7, <1>8

(* A thread that ends its push_back with the listener l: its constructor's *)
(* registration is done.                                                   *)
LEMMA WritesStep ==
  ASSUME ListKnown, NEW t \in Thread, NEW l, PushBackWrites(t, l), UNCHANGED m_jobs,
         \/ /\ t = "main" /\ l = "parser"
            /\ main_pc = "register" /\ main_pc' = "schedule" /\ UNCHANGED run_pc
         \/ /\ t = "worker" /\ l = "timer"
            /\ ~WorkerDone /\ run_pc' = "check" /\ UNCHANGED main_pc
  PROVE  ListKnown'
<1> USE DEF ListKnown, PlacesHeld, Thread, WorkerDone, MainDone
<1> DEFINE n == slot[t]
<1>1. /\ n \in 1 .. Len(listeners) + 1
      /\ l \in {"parser", "timer"}
      /\ Len(listeners) \in 0 .. 2
  <2>1. n \in 1 .. 2 /\ Len(listeners) \in Nat
    BY DEF PushBackWrites
  <2>2. CASE overlapped
    BY <2>1, <2>2 DEF ListShared
  <2>3. CASE ~overlapped
    <3>1. ListInTurn
      BY <2>3
    <3>2. Len(listeners) \in 0 .. 2
      BY <3>1, <2>1 DEF ListInTurn
    <3>3. n = Len(listeners) + 1
      BY <3>1, <2>1 DEF ListInTurn
    <3> QED
      BY <3>2, <3>3
  <2> QED
    BY <2>2, <2>3
<1>2. /\ listeners' \in Seq({"parser", "timer"})
      /\ Len(listeners') = n
      /\ listeners'[n] = l
      /\ \A i \in 1 .. n - 1 : listeners'[i] = listeners[i]
  <2>1. listeners' = Append(SubSeq(listeners, 1, n - 1), l)
    BY DEF PushBackWrites
  <2> HIDE DEF n
  <2> QED
    BY <1>1, <2>1, WriteAt
<1>3. /\ slot' \in [Thread -> 0 .. 2] /\ slot'[t] = 0
      /\ \A u \in Thread \ {t} : slot'[u] = slot[u]
      /\ UNCHANGED overlapped
  BY DEF PushBackWrites
<1>4. BeforeSchedule'
  BY DEF BeforeSchedule
<1>5. PlacesHeld'
  BY <1>3
<1>6. CASE overlapped
  <2>1. n = 1
    BY <1>1, <1>6 DEF ListShared
  <2>2. ListShared'
    BY <1>2, <1>3, <1>6, <2>1 DEF ListShared
  <2> QED
    BY <1>2, <1>3, <1>4, <1>5, <1>6, <2>2
<1>7. CASE ~overlapped
  <2>1. n = Len(listeners) + 1
    BY <1>1, <1>7 DEF ListInTurn
  <2>2. Listening("parser") => Listening("parser")'
    BY <1>1, <1>2, <2>1 DEF Listening
  <2>3. Listening("timer") => Listening("timer")'
    BY <1>1, <1>2, <2>1 DEF Listening
  <2>4. Listening(l)'
    BY <1>1, <1>2 DEF Listening
  <2>5. /\ slot'["main"] = 0 \/ slot'["worker"] = 0
        /\ \A u \in Thread : slot'[u] = 0
    BY <1>3, <1>7 DEF ListInTurn, PushBackWrites
  <2>6. Len(listeners') = (IF MainDone' THEN 1 ELSE 0) + (IF WorkerDone' THEN 1 ELSE 0)
    BY <1>1, <1>2, <1>7, <2>1 DEF ListInTurn
  <2>7. (MainDone => Listening("parser"))' /\ (WorkerDone => Listening("timer"))'
    BY <1>7, <2>2, <2>3, <2>4 DEF ListInTurn
  <2> QED
    BY <1>2, <1>3, <1>4, <1>5, <1>7, <2>5, <2>6, <2>7 DEF ListInTurn
<1> QED
  BY <1>6, <1>7

(* The other steps leave the list alone, and move no thread in or out of a *)
(* registration.                                                           *)
LEMMA ElsewhereStep ==
  ASSUME ListKnown, UNCHANGED <<listeners, slot, overlapped>>,
         MainDone' = MainDone, WorkerDone' = WorkerDone, BeforeSchedule',
         main_pc' \in {"construct", "register"} => UNCHANGED main_pc,
         main_pc \in {"construct", "register"} => UNCHANGED main_pc
  PROVE  ListKnown'
<1>1. PlacesHeld'
  BY DEF ListKnown, PlacesHeld
<1>2. ListInTurn => ListInTurn'
  BY DEF ListInTurn, Listening
<1>3. ListShared => ListShared'
  BY DEF ListShared
<1> QED
  BY <1>1, <1>2, <1>3 DEF ListKnown

(* Every step of the program keeps the description of the list.            *)
LEMMA ListKnownStep == ListKnown /\ [Next]_vars => ListKnown'
<1> SUFFICES ASSUME ListKnown, [Next]_vars PROVE ListKnown'
  OBVIOUS
<1>1. CASE ConstructParser
  <2>1. slot["main"] = 0
    BY <1>1 DEF ConstructParser, ListKnown, PlacesHeld
  <2> QED
    BY <1>1, <2>1, ReadsStep DEF ConstructParser, timer_vars, Thread
<1>2. CASE StartRegistering
  BY <1>2, ReadsStep DEF StartRegistering, timer_vars, main_vars, Thread, WorkerDone
<1>3. CASE RegisterParser
  BY <1>3, WritesStep DEF RegisterParser, timer_vars, Thread
<1>4. CASE RegisterTimer
  BY <1>4, WritesStep DEF RegisterTimer, Timer!Enter, main_vars, Thread, WorkerDone
<1>5. CASE schedule_after \/ sleep_for \/ Leave \/ DestroyTimer
  <2>1. /\ UNCHANGED <<listeners, slot, overlapped>>
        /\ MainDone' = MainDone /\ UNCHANGED run_pc /\ BeforeSchedule'
        /\ main_pc \notin {"construct", "register"} /\ main_pc' \notin {"construct", "register"}
    BY <1>5 DEF schedule_after, sleep_for, Leave, DestroyTimer, dispatcher_vars, timer_vars, MainDone,
           BeforeSchedule, Timer!schedule_at, Timer!RequestStop, Timer!NotifyStop, Timer!Join
  <2> QED
    BY <2>1, ElsewhereStep DEF WorkerDone
<1>6. CASE RunLoop
  <2>1. /\ UNCHANGED <<listeners, slot, overlapped, main_pc>>
        /\ WorkerDone /\ WorkerDone'
    BY <1>6 DEF RunLoop, main_vars, dispatcher_vars, WorkerDone, Timer!CheckRunning, Timer!ParkIdle,
           Timer!ParkUntil, Timer!WakeSignalled, Timer!Parked, Timer!WakeTimeout, Timer!TimedOut
  <2>2. BeforeSchedule'
    BY <1>6 DEF ListKnown, BeforeSchedule, RunLoop, main_vars, Timer!CheckRunning, Timer!ParkIdle,
           Timer!ParkUntil, Timer!WakeSignalled, Timer!WakeTimeout, Timer!TimedOut
  <2> QED
    BY <2>1, <2>2, ElsewhereStep DEF MainDone
<1>7. CASE DispatchEnds
  <2>1. /\ UNCHANGED <<listeners, slot, overlapped, main_pc, m_jobs>>
        /\ WorkerDone /\ WorkerDone' /\ run_pc' = "check"
    BY <1>7 DEF DispatchEnds, main_vars, WorkerDone, Timer!FinishDispatch
  <2> QED
    BY <2>1, ElsewhereStep DEF MainDone, BeforeSchedule, ListKnown
<1>8. CASE UNCHANGED <<main_pc, run_pc, m_jobs, listeners, slot, overlapped>>
  BY <1>8, ElsewhereStep DEF MainDone, WorkerDone, BeforeSchedule, ListKnown
<1>9. CASE CallListener \/ CallDestroyed \/ PushBacksCollide \/ SpuriousWakeup \/ Tick \/ UNCHANGED vars
  BY <1>8, <1>9 DEF CallListener, CallDestroyed, PushBacksCollide, SpuriousWakeup, Tick, vars,
         timer_vars, main_vars, dispatcher_vars, Timer!SpuriousWakeup, Timer!Tick
<1> QED
  BY <1>1, <1>2, <1>3, <1>4, <1>5, <1>6, <1>7, <1>9 DEF Next, main, worker, Terminated

LEMMA ListIsKnown == Spec => []ListKnown
<1>1. Init => ListKnown
  <2> SUFFICES ASSUME Init PROVE ListKnown
    OBVIOUS
  <2> USE DEF Init, Timer!Init
  <2>1. listeners \in Seq({"parser", "timer"}) /\ overlapped = FALSE /\ Len(listeners) = 0
    OBVIOUS
  <2>2. PlacesHeld
    BY DEF PlacesHeld, WorkerDone, Thread
  <2>3. ListInTurn
    BY <2>1 DEF ListInTurn, MainDone, WorkerDone, Thread
  <2> QED
    BY <2>1, <2>2, <2>3 DEF ListKnown, BeforeSchedule
<1> QED
  BY <1>1, ListKnownStep, PTL DEF Spec

(* A registration is lost only where two calls of push_back overlap, and   *)
(* a dispatch never finds one under way.                                   *)
THEOREM RegistrationsKept == Spec => []LostOnlyByOverlap
<1>1. ListKnown => LostOnlyByOverlap
  <2> SUFFICES ASSUME ListKnown PROVE LostOnlyByOverlap
    OBVIOUS
  <2>1. run_pc = "dispatch" => slot = [t \in Thread |-> 0]
    BY DEF ListKnown, BeforeSchedule, PlacesHeld, WorkerDone, Thread
  <2>2. CASE overlapped
    <3>1. ListShared
      BY <2>2 DEF ListKnown
    <3> QED
      BY <2>1, <2>2, <3>1 DEF ListShared, LostOnlyByOverlap, MainDone, WorkerDone
  <2>3. CASE ~overlapped
    <3>1. ListInTurn
      BY <2>3 DEF ListKnown
    <3> QED
      BY <2>1, <3>1 DEF ListInTurn, LostOnlyByOverlap, MainDone, WorkerDone
  <2> QED
    BY <2>2, <2>3
<1> QED
  BY <1>1, ListIsKnown, PTL

-----------------------------------------------------------------------------
(* How far the two threads are                                             *)

TimerKnown ==
  /\ TimerTheorems!TypeOK
  /\ TimerTheorems!JobAccounting
  /\ TimerTheorems!NoOversleep

(* main schedules one job, cancels none, and stops the timer after the     *)
(* parser is gone.                                                         *)
PhaseKnown ==
  /\ main_pc \in MainPC
  /\ m_next_id = IF main_pc \in {"construct", "register", "schedule"} THEN 1 ELSE 2
  /\ cancelled = {}
  /\ m_running <=> dtor = "none"
  /\ dtor # "none" => ~ParserAlive
  /\ run_pc = "exited" => ~m_running
  /\ run_pc = "start" => fired = {}
  /\ run_pc = "dispatch" => fired # {}

(* main sleeps past the instant it scheduled.                              *)
SleepCovers ==
  /\ wake_at \in Timer!Time
  /\ main_pc = "sleep" => \A j \in m_jobs \cup fired : j.fire_at <= now + Delay
  /\ main_pc \in {"sleeping", "leave", "returned"} => \A j \in m_jobs \cup fired : j.fire_at < wake_at
  /\ ~ParserAlive => now >= wake_at

(* A worker that always ran when it could is on time.                      *)
OnTime ==
  ~behind =>
    /\ \A j \in m_jobs : now <= j.fire_at
    /\ run_pc = "dispatch" => \A f \in fired : now <= f.fire_at

(* The dispatch goes through the list once.                                *)
Delivery ==
  /\ called \in Seq({"parser", "timer"})
  /\ loop \in Nat \ {0}
  /\ fired = {} => called = <<>> /\ loop = 1
  /\ fired # {} /\ run_pc # "dispatch" => called = listeners /\ loop = 1
  /\ run_pc = "dispatch" =>
       /\ loop = Len(called) + 1
       /\ Len(called) <= Len(listeners)
       /\ \A i \in 1 .. Len(called) : called[i] = listeners[i]

Flags ==
  /\ behind \in BOOLEAN
  /\ undefined \in BOOLEAN
  /\ undefined => overlapped \/ behind

ThreadsKnown == PhaseKnown /\ SleepCovers /\ OnTime /\ Delivery /\ Flags

(* There is at most the one job, in the queue or out of it.                *)
LEMMA OneJob ==
  ASSUME TimerKnown, cancelled = {}
  PROVE  /\ m_jobs = {} \/ fired = {}
         /\ m_next_id = 1 => m_jobs = {} /\ fired = {}
         /\ m_next_id = 2 => m_jobs # {} \/ fired # {}
<1> USE DEF TimerTheorems!JobIds, TimerTheorems!FiredIds, TimerTheorems!CancelledIds
<1>1. /\ m_jobs \subseteq TimerTheorems!Job /\ fired \subseteq TimerTheorems!Firing
      /\ TimerTheorems!JobIds \cup TimerTheorems!FiredIds = 1 .. m_next_id - 1
      /\ TimerTheorems!JobIds \cap TimerTheorems!FiredIds = {}
  BY DEF TimerKnown, TimerTheorems!TypeOK, TimerTheorems!JobAccounting
<1>2. (\A j \in m_jobs : j.id = 1) /\ (\A f \in fired : f.id = 1)
  BY <1>1 DEF TimerTheorems!Job, TimerTheorems!Firing
<1>3. m_jobs = {} \/ fired = {}
  <2> SUFFICES ASSUME NEW j \in m_jobs, NEW f \in fired PROVE FALSE
    OBVIOUS
  <2>1. j.id \in TimerTheorems!JobIds /\ f.id \in TimerTheorems!FiredIds /\ j.id = f.id
    BY <1>2
  <2> QED
    BY <1>1, <2>1
<1>4. m_next_id = 1 => m_jobs = {} /\ fired = {}
  <2> SUFFICES ASSUME m_next_id = 1 PROVE m_jobs = {} /\ fired = {}
    OBVIOUS
  <2>1. TimerTheorems!JobIds = {} /\ TimerTheorems!FiredIds = {}
    BY <1>1
  <2> QED
    BY <2>1
<1>5. m_next_id = 2 => m_jobs # {} \/ fired # {}
  <2> SUFFICES ASSUME m_next_id = 2 PROVE TimerTheorems!JobIds # {} \/ TimerTheorems!FiredIds # {}
    OBVIOUS
  <2>1. 1 \in 1 .. m_next_id - 1
    OBVIOUS
  <2> QED
    BY <1>1, <2>1
<1> QED
  BY <1>3, <1>4, <1>5

LEMMA PhaseStep == PhaseKnown /\ [Next]_vars => PhaseKnown'
<1> SUFFICES ASSUME PhaseKnown, [Next]_vars PROVE PhaseKnown'
  OBVIOUS
<1> USE DEF PhaseKnown, MainPC, ParserAlive
<1>1. CASE ConstructParser \/ RegisterParser \/ schedule_after \/ sleep_for
  BY <1>1 DEF ConstructParser, RegisterParser, schedule_after, sleep_for, timer_vars, Timer!schedule_at
<1>2. CASE Leave
  BY <1>2 DEF Leave, timer_vars
<1>3. CASE DestroyTimer
  BY <1>3 DEF DestroyTimer, Timer!RequestStop, Timer!NotifyStop, Timer!Join
<1>4. CASE worker
  <2>1. CASE RunLoop /\ Timer!WakeTimeout
    BY <2>1 DEF RunLoop, main_vars, Timer!WakeTimeout, Timer!TimedOut
  <2>2. CASE RunLoop /\ ~Timer!WakeTimeout
    BY <2>2 DEF RunLoop, main_vars, Timer!CheckRunning, Timer!ParkIdle, Timer!ParkUntil,
           Timer!WakeSignalled, Timer!Parked
  <2>3. CASE StartRegistering \/ CallListener \/ CallDestroyed
    BY <2>3 DEF StartRegistering, CallListener, CallDestroyed, timer_vars, main_vars
  <2>4. CASE RegisterTimer \/ DispatchEnds
    BY <2>4 DEF RegisterTimer, DispatchEnds, main_vars, Timer!Enter, Timer!FinishDispatch
  <2> QED
    BY <1>4, <2>1, <2>2, <2>3, <2>4 DEF worker
<1>5. CASE PushBacksCollide \/ SpuriousWakeup \/ Tick \/ UNCHANGED vars
  BY <1>5 DEF PushBacksCollide, SpuriousWakeup, Tick, vars, timer_vars, main_vars,
         Timer!SpuriousWakeup, Timer!Tick
<1> QED
  BY <1>1, <1>2, <1>3, <1>4, <1>5 DEF Next, main, Terminated

LEMMA SleepStep ==
  TimerKnown /\ ClockBound /\ PhaseKnown /\ SleepCovers /\ [Next]_vars => SleepCovers'
<1> SUFFICES ASSUME TimerKnown, ClockBound, PhaseKnown, SleepCovers, [Next]_vars PROVE SleepCovers'
  OBVIOUS
<1> USE DEF SleepCovers, ParserAlive, Delay, Nap, Timer!Time
<1>1. /\ now \in Nat /\ wake_at \in Nat
      /\ \A j \in m_jobs \cup fired : j.fire_at \in Nat
  BY SIPxMainAssumption DEF ClockBound, TimerKnown, TimerTheorems!TypeOK, TimerTheorems!Job,
     TimerTheorems!Firing, TimerTheorems!Time
<1>2. CASE schedule_after
  <2>1. m_jobs = {} /\ fired = {}
    BY <1>2, OneJob DEF schedule_after, PhaseKnown
  <2> QED
    BY <1>1, <1>2, <2>1 DEF schedule_after, Timer!schedule_at
<1>3. CASE sleep_for
  BY <1>1, <1>3, SIPxMainAssumption DEF sleep_for, timer_vars, ClockBound
<1>4. CASE ConstructParser \/ RegisterParser \/ Leave
  BY <1>1, <1>4 DEF ConstructParser, RegisterParser, Leave, timer_vars
<1>5. CASE DestroyTimer
  BY <1>1, <1>5 DEF DestroyTimer, Timer!RequestStop, Timer!NotifyStop, Timer!Join
<1>6. CASE RunLoop /\ Timer!WakeTimeout
  <2>1. UNCHANGED <<now, main_pc, wake_at>>
    BY <1>6 DEF RunLoop, main_vars, Timer!WakeTimeout, Timer!TimedOut
  <2>2. \A f \in m_jobs' \cup fired' : \E j \in m_jobs \cup fired : j.fire_at = f.fire_at
    BY <1>6 DEF Timer!WakeTimeout
  <2> QED
    BY <1>1, <2>1, <2>2
<1>7. CASE UNCHANGED <<now, m_jobs, fired, main_pc, wake_at>>
  BY <1>7
<1>8. CASE worker
  BY <1>6, <1>7, <1>8 DEF worker, StartRegistering, RegisterTimer, RunLoop, CallListener, CallDestroyed,
         DispatchEnds, timer_vars, main_vars, Timer!Enter, Timer!CheckRunning, Timer!ParkIdle,
         Timer!ParkUntil, Timer!WakeSignalled, Timer!FinishDispatch
<1>9. CASE Tick
  BY <1>1, <1>9 DEF Tick, Timer!Tick, main_vars
<1>10. CASE PushBacksCollide \/ SpuriousWakeup \/ UNCHANGED vars
  BY <1>7, <1>10 DEF PushBacksCollide, SpuriousWakeup, vars, timer_vars, main_vars, Timer!SpuriousWakeup
<1> QED
  BY <1>2, <1>3, <1>4, <1>5, <1>8, <1>9, <1>10 DEF Next, main, Terminated

(* A worker that is late leaves its mark on behind: an instant that does   *)
(* not find it asleep, or gone, is one it could have used.                 *)
LEMMA OnTimeStep ==
  TimerKnown /\ ClockBound /\ PhaseKnown /\ SleepCovers /\ Flags /\ OnTime /\ [Next]_vars => OnTime'
<1> SUFFICES ASSUME TimerKnown, ClockBound, PhaseKnown, SleepCovers, Flags, OnTime, [Next]_vars,
                    ~behind'
             PROVE  /\ \A j \in m_jobs' : now' <= j.fire_at
                    /\ run_pc' = "dispatch" => \A f \in fired' : now' <= f.fire_at
  BY DEF OnTime
<1>1. /\ now \in Nat /\ wake_at \in Nat /\ deadline \in Nat
      /\ \A j \in m_jobs \cup fired : j.fire_at \in Nat
      /\ behind \in BOOLEAN
  BY SIPxMainAssumption DEF ClockBound, SleepCovers, Timer!Time, TimerKnown, TimerTheorems!TypeOK,
     TimerTheorems!Job, TimerTheorems!Firing, TimerTheorems!Time, Flags
<1>2. ~behind
  <2>1. behind => behind'
    BY DEF Next, main, worker, ConstructParser, RegisterParser, schedule_after, sleep_for, Leave,
       DestroyTimer, StartRegistering, RegisterTimer, RunLoop, CallListener, CallDestroyed, DispatchEnds,
       PushBacksCollide, SpuriousWakeup, Tick, Terminated, vars
  <2> QED
    BY <2>1
<1>3. /\ \A j \in m_jobs : now <= j.fire_at
      /\ run_pc = "dispatch" => \A f \in fired : now <= f.fire_at
  BY <1>2 DEF OnTime
<1>4. CASE UNCHANGED <<now, m_jobs, fired>> /\ (run_pc' = "dispatch" => run_pc = "dispatch")
  BY <1>3, <1>4
<1>5. CASE schedule_after
  <2>1. m_jobs = {} /\ fired = {}
    BY <1>5, OneJob DEF schedule_after, PhaseKnown
  <2> QED
    BY <1>1, <1>5, <2>1 DEF schedule_after, Timer!schedule_at, Delay
<1>6. CASE main
  BY <1>4, <1>5, <1>6 DEF main, ConstructParser, RegisterParser, sleep_for, Leave, DestroyTimer, timer_vars,
         Timer!RequestStop, Timer!NotifyStop, Timer!Join
<1>7. CASE RunLoop /\ Timer!WakeTimeout
  <2>1. UNCHANGED now /\ m_jobs' \subseteq m_jobs
    BY <1>7 DEF Timer!WakeTimeout, Timer!TimedOut
  <2>2. fired = {}
    BY <1>7, OneJob DEF Timer!WakeTimeout, PhaseKnown
  <2>3. \A f \in fired' : \E j \in m_jobs : j.fire_at = f.fire_at
    BY <1>7, <2>2 DEF Timer!WakeTimeout
  <2> QED
    BY <1>3, <2>1, <2>3
<1>8. CASE worker
  BY <1>4, <1>7, <1>8 DEF worker, StartRegistering, RegisterTimer, RunLoop, CallListener, CallDestroyed,
         DispatchEnds, timer_vars, Timer!Enter, Timer!CheckRunning, Timer!ParkIdle,
         Timer!ParkUntil, Timer!WakeSignalled, Timer!FinishDispatch
<1>9. CASE Tick
  <2>1. now' = now + 1 /\ UNCHANGED <<m_jobs, fired, run_pc>> /\ WorkerIdle
    BY <1>1, <1>9 DEF Tick, Timer!Tick
  <2>2. run_pc # "dispatch"
    BY <2>1 DEF WorkerIdle, Timer!Parked
  <2>3. ASSUME NEW j \in m_jobs PROVE now + 1 <= j.fire_at
    <3>1. j.fire_at \in Nat /\ now <= j.fire_at
      BY <1>1, <1>3
    <3>2. CASE run_pc = "exited"
      <4>1. ~ParserAlive
        BY <3>2 DEF PhaseKnown
      <4>2. j.fire_at < wake_at /\ now >= wake_at
        BY <4>1 DEF SleepCovers, ParserAlive
      <4> QED
        BY <1>1, <3>1, <4>2
    <3>3. CASE run_pc # "exited"
      <4>1. TimerTheorems!Parked /\ ~signalled
        BY <2>1, <3>3 DEF WorkerIdle, Timer!Parked, TimerTheorems!Parked
      <4>2. run_pc = "timed_waiting" /\ deadline <= j.fire_at
        BY <4>1 DEF TimerKnown, TimerTheorems!NoOversleep, TimerTheorems!Parked
      <4>3. now < deadline
        BY <2>1, <4>2 DEF WorkerIdle
      <4> QED
        BY <1>1, <3>1, <4>2, <4>3
    <3> QED
      BY <3>2, <3>3
  <2> QED
    BY <2>1, <2>2, <2>3
<1>10. CASE PushBacksCollide \/ SpuriousWakeup \/ UNCHANGED vars
  BY <1>4, <1>10 DEF PushBacksCollide, SpuriousWakeup, vars, timer_vars, Timer!SpuriousWakeup
<1> QED
  BY <1>6, <1>8, <1>9, <1>10 DEF Next, Terminated

(* Undefined behaviour comes of one race or the other.                     *)
LEMMA FlagsStep ==
  ClockBound /\ TimerKnown /\ ListKnown /\ PhaseKnown /\ SleepCovers /\ OnTime /\ Flags /\ [Next]_vars
    => Flags'
<1> SUFFICES ASSUME ClockBound, TimerKnown, ListKnown, PhaseKnown, SleepCovers, OnTime, Flags, [Next]_vars
             PROVE  Flags'
  OBVIOUS
<1> USE DEF Flags
<1>1. (overlapped => overlapped') /\ overlapped \in BOOLEAN
  BY DEF ListKnown, Next, main, worker, ConstructParser, RegisterParser, schedule_after, sleep_for, Leave,
     DestroyTimer, StartRegistering, RegisterTimer, RunLoop, CallListener, CallDestroyed, DispatchEnds,
     PushBacksCollide, SpuriousWakeup, Tick, Terminated, vars, dispatcher_vars, PushBackReads, PushBackWrites
<1>2. CASE PushBacksCollide
  <2>1. overlapped
    BY <1>2 DEF PushBacksCollide, ListKnown, ListInTurn, Thread
  <2> QED
    BY <1>1, <1>2, <2>1 DEF PushBacksCollide
<1>3. CASE CallDestroyed
  <2>1. behind
    <3> SUFFICES ASSUME ~behind PROVE FALSE
      OBVIOUS
    <3>1. PICK f \in fired : TRUE
      BY <1>3 DEF CallDestroyed, PhaseKnown
    <3>2. f.fire_at \in Nat /\ now \in Nat /\ wake_at \in Nat
      BY SIPxMainAssumption DEF ClockBound, SleepCovers, Timer!Time, TimerKnown, TimerTheorems!TypeOK,
         TimerTheorems!Firing, TimerTheorems!Time
    <3>3. now <= f.fire_at
      BY <1>3 DEF CallDestroyed, OnTime
    <3>4. f.fire_at < wake_at /\ now >= wake_at
      BY <1>3 DEF CallDestroyed, SleepCovers, ParserAlive
    <3> QED
      BY <3>2, <3>3, <3>4
  <2> QED
    BY <1>3, <2>1 DEF CallDestroyed
<1>4. CASE UNCHANGED <<behind, undefined>>
  BY <1>1, <1>4
<1>5. CASE Tick
  BY <1>1, <1>5 DEF Tick, WorkerIdle, Timer!Parked
<1> QED
  BY <1>2, <1>3, <1>4, <1>5 DEF Next, main, worker, ConstructParser, RegisterParser, schedule_after, sleep_for,
     Leave, DestroyTimer, StartRegistering, RegisterTimer, RunLoop, CallListener, DispatchEnds,
     SpuriousWakeup, Terminated, vars

(* The list stands still from the moment the job leaves the queue.         *)
LEMMA DeliveryStep ==
  TimerKnown /\ ListKnown /\ PhaseKnown /\ Delivery /\ [Next]_vars => Delivery'
<1> SUFFICES ASSUME TimerKnown, ListKnown, PhaseKnown, Delivery, [Next]_vars PROVE Delivery'
  OBVIOUS
<1> USE DEF Delivery
<1> DEFINE Calm == UNCHANGED <<fired, called, loop>> /\ (run_pc' = "dispatch" <=> run_pc = "dispatch")
<1>1. CASE Calm /\ UNCHANGED listeners
  BY <1>1
<1>2. CASE Calm /\ fired = {}
  BY <1>2 DEF PhaseKnown
<1>3. CASE ConstructParser
  BY <1>1, <1>3 DEF ConstructParser, PushBackReads, timer_vars
<1>4. CASE RegisterParser
  <2>1. fired = {}
    BY <1>4, OneJob DEF RegisterParser, PhaseKnown
  <2> QED
    BY <1>2, <1>4, <2>1 DEF RegisterParser, PushBackWrites, timer_vars
<1>5. CASE schedule_after \/ sleep_for \/ Leave \/ DestroyTimer
  BY <1>1, <1>5 DEF schedule_after, sleep_for, Leave, DestroyTimer, timer_vars, dispatcher_vars,
         Timer!schedule_at, Timer!RequestStop, Timer!NotifyStop, Timer!Join
<1>6. CASE StartRegistering
  BY <1>1, <1>6 DEF StartRegistering, PushBackReads, timer_vars
<1>7. CASE RegisterTimer
  BY <1>2, <1>7 DEF RegisterTimer, PushBackWrites, Timer!Enter, PhaseKnown
<1>8. CASE RunLoop /\ Timer!WakeTimeout
  <2>1. fired = {}
    BY <1>8, OneJob DEF Timer!WakeTimeout, PhaseKnown
  <2>2. fired' # {} /\ run_pc' = "dispatch" /\ UNCHANGED <<listeners, called, loop>>
    BY <1>8 DEF RunLoop, Timer!WakeTimeout, dispatcher_vars
  <2>3. called = <<>> /\ loop = 1 /\ Len(called) = 0 /\ Len(listeners) \in Nat
    BY <2>1 DEF ListKnown
  <2> QED
    BY <2>2, <2>3
<1>9. CASE RunLoop /\ ~Timer!WakeTimeout
  BY <1>1, <1>9 DEF RunLoop, dispatcher_vars, Timer!CheckRunning, Timer!ParkIdle, Timer!ParkUntil,
         Timer!WakeSignalled, Timer!Parked
<1>10. CASE CallListener
  <2>1. /\ run_pc = "dispatch" /\ UNCHANGED <<listeners, run_pc, fired>>
        /\ loop = Len(called) + 1 /\ loop <= Len(listeners)
        /\ called' = Append(called, listeners[loop]) /\ loop' = loop + 1
    BY <1>10 DEF CallListener, timer_vars
  <2>2. listeners[loop] \in {"parser", "timer"} /\ Len(called) \in Nat /\ Len(listeners) \in Nat
    BY <2>1 DEF ListKnown
  <2>3. /\ called' \in Seq({"parser", "timer"})
        /\ Len(called') = Len(called) + 1
        /\ \A i \in 1 .. Len(called') : called'[i] = listeners[i]
    BY <2>1, <2>2
  <2> QED
    BY <2>1, <2>2, <2>3 DEF PhaseKnown
<1>11. CASE DispatchEnds
  <2>1. /\ run_pc = "dispatch" /\ run_pc' = "check" /\ UNCHANGED <<listeners, called, fired>>
        /\ loop' = 1 /\ loop > Len(listeners) /\ fired # {}
    BY <1>11 DEF DispatchEnds, Timer!FinishDispatch, PhaseKnown
  <2>2. Len(called) = Len(listeners)
    BY <2>1 DEF ListKnown
  <2>3. called = listeners
    BY <2>1, <2>2 DEF ListKnown
  <2> QED
    BY <2>1, <2>3
<1>12. CASE CallDestroyed \/ PushBacksCollide \/ SpuriousWakeup \/ Tick \/ UNCHANGED vars
  BY <1>1, <1>12 DEF CallDestroyed, PushBacksCollide, SpuriousWakeup, Tick, vars, timer_vars, dispatcher_vars,
         Timer!SpuriousWakeup, Timer!Parked, Timer!Tick
<1> QED
  BY <1>3, <1>4, <1>5, <1>6, <1>7, <1>8, <1>9, <1>10, <1>11, <1>12 DEF Next, main, worker, Terminated

-----------------------------------------------------------------------------
(* The theorems about both threads *)

LEMMA TimerIsKnown == Spec => []TimerKnown
BY TimerFacts, PTL DEF TimerKnown

LEMMA ClockIsBounded == Spec => []ClockBound
<1>1. Init => ClockBound
  BY SIPxMainAssumption DEF Init, Timer!Init, ClockBound
<1> QED
  BY <1>1, ClockBoundStep, PTL DEF Spec

LEMMA ThreadsAreKnown == Spec => []ThreadsKnown
<1>1. Init => ThreadsKnown
  <2> SUFFICES ASSUME Init PROVE ThreadsKnown
    OBVIOUS
  <2> USE DEF Init, Timer!Init
  <2>1. PhaseKnown
    BY DEF PhaseKnown, MainPC
  <2>2. SleepCovers
    BY SIPxMainAssumption DEF SleepCovers, Timer!Time, ParserAlive
  <2>3. OnTime /\ Flags
    BY DEF OnTime, Flags
  <2>4. Delivery
    BY DEF Delivery
  <2> QED
    BY <2>1, <2>2, <2>3, <2>4 DEF ThreadsKnown
<1>2. TimerKnown /\ ClockBound /\ ListKnown /\ ThreadsKnown /\ [Next]_vars => ThreadsKnown'
  BY PhaseStep, SleepStep, OnTimeStep, DeliveryStep, FlagsStep DEF ThreadsKnown
<1> QED
  BY <1>1, <1>2, TimerIsKnown, ClockIsBounded, ListIsKnown, PTL DEF Spec

(* The variables keep their types.                                         *)
THEOREM TypeCorrect == Spec => []TypeOK
<1>1. TimerKnown /\ ListKnown /\ ThreadsKnown => TypeOK
  <2> SUFFICES ASSUME TimerKnown, ListKnown, ThreadsKnown PROVE TypeOK
    OBVIOUS
  <2>1. Timer!TypeOK
    BY DEF TimerKnown, Timer!TypeOK, TimerTheorems!TypeOK, Timer!Time, TimerTheorems!Time, Timer!Job,
       TimerTheorems!Job, Timer!Firing, TimerTheorems!Firing, Timer!RunPC, TimerTheorems!RunPC
  <2> QED
    BY <2>1 DEF TypeOK, ListKnown, PlacesHeld, ThreadsKnown, PhaseKnown, SleepCovers, Delivery, Flags
<1> QED
  BY <1>1, TimerIsKnown, ListIsKnown, ThreadsAreKnown, PTL

(* A torn list needs two registrations at once, and a call of a destroyed  *)
(* parser needs a worker that let an instant pass: whatever the clock does.*)
THEOREM OnlyRacesUndefined == Spec => []UndefinedOnlyByRaces
<1>1. ThreadsKnown => UndefinedOnlyByRaces
  BY DEF ThreadsKnown, Flags, UndefinedOnlyByRaces
<1> QED
  BY <1>1, ThreadsAreKnown, PTL

(* The event reaches the listeners in order and once, and all of them by   *)
(* the time the parser is destroyed if the worker was never late.          *)
THEOREM DeliveredInOrder == Spec => []DeliveredOnce
<1>1. TimerKnown /\ ClockBound /\ ListKnown /\ ThreadsKnown => DeliveredOnce
  <2> SUFFICES ASSUME TimerKnown, ClockBound, ListKnown, ThreadsKnown PROVE DeliveredOnce
    OBVIOUS
  <2> USE DEF ThreadsKnown
  <2>1. /\ called \in Seq({"parser", "timer"}) /\ listeners \in Seq({"parser", "timer"})
        /\ Len(called) <= Len(listeners)
        /\ \A i \in 1 .. Len(called) : called[i] = listeners[i]
    BY DEF Delivery, ListKnown
  <2>2. called = SubSeq(listeners, 1, Len(called))
    BY <2>1
  <2>3. ASSUME ~ParserAlive, ~behind PROVE called = listeners
    <3>1. m_jobs = {} /\ (run_pc = "dispatch" => fired = {})
      <4>1. now \in Nat /\ wake_at \in Nat /\ now >= wake_at
            /\ \A j \in m_jobs \cup fired : j.fire_at \in Nat /\ j.fire_at < wake_at
        BY <2>3, SIPxMainAssumption DEF ClockBound, SleepCovers, ParserAlive, Timer!Time, TimerKnown,
           TimerTheorems!TypeOK, TimerTheorems!Job, TimerTheorems!Firing, TimerTheorems!Time
      <4>2. /\ \A j \in m_jobs : now <= j.fire_at
            /\ run_pc = "dispatch" => \A f \in fired : now <= f.fire_at
        BY <2>3 DEF OnTime
      <4> QED
        BY <4>1, <4>2
    <3>2. m_jobs # {} \/ fired # {}
      BY <2>3, OneJob DEF PhaseKnown, ParserAlive
    <3> QED
      BY <3>1, <3>2 DEF Delivery
  <2> QED
    BY <2>1, <2>2, <2>3 DEF DeliveredOnce
<1> QED
  BY <1>1, TimerIsKnown, ClockIsBounded, ListIsKnown, ThreadsAreKnown, PTL
=============================================================================
