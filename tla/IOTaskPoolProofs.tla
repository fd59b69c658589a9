-------------------------- MODULE IOTaskPoolProofs --------------------------
(* IOScheduler implements TaskPool, for any number of threads, jobs, timers *)
(* and events.                                                              *)
EXTENDS IOSchedulerProofs, TaskPoolProofs

(***************************************************************************)
(* The invariant: a timer or an event is the promise of one schedule().    *)
(***************************************************************************)
\* A job that a timer or an event will schedule was never scheduled yet, ...
Promised(j) == j \in timers \cup waiting \/ \E t \in Threads : j \in cbs[t]
PromisedIsNew == \A j \in Jobs : Promised(j) => fiber[j] = "NEW"

\* ... and is in one place only: a timer, an event, the hands of one thread.
OnePromise ==
  /\ timers \cap waiting = {}
  /\ \A t \in Threads : cbs[t] \cap (timers \cup waiting) = {}
  /\ \A t, u \in Threads : t # u => cbs[t] \cap cbs[u] = {}

\* Jobs of IOScheduler do not schedule themselves.
QueuedIsReady == \A j \in Jobs : Queued(j) => fiber[j] = "READY"

IOMapInv == MapInv /\ PromisedIsNew /\ OnePromise /\ QueuedIsReady

LEMMA InitIOMapInv == IOInit => IOMapInv
BY ConstantsAssumption
   DEF IOInit, IOMapInv, MapInv, Unique, OneTaker, OneRunner, Runs, QueuedFits,
       Queued, CallerOut, TakerFits, RunnerFits, Threads, Promised,
       PromisedIsNew, OnePromise, QueuedIsReady

(***************************************************************************)
(* It is inductive.                                                        *)
(***************************************************************************)
\* A step that touches neither the fibers, the queue, nor any promise.
LEMMA PromisesKept ==
  ASSUME PromisedIsNew, OnePromise, QueuedIsReady,
         UNCHANGED <<tasks, fiber, timers, waiting, cbs>>
  PROVE  (PromisedIsNew /\ OnePromise /\ QueuedIsReady)'
BY DEF PromisedIsNew, Promised, OnePromise, QueuedIsReady, Queued

\* What sits in the hands of idle() is scheduled for the first time.
LEMMA SchedulingFacts ==
  ASSUME IOInv, IOMapInv, NEW t \in Threads, NEW j \in cbs[t] \cup got[t],
         Scheduling(t, j)
  PROVE  /\ j \in Jobs /\ fiber[j] = "NEW" /\ Promised(j)
         /\ Push(t, j, AnyThread)
         /\ fiber' = [fiber EXCEPT ![j] = "READY"]
         /\ UNCHANGED <<pc, cur, ctl>>
         /\ pc[t] = "inIdle"
<1>1. j # Pipe /\ j \in Jobs
  <2>1. Pipe \notin Jobs /\ cbs[t] \in SUBSET Jobs
        /\ got[t] \in SUBSET (Jobs \cup {Pipe})
    BY IOConstants DEF IOInv, IOTypes
  <2>2. j \in cbs[t] \/ j \in got[t] \ {Pipe}
    BY DEF Scheduling
  <2>3. QED
    BY <2>1, <2>2
<1>2. Promised(j)
  BY <1>1 DEF Promised, IOInv, GotIsWaiting
<1>3. QED
  BY <1>1, <1>2 DEF IOMapInv, PromisedIsNew, Scheduling, Scheduled, InIdle, At

\* ... and then the promise is kept: no other timer or event holds the job.
LEMMA PromiseLeaves ==
  ASSUME IOInv, IOMapInv, NEW t \in Threads, NEW j \in cbs[t] \cup got[t],
         Scheduling(t, j)
  PROVE  /\ OnePromise' /\ ~Promised(j)'
         /\ \A k \in Jobs : Promised(k)' => Promised(k)
<1>1. \/ /\ j \in cbs[t] /\ cbs' = [cbs EXCEPT ![t] = @ \ {j}]
         /\ UNCHANGED <<timers, waiting>>
      \/ /\ j \in got[t] \ {Pipe} /\ waiting' = waiting \ {j}
         /\ UNCHANGED <<timers, cbs>>
  <2>1. ASSUME j \in cbs[t], ScheduleExpired(t)
        PROVE  cbs' = [cbs EXCEPT ![t] = @ \ {j}] /\ UNCHANGED <<timers, waiting>>
    <3>1. PICK k \in cbs[t] : Scheduled(t, k) /\ cbs' = [cbs EXCEPT ![t] = @ \ {k}]
                              /\ UNCHANGED <<timers, waiting>>
      BY <2>1 DEF ScheduleExpired
    <3>2. k = j
      <4>1. k \in Jobs /\ j \in Jobs /\ fiber[j] = "NEW"
        BY <2>1, <3>1, SchedulingFacts DEF IOInv, IOTypes
      <4>2. fiber[k] = "NEW"
        BY <3>1, <4>1 DEF IOMapInv, PromisedIsNew, Promised
      <4>3. fiber' = [fiber EXCEPT ![k] = "READY"]
            /\ fiber' = [fiber EXCEPT ![j] = "READY"]
        BY <3>1, SchedulingFacts DEF Scheduled
      <4>4. QED
        BY <4>1, <4>2, <4>3 DEF IOInv, TypeOK
    <3>3. QED
      BY <3>1, <3>2
  <2>2. ASSUME j \in got[t] \ {Pipe}, HandleEvent(t)
        PROVE  waiting' = waiting \ {j} /\ UNCHANGED <<timers, cbs>>
    <3>1. PICK k \in got[t] :
            /\ got' = [got EXCEPT ![t] = @ \ {k}]
            /\ IF k = Pipe
               THEN UNCHANGED <<vars, waiting, spot>>
               ELSE Scheduled(t, k) /\ waiting' = waiting \ {k} /\ Move(t, "count")
      BY <2>2 DEF HandleEvent
    <3>2. fiber' = [fiber EXCEPT ![j] = "READY"] /\ fiber[j] = "NEW" /\ j \in Jobs
      BY SchedulingFacts
    <3>3. fiber' # fiber
      BY <3>2 DEF IOInv, TypeOK
    <3>4. k # Pipe /\ Scheduled(t, k) /\ waiting' = waiting \ {k}
      BY <3>1, <3>3 DEF vars
    <3>5. k \in Jobs /\ fiber[k] = "NEW"
      BY <3>1, <3>4 DEF IOInv, IOTypes, GotIsWaiting, IOMapInv, PromisedIsNew,
                        Promised
    <3>6. k = j
      BY <3>2, <3>4, <3>5 DEF Scheduled, IOInv, TypeOK
    <3>7. QED
      BY <2>2, <3>4, <3>6 DEF HandleEvent
  <2>3. QED
    BY <2>1, <2>2 DEF Scheduling
<1>2. cbs \in [Threads -> SUBSET Jobs] /\ got[t] \ {Pipe} \subseteq waiting
  BY DEF IOInv, IOTypes, GotIsWaiting
<1>3. QED
  BY <1>1, <1>2 DEF IOMapInv, OnePromise, Promised

LEMMA ProgramPromises ==
  ASSUME IOInv, IOMapInv, NEW t \in Threads, Program(t)
  PROVE  (PromisedIsNew /\ OnePromise /\ QueuedIsReady)'
<1>1. PICK j \in Jobs :
        /\ Unused(j)
        /\ \/ \E p \in Pins : NewTask(t, j, p)
           \/ ArmTimer(t, j)
           \/ AddEvent(j)
  BY DEF Program
<1>2. fiber[j] = "NEW" /\ ~Promised(j)
  BY <1>1 DEF Unused, Promised
<1>3. ASSUME NEW p \in Pins, NewTask(t, j, p)
      PROVE  (PromisedIsNew /\ OnePromise /\ QueuedIsReady)'
  <2>1. /\ Push(t, j, p) \/ Push(Caller, j, p)
        /\ fiber' = [fiber EXCEPT ![j] = "READY"]
        /\ UNCHANGED <<timers, waiting, cbs>>
    BY <1>3 DEF NewTask, Spawn, Submit, io
  <2>2. p \in Threads \cup {AnyThread} /\ ~Queued(j)
    BY <1>2, ConstantsAssumption DEF IOMapInv, QueuedIsReady
  <2>3. \A k \in Jobs : Queued(k)' <=> Queued(k) \/ k = j
    BY <2>1, <2>2, AfterPush DEF IOMapInv, MapInv, IOInv
  <2>4. \A k \in Jobs : fiber'[k] = IF k = j THEN "READY" ELSE fiber[k]
    BY <2>1 DEF IOInv, TypeOK
  <2>5. QED
    BY <1>2, <2>1, <2>3, <2>4
       DEF IOMapInv, PromisedIsNew, Promised, OnePromise, QueuedIsReady
<1>4. ASSUME ArmTimer(t, j) \/ AddEvent(j)
      PROVE  (PromisedIsNew /\ OnePromise /\ QueuedIsReady)'
  <2>1. /\ UNCHANGED <<tasks, fiber, cbs>>
        /\ \/ timers' = timers \cup {j} /\ UNCHANGED waiting
           \/ waiting' = waiting \cup {j} /\ UNCHANGED timers
    BY <1>4 DEF ArmTimer, AddEvent, vars
  <2>2. QED
    BY <1>2, <2>1 DEF IOMapInv, PromisedIsNew, Promised, OnePromise,
                      QueuedIsReady, Queued
<1>5. QED
  BY <1>1, <1>3, <1>4

\* MainFunc(): a job that runs is not queued here.
LEMMA FinishIsJobStep ==
  ASSUME IOInv, IOMapInv, NEW t \in Threads, Finish(t)
  PROVE  ~Queued(cur[t])
BY DEF Finish, At, IOInv, TypeOK, Busy, IOMapInv, MapInv, RunnerFits,
       QueuedIsReady

LEMMA IOPromises ==
  ASSUME IOInv, IOMapInv, IONext
  PROVE  (PromisedIsNew /\ OnePromise /\ QueuedIsReady)'
<1> DEFINE Goal == (PromisedIsNew /\ OnePromise /\ QueuedIsReady)'
<1> TypeOK
  BY DEF IOInv
<1>1. ASSUME UNCHANGED <<tasks, fiber, timers, waiting, cbs>> PROVE Goal
  BY <1>1, PromisesKept DEF IOMapInv
<1>2. ASSUME NEW t \in Threads, SharedStep(t) PROVE Goal
  <2>1. CASE Take(t) /\ UNCHANGED io
    <3>1. UNCHANGED <<fiber, timers, waiting, cbs>>
      BY <2>1 DEF Take, io
    <3>2. \A k \in Jobs : Queued(k)' => Queued(k)
      BY <2>1, AfterTakeOut DEF Take, IOMapInv, MapInv, Queued
    <3>3. QED
      BY <3>1, <3>2
         DEF IOMapInv, PromisedIsNew, Promised, OnePromise, QueuedIsReady
  <2>2. CASE Resume(t) /\ UNCHANGED io
    <3>1. UNCHANGED <<tasks, timers, waiting, cbs>>
      BY <2>2 DEF Resume, io
    <3>2. cur[t] \in Jobs /\ fiber[cur[t]] # "NEW" /\ ~Queued(cur[t])
      BY <2>2 DEF Resume, At, TypeOK, Busy, IOMapInv, MapInv, TakerFits
    <3>3. \A k \in Jobs : k = cur[t] \/ fiber'[k] = fiber[k]
      BY <2>2 DEF Resume, TypeOK
    <3>4. QED
      BY <3>1, <3>2, <3>3 DEF IOMapInv, PromisedIsNew, Promised, OnePromise,
                              QueuedIsReady, Queued
  <2>3. ASSUME \/ TakeNone(t) \/ Return(t) \/ IdleEnter(t) \/ IdleLeave(t),
               UNCHANGED io
        PROVE  Goal
    BY <1>1, <2>3 DEF TakeNone, Return, IdleEnter, IdleLeave, io
  <2>4. CASE TickleIdle(t)
    BY <1>1, <2>4 DEF TickleIdle, Tickle
  <2>5. QED
    BY <1>2, <2>1, <2>2, <2>3, <2>4 DEF SharedStep
<1>3. ASSUME NEW t \in Threads, Finish(t), UNCHANGED io PROVE Goal
  <2>1. ~Queued(cur[t]) /\ cur[t] \in Jobs /\ fiber[cur[t]] = "RUNNING"
    BY <1>3, FinishIsJobStep
       DEF Finish, At, TypeOK, Busy, IOMapInv, MapInv, RunnerFits
  <2>2. \A k \in Jobs : k = cur[t] \/ fiber'[k] = fiber[k]
    BY <1>3 DEF Finish, TypeOK
  <2>3. UNCHANGED <<tasks, timers, waiting, cbs>>
    BY <1>3 DEF Finish, io
  <2>4. QED
    BY <2>1, <2>2, <2>3 DEF IOMapInv, PromisedIsNew, Promised, OnePromise,
                            QueuedIsReady, Queued
<1>4. ASSUME NEW t \in Threads, Collect(t) PROVE Goal
  <2>1. /\ UNCHANGED <<tasks, fiber, waiting>>
        /\ cbs' = [cbs EXCEPT ![t] = due] /\ timers' = timers \ due
    BY <1>4 DEF Collect, vars
  <2>2. due \subseteq timers /\ cbs \in [Threads -> SUBSET Jobs]
    BY DEF IOInv, IOTypes
  <2>3. cbs'[t] = due /\ \A v \in Threads \ {t} : cbs'[v] = cbs[v]
    BY <2>1, <2>2
  <2>4. OnePromise'
    BY <2>1, <2>2, <2>3 DEF IOMapInv, OnePromise
  <2>5. \A k \in Jobs : Promised(k)' => Promised(k)
    BY <2>1, <2>2, <2>3 DEF Promised
  <2>6. QED
    BY <2>1, <2>4, <2>5 DEF IOMapInv, PromisedIsNew, QueuedIsReady, Queued
<1>5. ASSUME NEW t \in Threads, Looking(t) PROVE Goal
  <2>1. CASE HandleEvent(t) /\ UNCHANGED vars
    <3>1. UNCHANGED <<tasks, fiber, timers, cbs>> /\ waiting' \subseteq waiting
      BY <2>1 DEF HandleEvent, vars
    <3>2. QED
      BY <3>1 DEF IOMapInv, PromisedIsNew, Promised, OnePromise, QueuedIsReady,
                  Queued
  <2>2. CASE ReadQueue(t) /\ UNCHANGED vars
    BY <1>1, <2>2 DEF ReadQueue, EndIdle, vars, io
  <2>3. CASE ReadTimers(t) \/ ReadPending(t) \/ Wake(t) \/ CountDown(t)
    BY <1>1, <2>3 DEF ReadTimers, ReadPending, Wake, CountDown, vars
  <2>4. QED
    BY <1>4, <1>5, <2>1, <2>2, <2>3 DEF Looking
<1>6. ASSUME NEW t \in Threads, EndIdle(t) \/ YieldIdle(t) PROVE Goal
  BY <1>1, <1>6 DEF EndIdle, YieldIdle, io
<1>7. ASSUME NEW t \in Threads, NEW j \in cbs[t] \cup got[t], Scheduling(t, j)
      PROVE  Goal
  <2>1. /\ j \in Jobs /\ fiber[j] = "NEW" /\ Push(t, j, AnyThread)
        /\ fiber' = [fiber EXCEPT ![j] = "READY"]
    BY <1>7, SchedulingFacts
  <2>2. \A k \in Jobs : Queued(k)' <=> Queued(k) \/ k = j
    BY <2>1, AfterPush DEF IOMapInv, QueuedIsReady, MapInv
  <2>3. \A k \in Jobs : fiber'[k] = IF k = j THEN "READY" ELSE fiber[k]
    BY <2>1 DEF TypeOK
  <2>4. OnePromise' /\ ~Promised(j)' /\ \A k \in Jobs : Promised(k)' => Promised(k)
    BY <1>7, PromiseLeaves
  <2>5. QED
    BY <2>2, <2>3, <2>4 DEF IOMapInv, PromisedIsNew, QueuedIsReady
<1>8. ASSUME NEW t \in Threads, Program(t) PROVE Goal
  BY <1>8, ProgramPromises
<1>9. CASE (StopCall(IOQuiet) \/ StopStep) /\ UNCHANGED io
  BY <1>1, <1>9 DEF StopCall, StopStep, StopRoot, RootDone, Join, io
<1>10. CASE Environment
  BY <1>1, <1>10 DEF Environment, TimeComes, EventComes, vars
<1>11. QED
  BY <1>2, <1>3, <1>5, <1>6, <1>7, <1>8, <1>9, <1>10, Cases

LEMMA IOMapInvStep ==
  ASSUME IOInv, IOMapInv, IONext
  PROVE  IOMapInv'
<1> USE ConstantsAssumption
<1> TypeOK /\ MapInv /\ fault = "none"
  BY DEF IOInv, IOMapInv, IONext
<1> SUFFICES MapInv'
  BY IOPromises DEF IOMapInv
<1>1. ASSUME [Next]_vars PROVE MapInv'
  BY <1>1, MapInvStep
<1>2. ASSUME UNCHANGED <<tasks, fiber, cur>>,
             \A v \in Threads : pc'[v] = pc[v] \/ (pc[v] = "inIdle" /\ pc'[v] = "outIdle")
      PROVE  MapInv'
  <2>1. Unique'
    BY <1>2 DEF MapInv, Unique
  <2>2. CallerOut'
    BY <1>2 DEF MapInv, CallerOut, Threads
  <2>3. Fits'
    BY <1>2, <2>2, FitsElsewhere DEF MapInv, Fits
  <2>4. QED
    BY <2>1, <2>3 DEF MapInv, Fits
<1>3. ASSUME NEW t \in Threads, Finish(t) PROVE MapInv'
  BY <1>1, <1>3, FinishIsJobStep DEF Next, JobStep
<1>4. ASSUME NEW t \in Threads, Looking(t) PROVE MapInv'
  BY <1>2, <1>4 DEF Looking, ReadTimers, ReadPending, Wake, Collect, CountDown,
                    vars
<1>5. ASSUME NEW t \in Threads, EndIdle(t) \/ YieldIdle(t), At(t, "inIdle")
      PROVE  MapInv'
  BY <1>2, <1>5 DEF EndIdle, YieldIdle, At, GoTo, TypeOK
<1>6. ASSUME NEW t \in Threads, NEW j \in cbs[t] \cup got[t], Scheduling(t, j)
      PROVE  MapInv'
  <2>1. Unique' /\ Fits'
    BY <1>6, SchedulingFacts, FitsPush DEF MapInv, Fits
  <2>2. QED
    BY <2>1 DEF MapInv, Fits
<1>7. ASSUME NEW t \in Threads, Program(t) PROVE MapInv'
  <2>1. CASE \E j \in Jobs : ArmTimer(t, j) \/ AddEvent(j)
    BY <1>2, <2>1 DEF ArmTimer, AddEvent, vars
  <2>2. ASSUME NEW j \in Jobs, NEW p \in Pins, NewTask(t, j, p) PROVE MapInv'
    BY <1>1, <2>2, AsScheduler
  <2>3. QED
    BY <1>7, <2>1, <2>2 DEF Program
<1>8. CASE StopCall(IOQuiet)
  BY <1>2, <1>8 DEF StopCall
<1>9. CASE Environment
  BY <1>2, <1>9 DEF Environment, TimeComes, EventComes, vars
<1>10. QED
  BY <1>1, <1>3, <1>4, <1>5, <1>6, <1>7, <1>8, <1>9, Cases, AsScheduler
     DEF ReadQueue, YieldIdle, InIdle

LEMMA IOAllStep ==
  ASSUME Serviceable
  PROVE  IOInv /\ StopInv /\ IOMapInv /\ [IONext]_ioVars
           => IOInv' /\ StopInv' /\ IOMapInv'
<1> SUFFICES ASSUME IOInv, StopInv, IOMapInv, [IONext]_ioVars
             PROVE  IOInv' /\ StopInv' /\ IOMapInv'
  OBVIOUS
<1>1. CASE UNCHANGED ioVars
  <2>1. [Next]_vars /\ UNCHANGED <<tasks, fiber, timers, waiting, cbs>>
    BY <1>1 DEF ioVars, io, vars
  <2>2. IOMapInv'
    BY <2>1, MapInvStep, PromisesKept DEF IOMapInv, IOInv
  <2>3. QED
    BY <2>2, IOStep, StopInvStep
<1>2. CASE IONext
  BY <1>2, IOStep, StopInvStep, IOMapInvStep
<1>3. QED
  BY <1>1, <1>2

(***************************************************************************)
(* A second stop().                                                        *)
(***************************************************************************)
\* When stop() is called a second time every thread has left run(), and what
\* keeps it from returning at once is left for good.
SecondStop ==
  /\ ctl # "user" => stopping
  /\ ctl = "stop" /\ pc[Caller] # "off" =>
       (\A t \in Threads : pc[t] \in {"off", "exit"}) /\ SomethingLeft

LEMMA SecondStopKept ==
  ASSUME SecondStop, UNCHANGED <<ctl, stopping>>,
         \A t \in Threads : pc[t] \in {"off", "exit"} => pc'[t] = pc[t],
         (\A t \in Threads : pc[t] \in {"off", "exit"})
           => UNCHANGED <<tasks, waiting, pc>>
  PROVE  SecondStop'
<1>1. Caller \in Threads
  BY DEF Threads
<1>2. ctl = "stop" /\ pc'[Caller] # "off" => pc[Caller] # "off"
  BY <1>1
<1>3. (\A t \in Threads : pc[t] \in {"off", "exit"})
         => (SomethingLeft' <=> SomethingLeft)
  BY DEF SomethingLeft, Stranded
<1>4. QED
  BY <1>2, <1>3 DEF SecondStop

LEMMA SharedSecond ==
  ASSUME TypeOK, SecondStop, NEW t \in Threads, SharedStep(t)
  PROVE  SecondStop'
<1>1. UNCHANGED <<ctl, stopping>>
  BY DEF SharedStep, TickleIdle, Take, TakeNone, Resume, Return, IdleEnter,
         IdleLeave, Tickle
<1>2. \A v \in Threads : pc[v] \in {"off", "exit"} => pc'[v] = pc[v]
  BY DEF SharedStep, TickleIdle, Take, TakeNone, Resume, Return, IdleEnter,
         IdleLeave, Tickle, At, GoTo, TypeOK
<1>3. (\A v \in Threads : pc[v] \in {"off", "exit"})
        => UNCHANGED <<tasks, waiting, pc>>
  BY DEF SharedStep, TickleIdle, Take, TakeNone, Resume, Return, IdleEnter,
         IdleLeave, Tickle, At
<1>4. QED
  BY <1>1, <1>2, <1>3, SecondStopKept

\* stop() is called again when nobody runs: stopping() is false for something
\* that is left.
LEMMA SecondCall ==
  ASSUME IOInv, StopInv, ActiveExact, SecondStop, ctl = "done", ~IOQuiet
  PROVE  (\A t \in Threads : pc[t] \in {"off", "exit"}) /\ SomethingLeft
<1>1. /\ \A t \in Runners : pc[t] = "exit" /\ idleFiber[t] = "TERM"
      /\ \A t \in Threads : pc[t] \in {"off", "exit"}
  BY ConstantsAssumption DEF StopInv, Leaving, Runners, Threads
<1>2. active = 0
  <2>1. {t \in Threads : Busy(t)} = {}
    BY <1>1 DEF Busy
  <2>2. QED
    BY <2>1, FS_EmptySet DEF ActiveExact
<1>3. pending # 0 => waiting # {}
  <2>1. Counting = {}
    BY <1>1 DEF Counting, StopInv, Empty
  <2>2. QED
    BY <2>1, FS_EmptySet DEF IOInv, PendingCounts
<1>4. tasks # <<>> => \E i \in DOMAIN tasks : Stranded(i)
  <2> SUFFICES ASSUME tasks # <<>> PROVE \E i \in DOMAIN tasks : Stranded(i)
    OBVIOUS
  <2>1. 1 \in DOMAIN tasks
    BY DEF IOInv, TypeOK
  <2>2. \A t \in Runners : ~WillScan(t)
    BY <1>1 DEF WillScan
  <2>3. ~FreeTask
    BY <2>2 DEF StopInv, Served
  <2>4. tasks[1].thread # AnyThread /\ tasks[1].thread \in Runners
    BY <2>1, <2>3 DEF FreeTask, StopInv, PinnedRight
  <2>5. QED
    BY <1>1, <2>1, <2>4 DEF Stranded
<1>5. stopping
  BY DEF SecondStop
<1>6. QED
  BY <1>1, <1>2, <1>3, <1>4, <1>5 DEF IOQuiet, Quiet, SomethingLeft

LEMMA StopSecond ==
  ASSUME IOInv, StopInv, ActiveExact, SecondStop,
         (StopCall(IOQuiet) \/ StopStep) /\ UNCHANGED io
  PROVE  SecondStop'
<1> Caller \in Threads /\ TypeOK
  BY DEF Threads, IOInv
<1>1. CASE StopCall(IOQuiet)
  <2>1. /\ UNCHANGED <<tasks, pc, waiting>>
        /\ ctl \in {"user", "done"} /\ ~IOQuiet /\ stopping' = TRUE /\ ctl' = "stop"
    BY <1>1 DEF StopCall, io
  <2>2. ctl = "user" => pc[Caller] = "off"
    BY DEF StopInv, Leaving
  <2>3. ctl = "done" => (\A t \in Threads : pc[t] \in {"off", "exit"}) /\ SomethingLeft
    BY <2>1, SecondCall
  <2>4. QED
    BY <2>1, <2>2, <2>3 DEF SecondStop, SomethingLeft, Stranded
<1>2. CASE StopRoot
  <2>1. ctl = "stop" /\ stopping' = stopping /\ UNCHANGED <<tasks, waiting>>
        /\ (ctl' \in {"root", "join"} \/ UNCHANGED <<ctl, pc>>)
    BY <1>2 DEF StopRoot, io
  <2>2. QED
    BY <2>1 DEF SecondStop, SomethingLeft, Stranded
<1>3. CASE RootDone \/ Join
  <2>1. ctl # "user" /\ ctl' \in {"join", "done"} /\ UNCHANGED <<stopping, pc>>
    BY <1>3 DEF RootDone, Join
  <2>2. QED
    BY <2>1 DEF SecondStop
<1>4. QED
  BY <1>1, <1>2, <1>3 DEF StopStep

LEMMA SecondStep ==
  ASSUME IOInv, StopInv, ActiveExact, SecondStop, IONext
  PROVE  SecondStop'
<1>1. TypeOK
  BY DEF IOInv
<1>2. ASSUME UNCHANGED <<ctl, stopping, pc>>,
             (\A t \in Threads : pc[t] \in {"off", "exit"})
               => UNCHANGED <<tasks, waiting>>
      PROVE  SecondStop'
  BY <1>2, SecondStopKept
<1>3. ASSUME NEW t \in Threads,
             \/ Finish(t) /\ UNCHANGED io
             \/ ReadQueue(t) /\ EndIdle(t)
             \/ YieldIdle(t)
      PROVE  SecondStop'
  <2>1. /\ UNCHANGED <<ctl, stopping>> /\ pc[t] \in {"body", "inIdle"}
        /\ \E l \in {"ret", "outIdle"} : pc' = [pc EXCEPT ![t] = l]
    BY <1>3 DEF Finish, ReadQueue, EndIdle, YieldIdle, InIdle, At, GoTo
  <2>2. QED
    BY <1>1, <2>1, SecondStopKept DEF TypeOK
<1>4. ASSUME NEW t \in Threads, Looking(t) PROVE SecondStop'
  <2>1. pc[t] = "inIdle" /\ UNCHANGED vars
    BY <1>4 DEF Looking, ReadTimers, ReadPending, ReadQueue, Wake, Collect,
                CountDown, HandleEvent, InIdle, At
  <2>2. QED
    BY <1>2, <2>1 DEF vars
<1>5. ASSUME NEW t \in Threads, NEW j \in cbs[t] \cup got[t], Scheduling(t, j)
      PROVE  SecondStop'
  BY <1>2, <1>5 DEF Scheduling, Scheduled, InIdle, At
<1>6. ASSUME NEW t \in Threads, Program(t) PROVE SecondStop'
  <2>1. UNCHANGED <<ctl, stopping, pc>>
    BY <1>6 DEF Program, NewTask, Spawn, Submit, ArmTimer, AddEvent, vars
  <2>2. CASE pc[t] = "body"
    BY <1>2, <2>1, <2>2
  <2>3. CASE ctl = "user" /\ t = Caller
    \* the owner, before it calls stop()
    BY <2>1, <2>3 DEF SecondStop
  <2>4. QED
    BY <1>6, <2>2, <2>3 DEF Program, May
<1>7. CASE Environment
  BY <1>2, <1>7 DEF Environment, TimeComes, EventComes, vars
<1>8. QED
  BY <1>1, <1>3, <1>4, <1>5, <1>6, <1>7, SharedSecond, StopSecond, Cases

(***************************************************************************)
(* The refinement.                                                         *)
(***************************************************************************)
\* IOPool differs from Pool in stop() alone.
LEMMA SamePool ==
  /\ PoolMoves => IOPool!Next
  /\ Pool!Init => IOPool!Init
  /\ UNCHANGED Pool!vars => UNCHANGED IOPool!vars
<1>1. PoolMoves => IOPool!Next
  BY DEF PoolMoves, IOPool!Next, Pool!Schedule, IOPool!Schedule, Pool!Claim,
         IOPool!Claim, Pool!Begin, IOPool!Begin, Pool!Pause, IOPool!Pause,
         Pool!End, IOPool!End, Pool!StopAgain, IOPool!StopAgain
<1>2. QED
  BY <1>1 DEF Pool!Init, IOPool!Init, Pool!vars, IOPool!vars

LEMMA LeavingIsOwner == Leaving => OwnerInv
BY DEF Leaving, OwnerInv

\* stop() returns: every thread that executes tasks has left run(), and none has
\* left while a task for any thread was queued.
LEMMA IOJoinIsStop ==
  ASSUME Serviceable, IOInv, StopInv, IOMapInv, Join, Leaving'
  PROVE  IOPool!Stop
<1>1. ctl = "join" /\ ctl' = "done" /\ UNCHANGED <<tasks, fiber, pc, cur>>
  BY DEF Join
<1>2. \A t \in Runners : pc[t] = "exit" /\ idleFiber'[t] = "TERM"
      /\ idleFiber' = idleFiber
  BY <1>1 DEF Join, Leaving, Runners, Threads
<1>3. \A t \in Threads : pc[t] \in {"off", "exit"}
  BY <1>1, <1>2 DEF StopInv, Leaving, Runners, Threads
<1>4. Running = {} /\ \A j : ~Taken(j)
  BY <1>3 DEF Running, Taken
<1>5. \A i \in DOMAIN tasks : tasks[i].thread # AnyThread
  <2>1. \A t \in Runners : ~WillScan(t)
    BY <1>2 DEF WillScan
  <2>2. QED
    BY <2>1 DEF StopInv, Served, FreeTask
<1>6. Waiting = Bound
  BY <1>4, <1>5 DEF Waiting, Bound, Queued
<1>7. ~Stopped /\ Stopped' = TRUE
  BY <1>1 DEF Stopped
<1>8. UNCHANGED <<Waiting, Bound, Running, Ended>>
  BY <1>1 DEF Waiting, Taken, Queued, Bound, Running, Ended
<1>9. QED
  BY <1>4, <1>6, <1>7, <1>8 DEF IOPool!Stop

LEMMA IOPoolStep ==
  ASSUME Serviceable, IOInv, StopInv, IOMapInv, Leaving', [IONext]_ioVars
  PROVE  IOPool!Next \/ UNCHANGED IOPool!vars
<1> USE ConstantsAssumption
<1> TypeOK /\ MapInv /\ OwnerInv
  BY LeavingIsOwner DEF IOInv, IOMapInv, StopInv
<1> DEFINE Goal == IOPool!Next \/ UNCHANGED IOPool!vars
<1>1. ASSUME UNCHANGED <<tasks, fiber, cur, ctl>>,
             \A v \in Threads : pc'[v] = pc[v] \/ (pc[v] = "inIdle" /\ pc'[v] = "outIdle")
      PROVE  Goal
  <2>1. Ended' = Ended /\ Stopped' = Stopped
    BY <1>1 DEF Ended, Stopped
  <2>2. UNCHANGED Pool!vars
    <3>1. \A v \in Threads : pc'[v] \in {"exec", "body", "swap"} \/
                              pc[v] \in {"exec", "body", "swap"} =>
             /\ cur'[v] = cur[v]
             /\ pc'[v] = pc[v] \/ (pc[v] = "body" /\ pc'[v] = "swap")
      BY <1>1
    <3>2. QED
      BY <1>1, <2>1, <3>1, PoolStutters
  <2>3. QED
    BY <2>2, SamePool
<1>2. ASSUME \/ \E t \in Threads : RunStep(t) \/ JobStep(t)
             \/ \E j \in Jobs, p \in Pins : Submit(j, p)
             \/ \E quiet : StopCall(quiet)
             \/ StopRoot \/ RootDone
      PROVE  Goal
  <2>1. PoolMoves \/ UNCHANGED Pool!vars
    BY <1>2, PoolStep
  <2>2. QED
    BY <2>1, SamePool
<1>3. CASE UNCHANGED ioVars
  BY <1>1, <1>3 DEF ioVars, vars
<1>4. ASSUME NEW t \in Threads, SharedStep(t) PROVE Goal
  BY <1>2, <1>4 DEF SharedStep, TickleIdle, RunStep
<1>5. ASSUME NEW t \in Threads, Finish(t) PROVE Goal
  BY <1>2, <1>5, FinishIsJobStep DEF JobStep
<1>6. ASSUME NEW t \in Threads, Looking(t) PROVE Goal
  BY <1>1, <1>6 DEF Looking, ReadTimers, ReadPending, Wake, Collect, CountDown,
                    vars
<1>7. ASSUME NEW t \in Threads, EndIdle(t) \/ YieldIdle(t), At(t, "inIdle")
      PROVE  Goal
  BY <1>1, <1>7 DEF EndIdle, YieldIdle, At, GoTo, TypeOK
<1>8. ASSUME NEW t \in Threads, NEW j \in cbs[t] \cup got[t], Scheduling(t, j)
      PROVE  Goal
  <2>1. /\ j \in Jobs /\ fiber[j] = "NEW" /\ Push(t, j, AnyThread)
        /\ fiber' = [fiber EXCEPT ![j] = "READY"]
        /\ UNCHANGED <<pc, cur, ctl>> /\ pc[t] = "inIdle"
    BY <1>8, SchedulingFacts
  <2>2. Ended' = Ended
    BY <2>1 DEF Ended, TypeOK
  <2>3. ~Stopped /\ ~Stopped'
    BY <2>1 DEF Stopped, OwnerInv, MapInv, CallerOut, Threads
  <2>4. ~Queued(j)
    BY <2>1 DEF MapInv, QueuedFits
  <2>5. Pool!Schedule(j)
    BY <2>1, <2>2, <2>3, <2>4, PushIsSchedule
  <2>6. QED
    BY <2>1, <2>5, SamePool DEF PoolMoves
<1>9. ASSUME NEW t \in Threads, Program(t) PROVE Goal
  <2>1. CASE \E j \in Jobs : ArmTimer(t, j) \/ AddEvent(j)
    BY <1>1, <2>1 DEF ArmTimer, AddEvent, vars
  <2>2. ASSUME NEW j \in Jobs, NEW p \in Pins, NewTask(t, j, p) PROVE Goal
    BY <1>2, <2>2 DEF NewTask, JobStep
  <2>3. QED
    BY <1>9, <2>1, <2>2 DEF Program
<1>10. CASE StopCall(IOQuiet) \/ StopStep
  BY <1>2, <1>10, IOJoinIsStop DEF StopStep, IOPool!Next
<1>11. CASE Environment
  BY <1>1, <1>11 DEF Environment, TimeComes, EventComes, vars
<1>12. QED
  BY <1>3, <1>4, <1>5, <1>6, <1>7, <1>8, <1>9, <1>10, <1>11, Cases
     DEF ReadQueue, YieldIdle, InIdle

\* If tasks are pinned only to threads that execute tasks, the IOManager
\* implements the task pool, for any number of threads, timers and events: what
\* a timer or an event has promised is scheduled once, and stop() returns only
\* when nothing waits but tasks for threads that are gone.
THEOREM IORefinement ==
  ASSUME Serviceable
  PROVE  IOSpec => IOImplementsPool
<1>1. IOInit => IOPool!Init
  <2> SUFFICES ASSUME IOInit PROVE IOPool!Init
    OBVIOUS
  <2>1. \A j : ~Queued(j) /\ ~Taken(j)
    BY DEF IOInit, Queued, Taken
  <2>2. Waiting = {} /\ Bound = {} /\ Running = {}
    BY <2>1 DEF Waiting, IOInit, Bound, Running
  <2>3. Ended = {} /\ Stopped = FALSE
    BY DEF IOInit, Ended, Stopped
  <2>4. QED
    BY <2>2, <2>3 DEF IOPool!Init
<1>2. IOInv /\ StopInv /\ IOMapInv /\ [IONext]_ioVars
        => IOInv' /\ StopInv' /\ IOMapInv'
  BY IOAllStep
<1>3. IOInv /\ StopInv /\ IOMapInv /\ StopInv' /\ [IONext]_ioVars
        => [IOPool!Next]_(IOPool!vars)
  BY IOPoolStep DEF StopInv
<1>4. QED
  BY <1>1, <1>2, <1>3, IOStart, StopStart, InitIOMapInv, PTL
     DEF IOSpec, IOImplementsPool, IOPool!Spec

\* A second stop() finds the loop of the caller's thread ended only if the first
\* has left an event or a task that nobody takes, for any number of threads: when
\* stop() returns, no thread counts as active and none is about to count down
\* m_pendingEventCount.
THEOREM SecondStopNeedsReason ==
  ASSUME Serviceable
  PROVE  IOSpec => []SecondStopFindsLeft
<1>1. IOInit => SecondStop
  BY DEF IOInit, SecondStop
<1>2. IOSpec => [](IOInv /\ StopInv /\ IOMapInv)
  BY IOStart, StopStart, InitIOMapInv, IOAllStep, PTL DEF IOSpec
<1>3. IOInv /\ StopInv /\ ActiveExact /\ SecondStop /\ [IONext]_ioVars
        => SecondStop'
  <2> SUFFICES ASSUME IOInv, StopInv, ActiveExact, SecondStop, [IONext]_ioVars
               PROVE  SecondStop'
    OBVIOUS
  <2>1. CASE UNCHANGED ioVars
    BY <2>1 DEF ioVars, io, vars, SecondStop, SomethingLeft, Stranded
  <2>2. CASE IONext
    BY <2>2, SecondStep
  <2>3. QED
    BY <2>1, <2>2
<1>4. SecondStop => SecondStopFindsLeft
  BY DEF SecondStop, SecondStopFindsLeft
<1>5. QED
  BY <1>1, <1>2, <1>3, <1>4, IOActiveIsExact, PTL DEF IOSpec

=============================================================================
