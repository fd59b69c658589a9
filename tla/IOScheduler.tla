----------------------------- MODULE IOScheduler -----------------------------
(***************************************************************************)
(* class IOManager as a whole: run() of the scheduler, with the idle(),    *)
(* tickle() and stopping() that IOManager puts in the place of scheduler's,*)
(* and the timers and I/O events that the threads wait for in there.       *)
(*                                                                         *)
(* What single timers and events do is left to Timers and IOEvents.  Here  *)
(* a timer is armed, then due, then collected by one thread; an event is   *)
(* registered, then reported to one thread; either schedules its callback, *)
(* a job.  The jobs here do not yield: see Scheduler for those that do.    *)
(***************************************************************************)
EXTENDS Scheduler

CONSTANTS
  Pipe,      \* the read end of the tickle pipe, as reported by epoll
  OwnerOps   \* what the thread that owns the IOManager does before stop()

ASSUME IOConstants ==
  /\ Pipe \notin Jobs
  /\ OwnerOps \subseteq {"task", "timer", "event"}

VARIABLES
  timers,    \* m_timers: the jobs that timers will schedule
  due,       \* those of them whose time has come
  tickled,   \* m_tickled of the TimerManager
  waiting,   \* the jobs that registered events will schedule
  ready,     \* those of them that epoll has to report
  pending,   \* m_pendingEventCount
  edge,      \* epoll has to report the tickle pipe
  spot,      \* thread -> where it is in idle()
  cbs,       \* thread -> callbacks of timers it has collected
  got        \* thread -> events epoll_wait() returned, not yet handled

io == <<timers, due, tickled, waiting, ready, pending, edge, spot, cbs, got>>
ioVars == <<vars, io>>

\* The constructor of IOManager calls start().
IOInit ==
  /\ tasks = <<>> /\ stopping = FALSE /\ active = 0 /\ idleCount = 0
  /\ fiber = [j \in Jobs |-> "NEW"]
  /\ pc = [t \in Threads |-> IF t \in Workers THEN "loop" ELSE "off"]
  /\ cur = [t \in Threads |-> None]
  /\ idleFiber = [t \in Threads |-> "NEW"]
  /\ owe = [t \in Threads |-> 0]
  /\ ctl = "user" /\ fault = "none"
  /\ timers = {} /\ due = {} /\ tickled = FALSE
  /\ waiting = {} /\ ready = {} /\ pending = 0 /\ edge = FALSE
  /\ spot = [t \in Threads |-> "top"]
  /\ cbs = [t \in Threads |-> {}]
  /\ got = [t \in Threads |-> {}]

(***************************************************************************)
(* The program: a job, or the thread that owns the IOManager.              *)
(***************************************************************************)
Unused(j) ==
  /\ fiber[j] = "NEW" /\ j \notin timers \cup waiting
  /\ \A t \in Threads : j \notin cbs[t]

May(t, op) ==
  /\ owe[t] = 0
  /\ pc[t] = "body" \/ (t = Caller /\ ctl = "user" /\ op \in OwnerOps)

NewTask(t, j, p) ==
  /\ Spawn(t, j, p) \/ (t = Caller /\ Submit(j, p))
  /\ UNCHANGED io

\* addTimer(): the first timer of all is at the front and calls tickle().
ArmTimer(t, j) ==
  /\ timers' = timers \cup {j}
  /\ tickled' = TRUE
  /\ owe' = [owe EXCEPT ![t] = IF tickled THEN 0 ELSE 1]
  /\ UNCHANGED <<tasks, stopping, active, idleCount, fiber, pc, cur, idleFiber,
                 ctl, fault, due, waiting, ready, pending, edge, spot, cbs, got>>

AddEvent(j) ==
  /\ waiting' = waiting \cup {j}
  /\ pending' = pending + 1
  /\ UNCHANGED <<vars, timers, due, tickled, ready, edge, spot, cbs, got>>

Program(t) ==
  \E j \in Jobs :
    /\ Unused(j)
    /\ \/ May(t, "task") /\ \E p \in Pins : NewTask(t, j, p)
       \/ May(t, "timer") /\ ArmTimer(t, j)
       \/ May(t, "event") /\ AddEvent(j)

(***************************************************************************)
(* IOManager::tickle(): a byte into the pipe if a thread counts as idle.   *)
(***************************************************************************)
TickleIdle(t) ==
  /\ Tickle(t)
  /\ edge' = (edge \/ idleCount > 0)
  /\ UNCHANGED <<timers, due, tickled, waiting, ready, pending, spot, cbs, got>>

(***************************************************************************)
(* IOManager::idle().                                                      *)
(***************************************************************************)
InIdle(t, l) == At(t, "inIdle") /\ spot[t] = l
Move(t, l) == spot' = [spot EXCEPT ![t] = l]

\* stopping(next_timeout) reads the timers, then the events, then the queue.
ReadTimers(t) ==
  /\ InIdle(t, "top")
  /\ Move(t, IF timers = {} THEN "noTimers" ELSE "wait")
  /\ UNCHANGED <<vars, timers, due, tickled, waiting, ready, pending, edge, cbs,
                 got>>

ReadPending(t) ==
  /\ InIdle(t, "noTimers")
  /\ Move(t, IF pending = 0 THEN "noEvents" ELSE "wait")
  /\ UNCHANGED <<vars, timers, due, tickled, waiting, ready, pending, edge, cbs,
                 got>>

\* The idle fiber ends if nothing is left.
EndIdle(t) ==
  /\ Quiet
  /\ idleFiber' = [idleFiber EXCEPT ![t] = "TERM"]
  /\ GoTo(t, "outIdle")
  /\ UNCHANGED <<tasks, stopping, active, idleCount, fiber, cur, owe, ctl,
                 fault, io>>

ReadQueue(t) ==
  /\ InIdle(t, "noEvents")
  /\ \/ EndIdle(t)
     \/ /\ ~Quiet /\ Move(t, "wait")
        /\ UNCHANGED <<vars, timers, due, tickled, waiting, ready, pending,
                       edge, cbs, got>>

\* (mutant) epoll_wait() without a timeout
WakeOnEvent(t) ==
  /\ InIdle(t, "wait") /\ (edge \/ ready # {})
  /\ Move(t, "clock")
  /\ got' = [got EXCEPT ![t] = ready \cup (IF edge THEN {Pipe} ELSE {})]
  /\ ready' = {} /\ edge' = FALSE
  /\ UNCHANGED <<vars, timers, due, tickled, waiting, pending, cbs>>

\* epoll_wait() returns what there is, or nothing after at most 5 seconds.
Wake(t) ==
  /\ InIdle(t, "wait")
  /\ Move(t, "clock")
  /\ got' = [got EXCEPT ![t] = ready \cup (IF edge THEN {Pipe} ELSE {})]
  /\ ready' = {} /\ edge' = FALSE
  /\ UNCHANGED <<vars, timers, due, tickled, waiting, pending, cbs>>

\* listExpiredCb()
Collect(t) ==
  /\ InIdle(t, "clock")
  /\ Move(t, "work")
  /\ cbs' = [cbs EXCEPT ![t] = due]
  /\ timers' = timers \ due /\ due' = {}
  /\ UNCHANGED <<vars, tickled, waiting, ready, pending, edge, got>>

Scheduled(t, j) ==
  /\ Push(t, j, AnyThread)
  /\ fiber' = [fiber EXCEPT ![j] = "READY"]
  /\ UNCHANGED <<stopping, active, idleCount, pc, cur, idleFiber, ctl, fault>>

\* (mutant) cbs is not cleared
ExpiredStays(t) ==
  /\ InIdle(t, "work")
  /\ \E j \in cbs[t] : Scheduled(t, j)
  /\ UNCHANGED <<timers, due, tickled, waiting, ready, pending, edge, spot, cbs,
                 got>>

\* First the callbacks of the timers, ...
ScheduleExpired(t) ==
  /\ InIdle(t, "work")
  /\ \E j \in cbs[t] :
       /\ Scheduled(t, j)
       /\ cbs' = [cbs EXCEPT ![t] = @ \ {j}]
  /\ UNCHANGED <<timers, due, tickled, waiting, ready, pending, edge, spot, got>>

\* ... then the events, the pipe among them: triggerEvent() schedules, ...
HandleEvent(t) ==
  /\ InIdle(t, "work") /\ cbs[t] = {}
  /\ \E e \in got[t] :
       /\ got' = [got EXCEPT ![t] = @ \ {e}]
       /\ IF e = Pipe
          THEN UNCHANGED <<vars, waiting, spot>>
          ELSE Scheduled(t, e) /\ waiting' = waiting \ {e} /\ Move(t, "count")
  /\ UNCHANGED <<timers, due, tickled, ready, pending, edge, cbs>>

\* (mutant) --m_pendingEventCount is forgotten
CountNothing(t) ==
  /\ InIdle(t, "count")
  /\ Move(t, "work")
  /\ UNCHANGED <<vars, timers, due, tickled, waiting, ready, pending, edge, cbs,
                 got>>

\* ... and the event is not pending any more.
CountDown(t) ==
  /\ InIdle(t, "count")
  /\ pending' = pending - 1
  /\ Move(t, "work")
  /\ UNCHANGED <<vars, timers, due, tickled, waiting, ready, edge, cbs, got>>

\* Back to run().
YieldIdle(t) ==
  /\ InIdle(t, "work") /\ cbs[t] = {} /\ got[t] = {}
  /\ idleFiber' = [idleFiber EXCEPT ![t] = "READY"]
  /\ GoTo(t, "outIdle") /\ Move(t, "top")
  /\ UNCHANGED <<tasks, stopping, active, idleCount, fiber, cur, owe, ctl, fault,
                 timers, due, tickled, waiting, ready, pending, edge, cbs, got>>

(***************************************************************************)
(* The environment: time passes, descriptors become ready.                 *)
(***************************************************************************)
TimeComes(j) ==
  /\ j \in timers \ due
  /\ due' = due \cup {j}
  /\ UNCHANGED <<vars, timers, tickled, waiting, ready, pending, edge, spot, cbs,
                 got>>

EventComes(j) ==
  /\ j \in waiting \ ready /\ \A t \in Threads : j \notin got[t]
  /\ ready' = ready \cup {j}
  /\ UNCHANGED <<vars, timers, due, tickled, waiting, pending, edge, spot, cbs,
                 got>>

(***************************************************************************)
(* The specification.                                                      *)
(***************************************************************************)
IdleStep(t) ==
  \/ ReadTimers(t) \/ ReadPending(t) \/ ReadQueue(t) \/ Wake(t) \/ Collect(t)
  \/ ScheduleExpired(t) \/ HandleEvent(t) \/ CountDown(t) \/ YieldIdle(t)

IORunStep(t) ==
  \/ /\ \/ Take(t) \/ TakeNone(t) \/ Resume(t) \/ Finish(t) \/ Return(t)
        \/ IdleEnter(t) \/ IdleLeave(t)
     /\ UNCHANGED io
  \/ TickleIdle(t)
  \/ IdleStep(t)

\* IOManager::stopping(), without the timers.
IOQuiet == pending = 0 /\ Quiet

IOStop == (StopCall(IOQuiet) \/ StopStep) /\ UNCHANGED io

Environment == \E j \in Jobs : TimeComes(j) \/ EventComes(j)

IONext ==
  /\ fault = "none"
  /\ \/ \E t \in Threads : Program(t) \/ IORunStep(t)
     \/ IOStop
     \/ Environment

IOSpec == IOInit /\ [][IONext]_ioVars

\* Every thread runs, timers become due and events arrive; nothing is assumed
\* of the program.
IOFairness ==
  /\ \A t \in Threads : WF_ioVars(fault = "none" /\ IORunStep(t))
  /\ WF_ioVars(fault = "none" /\ StopStep /\ UNCHANGED io)
  /\ \A j \in Jobs : WF_ioVars(TimeComes(j)) /\ WF_ioVars(EventComes(j))

IOFairSpec == IOSpec /\ IOFairness

(***************************************************************************)
(* Properties.                                                             *)
(***************************************************************************)
Spots == {"top", "noTimers", "noEvents", "wait", "clock", "work", "count"}

\* The variables of IOManager have the types of its declaration, and
\* m_pendingEventCount is the number of events that are registered or are just
\* being triggered.
IOTypeOK ==
  /\ TypeOK
  /\ due \subseteq timers /\ timers \subseteq Jobs
  /\ ready \subseteq waiting /\ waiting \subseteq Jobs
  /\ tickled \in BOOLEAN /\ edge \in BOOLEAN
  /\ spot \in [Threads -> Spots]
  /\ cbs \in [Threads -> SUBSET Jobs]
  /\ got \in [Threads -> SUBSET (Jobs \cup {Pipe})]
  /\ pending = Cardinality(waiting)
                 + Cardinality({t \in Threads : spot[t] = "count"})

\* A pinned task whose thread has left run() is never taken.
Stranded(i) == tasks[i].thread # AnyThread /\ pc[tasks[i].thread] = "exit"
Left(j) == \E i \in DOMAIN tasks : tasks[i].job = j /\ Stranded(i)

\* stopping() reads the timers, the events and the queue one after the other,
\* and any of them may change meanwhile, by threads that hold expired timers or
\* reported events and are not active; still, when stop() returns, every job
\* that was ever scheduled has ended, and no thread holds a callback.
StopRunsTasks ==
  ctl = "done" =>
    /\ \A j \in Jobs : fiber[j] \in {"NEW", "TERM"} \/ Left(j)
    /\ \A t \in Threads : cbs[t] = {} /\ got[t] \subseteq {Pipe}

\* A second stop(), which the destructor makes, does not return at once only if
\* the first has left something: an event that was registered too late, or a task
\* that nobody will take.  Then it resumes the root fiber, which has ended, and
\* aborts; the counters that stopping() reads, m_activeThreadCount and
\* m_pendingEventCount, which change long after the queue and the events do, are
\* back at what is really there when the first stop() returns.
SomethingLeft == waiting # {} \/ \E i \in DOMAIN tasks : Stranded(i)
SecondStopFindsLeft == ctl = "stop" /\ pc[Caller] = "exit" => SomethingLeft

\* A job that is scheduled is executed, however many wake-ups are lost on the
\* way: a thread that sleeps beside a queued task wakes after MAX_TIMEOUT.  The
\* exceptions: a task is pinned to a thread that has left run(), or a second
\* stop(), which the destructor makes, resumes the root fiber that has ended.
JobRuns ==
  \A j \in Jobs : fiber[j] = "READY" ~>
    (fiber[j] = "TERM" \/ Left(j) \/ fault = "assert_resume")

\* stop() returns when the jobs have ended, the timers have expired and the
\* events have arrived, with the same two exceptions.
IOStopReturns ==
  ctl = "stop" ~>
    \/ ctl = "done"
    \/ \E i \in DOMAIN tasks : Stranded(i)
    \/ fault = "assert_resume"

\* "The IOManager must not exit before all I/O events that are to be scheduled
\* have been executed" (IOManager.cpp:378): stop() does not return while an event
\* is registered.
StopWaitsForEvents == ctl = "done" => waiting = {}

(***************************************************************************)
(* The abstract specification.                                             *)
(***************************************************************************)
IOPool == INSTANCE TaskPool WITH
  Drains <- TRUE, waiting <- Waiting, bound <- Bound, running <- Running,
  ended <- Ended, stopped <- Stopped

\* The IOManager implements TaskPool: whichever of several idle threads collects
\* a timer or gets an event, and however stale what it has collected, a job is
\* scheduled once, executed once and by one thread; and stop() returns only when
\* nothing waits but tasks for threads that are gone.
IOImplementsPool == IOPool!Spec

=============================================================================
