------------------------------ MODULE Scheduler ------------------------------
(***************************************************************************)
(* class scheduler (threadPoll_fiber_scheduler.h/.cpp) with the fibers it  *)
(* switches between (Fiber.cpp).                                           *)
(*                                                                         *)
(* Every thread of the scheduler executes run(): it takes the first task   *)
(* of m_tasks it may execute, switches to the task's fiber, and, when      *)
(* there is no such task, to its own idle fiber.  With m_useCaller the     *)
(* thread that owns the scheduler executes run() too, inside stop().       *)
(*                                                                         *)
(* A job is the fiber that executes one scheduled task: a callback is      *)
(* wrapped in a new fiber when it is taken, so both kinds of task have the *)
(* same life.  What sits between two acquisitions of m_mutex, or between   *)
(* two accesses to a shared variable, is one action.  An assertion that    *)
(* fails aborts the process: fault records it and nothing moves any more.  *)
(***************************************************************************)
EXTENDS Integers, Sequences, FiniteSets, SequencesExt

CONSTANTS
  Workers,     \* the pool threads that start() creates (m_threads)
  Caller,      \* the thread that owns the scheduler and calls stop()
  UseCaller,   \* m_useCaller: does Caller execute tasks too?
  Jobs,        \* the fibers and callbacks the program may schedule
  Pins,        \* values of schedule()'s argument thread
  AnyThread,   \* thread = -1: any thread may execute the task
  None         \* no task

Threads == Workers \cup {Caller}
Runners == Workers \cup (IF UseCaller THEN {Caller} ELSE {})

ASSUME ConstantsAssumption ==
  /\ IsFiniteSet(Workers)
  /\ Caller \notin Workers
  /\ UseCaller \in BOOLEAN
  /\ AnyThread \notin Threads
  /\ Pins \subseteq Threads \cup {AnyThread}
  /\ None \notin Jobs

VARIABLES
  tasks,      \* m_tasks, a sequence of [job, thread]
  stopping,   \* m_stopping
  active,     \* m_activeThreadCount
  idleCount,  \* m_idleThreadCount
  fiber,      \* job -> m_state of its fiber, "NEW" while it was never scheduled
  pc,         \* thread -> where it is in run()
  cur,        \* thread -> the local variable task of run()
  idleFiber,  \* thread -> state of its idle fiber, "NEW" while never resumed
  owe,        \* thread -> calls of tickle() it has decided on and not yet made
  ctl,        \* where Caller is in the program that owns the scheduler
  fault       \* "none", or why the process cannot go on

vars == <<tasks, stopping, active, idleCount, fiber, pc, cur, idleFiber, owe,
          ctl, fault>>

Init ==
  /\ tasks = <<>>
  /\ stopping = FALSE
  /\ active = 0
  /\ idleCount = 0
  /\ fiber = [j \in Jobs |-> "NEW"]
  /\ pc = [t \in Threads |-> "off"]
  /\ cur = [t \in Threads |-> None]
  /\ idleFiber = [t \in Threads |-> "NEW"]
  /\ owe = [t \in Threads |-> 0]
  /\ ctl = "user"
  /\ fault = "none"

(***************************************************************************)
(* The task queue: schedule(), scheduleNoLock() and the scan of run().     *)
(***************************************************************************)
Queued(j) == \E i \in DOMAIN tasks : tasks[i].job = j

\* schedule(): push under the mutex; tickle later if the queue was empty.
Push(t, j, p) ==
  /\ owe[t] = 0
  /\ tasks' = Append(tasks, [job |-> j, thread |-> p])
  /\ owe' = [owe EXCEPT ![t] = IF tasks = <<>> THEN 1 ELSE 0]

Eligible(t, i) == tasks[i].thread \in {AnyThread, t}

FirstEligible(t, i) ==
  Eligible(t, i) /\ \A k \in 1 .. i - 1 : ~Eligible(t, k)

\* (mutant) m_tasks.erase(it, m_tasks.end())
TakeOutRest(i) == tasks' = SubSeq(tasks, 1, i - 1)

TakeOut(i) == tasks' = RemoveAt(tasks, i)

(***************************************************************************)
(* run(), in thread t.                                                     *)
(***************************************************************************)
At(t, l) == pc[t] = l /\ owe[t] = 0
GoTo(t, l) == pc' = [pc EXCEPT ![t] = l]

\* The scan finds a task: assert that its fiber is READY, erase it, count the
\* thread as active.  it is the erased iterator when it is compared with
\* m_tasks.end(), hence different from it: the thread owes a tickle().
Take(t) ==
  /\ At(t, "loop")
  /\ \E i \in DOMAIN tasks :
       /\ FirstEligible(t, i)
       /\ IF fiber[tasks[i].job] = "READY"
          THEN /\ TakeOut(i)
               /\ cur' = [cur EXCEPT ![t] = tasks[i].job]
               /\ active' = active + 1
               /\ owe' = [owe EXCEPT ![t] = 1]
               /\ GoTo(t, "exec")
               /\ UNCHANGED fault
          ELSE /\ fault' = "assert_ready"
               /\ UNCHANGED <<tasks, cur, active, owe, pc>>
  /\ UNCHANGED <<stopping, idleCount, fiber, idleFiber, ctl>>

\* (mutant) the scan looks at the first task only
TakeNoneHead(t) ==
  /\ At(t, "loop")
  /\ \A i \in DOMAIN tasks : i = 1 => ~Eligible(t, i)
  /\ GoTo(t, "idle")
  /\ UNCHANGED <<tasks, stopping, active, idleCount, fiber, cur, idleFiber,
                 owe, ctl, fault>>

\* The scan skips every task: tickle whoever they are pinned to, and go idle.
TakeNone(t) ==
  /\ At(t, "loop")
  /\ \A i \in DOMAIN tasks : ~Eligible(t, i)
  /\ owe' = [owe EXCEPT ![t] = IF tasks = <<>> THEN 0 ELSE 1]
  /\ GoTo(t, "idle")
  /\ UNCHANGED <<tasks, stopping, active, idleCount, fiber, cur, idleFiber,
                 ctl, fault>>

\* Fiber::resume().  Between yield()'s assignment of READY and its
\* swapcontext() the fiber's context is not saved: resuming it there runs a
\* stale context on a stack in use, and the model does not go beyond that.
Resume(t) ==
  /\ At(t, "exec")
  /\ \/ /\ fiber[cur[t]] # "READY"
        /\ fault' = "assert_resume"
        /\ UNCHANGED <<fiber, pc>>
     \/ /\ fiber[cur[t]] = "READY"
        /\ \E v \in Threads : pc[v] = "swap" /\ cur[v] = cur[t]
        /\ fault' = "stale_context"
        /\ UNCHANGED <<fiber, pc>>
     \/ /\ fiber[cur[t]] = "READY"
        /\ \A v \in Threads : ~(pc[v] = "swap" /\ cur[v] = cur[t])
        /\ fiber' = [fiber EXCEPT ![cur[t]] = "RUNNING"]
        /\ GoTo(t, "body")
        /\ UNCHANGED fault
  /\ UNCHANGED <<tasks, stopping, active, idleCount, cur, idleFiber, owe, ctl>>

\* The running job schedules a new one.
Spawn(t, j, p) ==
  /\ At(t, "body")
  /\ fiber[j] = "NEW"
  /\ Push(t, j, p)
  /\ fiber' = [fiber EXCEPT ![j] = "READY"]
  /\ UNCHANGED <<stopping, active, idleCount, pc, cur, idleFiber, ctl, fault>>

\* The running job schedules itself, as a fiber that will yield must.
Reschedule(t) ==
  /\ At(t, "body")
  /\ ~Queued(cur[t])
  /\ Push(t, cur[t], AnyThread)
  /\ UNCHANGED <<stopping, active, idleCount, fiber, pc, cur, idleFiber, ctl,
                 fault>>

\* Fiber::yield() sets READY, ...
YieldReady(t) ==
  /\ At(t, "body")
  /\ fiber' = [fiber EXCEPT ![cur[t]] = "READY"]
  /\ GoTo(t, "swap")
  /\ UNCHANGED <<tasks, stopping, active, idleCount, cur, idleFiber, owe, ctl,
                 fault>>

\* ... then swapcontext() saves the fiber's context and resumes run().
YieldSwap(t) ==
  /\ At(t, "swap")
  /\ GoTo(t, "ret")
  /\ UNCHANGED <<tasks, stopping, active, idleCount, fiber, cur, idleFiber,
                 owe, ctl, fault>>

\* Fiber::MainFunc(): the job's function returns, the fiber ends.
Finish(t) ==
  /\ At(t, "body")
  /\ fiber' = [fiber EXCEPT ![cur[t]] = "TERM"]
  /\ GoTo(t, "ret")
  /\ UNCHANGED <<tasks, stopping, active, idleCount, cur, idleFiber, owe, ctl,
                 fault>>

\* (mutant) task.reset() is forgotten
ReturnKeepsTask(t) ==
  /\ At(t, "ret") /\ active' = active - 1 /\ GoTo(t, "loop")
  /\ UNCHANGED <<tasks, stopping, idleCount, fiber, cur, idleFiber, owe, ctl,
                 fault>>

\* (mutant) m_activeThreadCount-- is forgotten
ReturnStaysActive(t) ==
  /\ At(t, "ret") /\ cur' = [cur EXCEPT ![t] = None] /\ GoTo(t, "loop")
  /\ UNCHANGED <<tasks, stopping, active, idleCount, fiber, idleFiber, owe,
                 ctl, fault>>

\* Back in run(): the thread is not active any more.
Return(t) ==
  /\ At(t, "ret")
  /\ active' = active - 1
  /\ cur' = [cur EXCEPT ![t] = None]
  /\ GoTo(t, "loop")
  /\ UNCHANGED <<tasks, stopping, idleCount, fiber, idleFiber, owe, ctl, fault>>

\* No task: leave run() if the idle fiber has ended, else switch to it.
IdleEnter(t) ==
  /\ At(t, "idle")
  /\ IF idleFiber[t] = "TERM"
     THEN GoTo(t, "exit") /\ UNCHANGED idleCount
     ELSE GoTo(t, "inIdle") /\ idleCount' = idleCount + 1
  /\ UNCHANGED <<tasks, stopping, active, fiber, cur, idleFiber, owe, ctl,
                 fault>>

\* (mutant) idle() yields in a loop that never looks at m_stopping
IdleNeverEnds(t) ==
  /\ At(t, "inIdle")
  /\ idleFiber' = [idleFiber EXCEPT ![t] = "READY"]
  /\ GoTo(t, "outIdle")
  /\ UNCHANGED <<tasks, stopping, active, idleCount, fiber, cur, owe, ctl,
                 fault>>

\* scheduler::idle(): yields once, and ends when it is resumed again.
Idle(t) ==
  /\ At(t, "inIdle")
  /\ idleFiber' = [idleFiber EXCEPT ![t] =
                     IF @ = "NEW" /\ ~stopping THEN "READY" ELSE "TERM"]
  /\ GoTo(t, "outIdle")
  /\ UNCHANGED <<tasks, stopping, active, idleCount, fiber, cur, owe, ctl,
                 fault>>

IdleLeave(t) ==
  /\ At(t, "outIdle")
  /\ idleCount' = idleCount - 1
  /\ GoTo(t, "loop")
  /\ UNCHANGED <<tasks, stopping, active, fiber, cur, idleFiber, owe, ctl,
                 fault>>

\* scheduler::tickle() only prints.
Tickle(t) ==
  /\ owe[t] > 0
  /\ owe' = [owe EXCEPT ![t] = @ - 1]
  /\ UNCHANGED <<tasks, stopping, active, idleCount, fiber, pc, cur, idleFiber,
                 ctl, fault>>

(***************************************************************************)
(* The thread that owns the scheduler.                                     *)
(***************************************************************************)
\* start() holds m_mutex until every worker exists, so that none of them can
\* look at the queue earlier: one step, as StartsAtOnce of ThreadStart shows.  A
\* second start() is refused by an assertion.
Start ==
  /\ ctl = "user" /\ ~stopping
  /\ \A w \in Workers : pc[w] = "off"
  /\ pc' = [t \in Threads |-> IF t \in Workers THEN "loop" ELSE pc[t]]
  /\ UNCHANGED <<tasks, stopping, active, idleCount, fiber, cur, idleFiber,
                 owe, ctl, fault>>

Submit(j, p) ==
  /\ ctl = "user"
  /\ fiber[j] = "NEW"
  /\ Push(Caller, j, p)
  /\ fiber' = [fiber EXCEPT ![j] = "READY"]
  /\ UNCHANGED <<stopping, active, idleCount, pc, cur, idleFiber, ctl, fault>>

\* scheduler::stopping()
Quiet == stopping /\ tasks = <<>> /\ active = 0

\* (mutant) the early return of stop() is gone
StopCallAlways(quiet) ==
  /\ ctl \in {"user", "done"} /\ owe[Caller] = 0
  /\ stopping' = TRUE
  /\ owe' = [owe EXCEPT ![Caller] = Cardinality(Runners)]
  /\ ctl' = "stop"
  /\ UNCHANGED <<tasks, active, idleCount, fiber, pc, cur, idleFiber, fault>>

\* stop(): returns at once when Quiet, else asks everybody to stop.  quiet is
\* what the virtual function stopping() answers.
StopCall(quiet) ==
  /\ ctl \in {"user", "done"} /\ owe[Caller] = 0
  /\ ~quiet
  /\ stopping' = TRUE
  /\ owe' = [owe EXCEPT ![Caller] = Cardinality(Runners)]
  /\ ctl' = "stop"
  /\ UNCHANGED <<tasks, active, idleCount, fiber, pc, cur, idleFiber, fault>>

\* stop() resumes m_rootFiber, whose assertion refuses an ended fiber.
StopRoot ==
  /\ ctl = "stop" /\ owe[Caller] = 0
  /\ IF ~UseCaller
     THEN ctl' = "join" /\ UNCHANGED <<pc, fault>>
     ELSE IF pc[Caller] = "off"
          THEN ctl' = "root" /\ GoTo(Caller, "loop") /\ UNCHANGED fault
          ELSE fault' = "assert_resume" /\ UNCHANGED <<pc, ctl>>
  /\ UNCHANGED <<tasks, stopping, active, idleCount, fiber, cur, idleFiber, owe>>

RootDone ==
  /\ ctl = "root" /\ pc[Caller] = "exit"
  /\ ctl' = "join"
  /\ UNCHANGED <<tasks, stopping, active, idleCount, fiber, pc, cur, idleFiber,
                 owe, fault>>

\* (mutant) stop() does not wait for the pool's threads
JoinNobody ==
  /\ ctl = "join"
  /\ ctl' = "done"
  /\ UNCHANGED <<tasks, stopping, active, idleCount, fiber, pc, cur, idleFiber,
                 owe, fault>>

Join ==
  /\ ctl = "join"
  /\ \A w \in Workers : pc[w] \in {"off", "exit"}
  /\ ctl' = "done"
  /\ UNCHANGED <<tasks, stopping, active, idleCount, fiber, pc, cur, idleFiber,
                 owe, fault>>

(***************************************************************************)
(* The specification.  Without timers and events the only fiber that can   *)
(* be resumed after a yield() is one that scheduled itself first, and a    *)
(* fiber that did so yields before it returns: the guards of JobStep.      *)
(***************************************************************************)
JobStep(t) ==
  \/ \E j \in Jobs, p \in Pins : Spawn(t, j, p)
  \/ Reschedule(t)
  \/ Queued(cur[t]) /\ YieldReady(t)
  \/ ~Queued(cur[t]) /\ Finish(t)

RunStep(t) ==
  \/ Take(t) \/ TakeNone(t) \/ Resume(t) \/ YieldSwap(t) \/ Return(t)
  \/ IdleEnter(t) \/ Idle(t) \/ IdleLeave(t) \/ Tickle(t)

StopStep == StopRoot \/ RootDone \/ Join

Next ==
  /\ fault = "none"
  /\ \/ \E t \in Threads : RunStep(t) \/ JobStep(t)
     \/ Start
     \/ \E j \in Jobs, p \in Pins : Submit(j, p)
     \/ StopCall(Quiet)
     \/ StopStep

Spec == Init /\ [][Next]_vars

\* The operating system runs every thread, and every job returns in the end,
\* however often it reschedules itself.
Fairness ==
  /\ \A t \in Threads : WF_vars(fault = "none" /\ (RunStep(t) \/ JobStep(t)))
  /\ \A j \in Jobs : SF_vars(fault = "none" /\ \E t \in Threads :
       cur[t] = j /\ ~Queued(j) /\ Finish(t))
  /\ WF_vars(fault = "none" /\ StopStep)

FairSpec == Spec /\ Fairness

(***************************************************************************)
(* Properties.                                                             *)
(***************************************************************************)
Task == [job : Jobs, thread : Threads \cup {AnyThread}]
FiberStates == {"NEW", "READY", "RUNNING", "TERM"}
Places == {"off", "loop", "exec", "body", "swap", "ret", "idle", "inIdle",
           "outIdle", "exit"}
Busy(t) == pc[t] \in {"exec", "body", "swap", "ret"}

\* The variables of the scheduler have the types of its declaration, and a
\* thread holds a task exactly while it executes one.
TypeOK ==
  /\ tasks \in Seq(Task)
  /\ stopping \in BOOLEAN
  /\ active \in Int
  /\ idleCount \in Int
  /\ fiber \in [Jobs -> FiberStates]
  /\ pc \in [Threads -> Places]
  /\ cur \in [Threads -> Jobs \cup {None}]
  /\ idleFiber \in [Threads -> {"NEW", "READY", "TERM"}]
  /\ owe \in [Threads -> Nat]
  /\ ctl \in {"user", "stop", "root", "join", "done"}
  /\ fault \in {"none", "assert_ready", "assert_resume", "stale_context"}
  /\ \A t \in Threads : cur[t] # None <=> Busy(t)

\* m_activeThreadCount, which stopping() reads, is the number of threads that
\* have taken a task and not come back to run()'s loop.
ActiveExact == active = Cardinality({t \in Threads : Busy(t)})

\* A job that was scheduled and has not ended is in the queue or in the hands
\* of a thread: neither the scan of run(), nor a fiber that schedules itself
\* and is taken by another thread before it yields, can lose it.
Held(j) == \E t \in Threads : cur[t] = j /\ pc[t] \in {"exec", "body"}
NothingLost ==
  \A j \in Jobs : fiber[j] \in {"READY", "RUNNING"} => Queued(j) \/ Held(j)

\* With use_caller, as long as a task that any thread may execute is queued,
\* some thread will scan the queue again before it leaves run() -- or it is
\* the caller, which has not entered run() yet.
WillScan(t) ==
  \/ pc[t] \notin {"off", "idle", "exit"}
  \/ pc[t] = "idle" /\ idleFiber[t] # "TERM"
  \/ t = Caller /\ pc[t] = "off"
QueueIsServed ==
  UseCaller /\ (\E i \in DOMAIN tasks : tasks[i].thread = AnyThread)
    => \E t \in Threads : WillScan(t)

\* With use_caller, stop() returns only after every job that was scheduled has
\* ended, save those that were pinned to one thread and are still queued.
StopDrains ==
  UseCaller /\ ctl = "done" =>
    \A j \in Jobs :
      \/ fiber[j] \in {"NEW", "TERM"}
      \/ \E i \in DOMAIN tasks : tasks[i].job = j /\ tasks[i].thread # AnyThread

\* stop() "returns after all scheduled tasks have been executed"
\* (threadPoll_fiber_scheduler.h:55), whatever the scheduler's parameters, if
\* it was started.
StopWaitsForAll ==
  ctl = "done" /\ (\A w \in Workers : pc[w] # "off")
    => \A j \in Jobs : fiber[j] \in {"NEW", "TERM"}

\* "Only a READY task can come in here" (threadPoll_fiber_scheduler.cpp:158):
\* the scan never takes a fiber that is still running, and no fiber is resumed
\* before the thread it yielded on has saved its context.
OnlyReadyIsTaken == fault = "none"

\* A stop() that has begun returns, or the process aborts: the idle fibers of
\* all threads end, the root fiber leaves run(), every worker can be joined.
StopReturns ==
  ctl = "stop" ~> ctl = "done" \/ fault # "none"

(***************************************************************************)
(* The abstract specification.                                             *)
(***************************************************************************)
\* Until its fiber is resumed a job waits, in the queue or in the hands of a
\* thread; until its context is saved or its function has returned, it runs.
Taken(j) == \E t \in Threads : cur[t] = j /\ pc[t] = "exec"
Waiting == {j \in Jobs : Queued(j) \/ Taken(j)}
Bound == {j \in Jobs : \E i \in DOMAIN tasks :
            tasks[i].job = j /\ tasks[i].thread # AnyThread}
Running == {j \in Jobs : \E t \in Threads :
              cur[t] = j /\ pc[t] \in {"body", "swap"}}
Ended == {j \in Jobs : fiber[j] = "TERM"}
Stopped == ctl = "done"

Pool == INSTANCE TaskPool WITH
  Drains <- UseCaller, waiting <- Waiting, bound <- Bound, running <- Running,
  ended <- Ended, stopped <- Stopped

\* The scheduler implements TaskPool: between the scan that erases a task and
\* the swapcontext() that gives the thread back, with the lock released, no job
\* is lost, executed twice for one schedule(), by two threads at once, or after
\* its end; nothing is executed when stop() has returned, and with use_caller
\* it returns only when nothing waits but tasks for threads that are gone.
ImplementsPool == Pool!Spec

=============================================================================
