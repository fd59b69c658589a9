-------------------------- MODULE IOSchedulerProofs --------------------------
(* Theorems about IOScheduler, for any number of threads, jobs, timers and  *)
(* events.  What they share with Scheduler comes from SchedulerProofs.      *)
EXTENDS IOScheduler, SchedulerProofs

(***************************************************************************)
(* The actions, grouped by what they do to Scheduler's variables.          *)
(***************************************************************************)
\* What run() of Scheduler does outside of jobs and idle().
SharedStep(t) ==
  \/ /\ \/ Take(t) \/ TakeNone(t) \/ Resume(t) \/ Return(t) \/ IdleEnter(t)
        \/ IdleLeave(t)
     /\ UNCHANGED io
  \/ TickleIdle(t)

\* The steps of idle() that touch no variable of Scheduler.
Looking(t) ==
  \/ ReadTimers(t) \/ ReadPending(t) \/ Wake(t) \/ Collect(t) \/ CountDown(t)
  \/ ReadQueue(t) /\ UNCHANGED vars
  \/ HandleEvent(t) /\ UNCHANGED vars

\* The steps of idle() that schedule a job.
Scheduling(t, j) ==
  /\ InIdle(t, "work")
  /\ Scheduled(t, j)
  /\ \/ j \in cbs[t] /\ ScheduleExpired(t)
     \/ j \in got[t] \ {Pipe} /\ HandleEvent(t)

LEMMA Cases ==
  ASSUME IONext
  PROVE  \/ \E t \in Threads : SharedStep(t)
         \/ \E t \in Threads : Finish(t) /\ UNCHANGED io
         \/ \E t \in Threads : Looking(t)
         \/ \E t \in Threads : ReadQueue(t) /\ EndIdle(t)
         \/ \E t \in Threads : YieldIdle(t)
         \/ \E t \in Threads : \E j \in cbs[t] \cup got[t] : Scheduling(t, j)
         \/ \E t \in Threads : Program(t)
         \/ StopCall(IOQuiet) /\ UNCHANGED io
         \/ StopStep /\ UNCHANGED io
         \/ Environment
<1>1. ASSUME NEW t \in Threads, ScheduleExpired(t)
      PROVE  \E j \in cbs[t] : Scheduling(t, j)
  BY <1>1 DEF ScheduleExpired, Scheduling
<1>2. ASSUME NEW t \in Threads, HandleEvent(t)
      PROVE  Looking(t) \/ \E j \in got[t] : Scheduling(t, j)
  <2>1. PICK e \in got[t] :
          IF e = Pipe THEN UNCHANGED <<vars, waiting, spot>>
                      ELSE Scheduled(t, e) /\ waiting' = waiting \ {e}
                           /\ Move(t, "count")
    BY <1>2 DEF HandleEvent
  <2>2. CASE e = Pipe
    BY <1>2, <2>1, <2>2 DEF Looking
  <2>3. CASE e # Pipe
    BY <1>2, <2>1, <2>3 DEF Scheduling, HandleEvent
  <2>4. QED
    BY <2>2, <2>3
<1>3. ASSUME NEW t \in Threads, ReadQueue(t)
      PROVE  Looking(t) \/ (ReadQueue(t) /\ EndIdle(t))
  BY <1>3 DEF ReadQueue, Looking
<1>4. ASSUME NEW t \in Threads, IORunStep(t)
      PROVE  \/ SharedStep(t) \/ (Finish(t) /\ UNCHANGED io) \/ Looking(t)
             \/ (ReadQueue(t) /\ EndIdle(t)) \/ YieldIdle(t)
             \/ \E j \in cbs[t] \cup got[t] : Scheduling(t, j)
  BY <1>1, <1>2, <1>3, <1>4
     DEF IORunStep, IdleStep, SharedStep, Looking
<1>5. QED
  BY <1>4 DEF IONext, IOStop

(***************************************************************************)
(* The variables of Scheduler keep their types.                            *)
(***************************************************************************)
LEMMA SharedType ==
  ASSUME TypeOK, fault = "none", NEW t \in Threads, SharedStep(t)
  PROVE  TypeOK'
BY NextType DEF SharedStep, TickleIdle, Next, RunStep

LEMMA FinishType ==
  ASSUME TypeOK, NEW t \in Threads, Finish(t)
  PROVE  TypeOK'
BY DEF Finish, At, GoTo, TypeOK, FiberStates, Places, Busy

LEMMA LeaveIdleType ==
  ASSUME TypeOK, NEW t \in Threads, EndIdle(t) \/ YieldIdle(t), At(t, "inIdle")
  PROVE  TypeOK'
BY DEF EndIdle, YieldIdle, InIdle, At, GoTo, TypeOK, Places, Busy

\* triggerEvent() and the callbacks of timers schedule for any thread.
LEMMA ScheduledType ==
  ASSUME TypeOK, NEW t \in Threads, NEW j \in Jobs, Scheduled(t, j)
  PROVE  TypeOK'
<1>1. tasks' \in Seq(Task) /\ owe' \in [Threads -> Nat]
  <2>1. [job |-> j, thread |-> AnyThread] \in Task
    BY DEF Task
  <2>2. QED
    BY <2>1 DEF Scheduled, Push, TypeOK
<1>2. fiber' \in [Jobs -> FiberStates]
  BY DEF Scheduled, TypeOK, FiberStates
<1>3. QED
  BY <1>1, <1>2 DEF Scheduled, TypeOK, Busy

LEMMA ProgramType ==
  ASSUME TypeOK, fault = "none", NEW t \in Threads, Program(t)
  PROVE  TypeOK'
<1>1. ASSUME NEW j \in Jobs, NEW p \in Pins, NewTask(t, j, p) PROVE TypeOK'
  BY <1>1, NextType DEF NewTask, Next, JobStep
<1>2. ASSUME NEW j \in Jobs, ArmTimer(t, j) PROVE TypeOK'
  BY <1>2 DEF ArmTimer, TypeOK, Busy
<1>3. ASSUME NEW j \in Jobs, AddEvent(j) PROVE TypeOK'
  BY <1>3 DEF AddEvent, TypeOK, Busy, vars
<1>4. QED
  BY <1>1, <1>2, <1>3 DEF Program

LEMMA StopType ==
  ASSUME TypeOK, fault = "none", StopCall(IOQuiet) \/ StopStep
  PROVE  TypeOK'
<1>1. CASE StopCall(IOQuiet)
  <2>1. Cardinality(Runners) \in Nat
    BY ConstantsAssumption, FS_CardinalityType, FS_Singleton, FS_Union, FS_EmptySet
       DEF Runners
  <2>2. QED
    BY <1>1, <2>1 DEF StopCall, TypeOK, Busy
<1>2. CASE StopStep
  BY <1>2, NextType DEF Next
<1>3. QED
  BY <1>1, <1>2

(***************************************************************************)
(* The variables of IOManager keep theirs.                                 *)
(***************************************************************************)
\* An event that a thread has got from epoll is still registered, and no other
\* thread has got it: it leaves the registered events when it is triggered.
GotIsWaiting ==
  /\ \A t \in Threads : got[t] \ {Pipe} \subseteq waiting \ ready
  /\ \A t, u \in Threads : t # u => got[t] \cap got[u] \subseteq {Pipe}

IOTypes ==
  /\ due \subseteq timers /\ timers \subseteq Jobs
  /\ ready \subseteq waiting /\ waiting \subseteq Jobs
  /\ tickled \in BOOLEAN /\ edge \in BOOLEAN
  /\ spot \in [Threads -> Spots]
  /\ cbs \in [Threads -> SUBSET Jobs]
  /\ got \in [Threads -> SUBSET (Jobs \cup {Pipe})]

Counting == {t \in Threads : spot[t] = "count"}
PendingCounts ==
  IsFiniteSet(waiting) /\ pending = Cardinality(waiting) + Cardinality(Counting)

IOInv == TypeOK /\ IOTypes /\ GotIsWaiting /\ PendingCounts

\* The steps that leave IOManager's variables alone, but for the pipe.
IOKept ==
  /\ UNCHANGED <<timers, due, tickled, waiting, ready, pending, spot, cbs, got>>
  /\ edge' \in BOOLEAN

LEMMA KeptInv ==
  ASSUME IOInv, TypeOK', IOKept
  PROVE  IOInv'
BY DEF IOInv, IOKept, IOTypes, GotIsWaiting, PendingCounts, Counting

LEMMA CountingFinite == IsFiniteSet(Counting) /\ Cardinality(Counting) \in Nat
BY ThreadsFinite, FS_Subset, FS_CardinalityType DEF Counting

\* The counter follows the events that are registered and the threads that are
\* just about to count one of them down.
LEMMA CountStep ==
  ASSUME PendingCounts, IOTypes,
         \/ UNCHANGED <<pending, waiting>> /\ Counting' = Counting
         \/ /\ pending' = pending + 1 /\ Counting' = Counting
            /\ \E j \in Jobs \ waiting : waiting' = waiting \cup {j}
         \/ /\ UNCHANGED pending
            /\ \E j \in waiting : waiting' = waiting \ {j}
            /\ \E t \in Threads \ Counting : Counting' = Counting \cup {t}
         \/ /\ pending' = pending - 1 /\ UNCHANGED waiting
            /\ \E t \in Counting : Counting' = Counting \ {t}
  PROVE  PendingCounts'
<1>1. IsFiniteSet(waiting) /\ Cardinality(waiting) \in Nat
  BY FS_CardinalityType DEF PendingCounts
<1>2. ASSUME NEW j \in Jobs \ waiting
      PROVE  /\ IsFiniteSet(waiting \cup {j})
             /\ Cardinality(waiting \cup {j}) = Cardinality(waiting) + 1
  BY <1>1, FS_AddElement
<1>3. ASSUME NEW j \in waiting
      PROVE  /\ IsFiniteSet(waiting \ {j})
             /\ Cardinality(waiting \ {j}) = Cardinality(waiting) - 1
  BY <1>1, FS_RemoveElement
<1>4. ASSUME NEW t \in Threads \ Counting
      PROVE  Cardinality(Counting \cup {t}) = Cardinality(Counting) + 1
  BY CountingFinite, FS_AddElement
<1>5. ASSUME NEW t \in Counting
      PROVE  Cardinality(Counting \ {t}) = Cardinality(Counting) - 1
  BY CountingFinite, FS_RemoveElement
<1>6. PendingCounts' <=>
        /\ IsFiniteSet(waiting')
        /\ pending' = Cardinality(waiting') + Cardinality(Counting')
  BY DEF PendingCounts, Counting
<1>7. pending = Cardinality(waiting) + Cardinality(Counting)
  BY DEF PendingCounts
<1>8. CASE UNCHANGED <<pending, waiting>> /\ Counting' = Counting
  BY <1>1, <1>6, <1>7, <1>8
<1>9. ASSUME NEW j \in Jobs \ waiting, pending' = pending + 1,
             waiting' = waiting \cup {j}, Counting' = Counting
      PROVE  PendingCounts'
  BY <1>1, <1>2, <1>6, <1>7, <1>9, CountingFinite
<1>10. ASSUME NEW j \in waiting, NEW t \in Threads \ Counting, pending' = pending,
              waiting' = waiting \ {j}, Counting' = Counting \cup {t}
       PROVE  PendingCounts'
  BY <1>1, <1>3, <1>4, <1>6, <1>7, <1>10, CountingFinite
<1>11. ASSUME NEW t \in Counting, pending' = pending - 1,
              waiting' = waiting, Counting' = Counting \ {t}
       PROVE  PendingCounts'
  BY <1>1, <1>5, <1>6, <1>7, <1>11, CountingFinite
<1>12. QED
  BY <1>8, <1>9, <1>10, <1>11

LEMMA LookingInv ==
  ASSUME IOInv, NEW t \in Threads, Looking(t)
  PROVE  IOInv'
<1> USE DEF IOTypes, GotIsWaiting, Spots, InIdle, Move
<1>1. TypeOK'
  BY DEF IOInv, Looking, ReadTimers, ReadPending, ReadQueue, Wake, Collect,
         CountDown, HandleEvent, vars, TypeOK, Busy
<1>2. CASE ReadTimers(t) \/ ReadPending(t) \/ (ReadQueue(t) /\ UNCHANGED vars)
  <2>1. \/ UNCHANGED <<io>>
        \/ /\ UNCHANGED <<timers, due, tickled, waiting, ready, pending, edge, cbs, got>>
           /\ spot[t] # "count"
           /\ \E l \in {"noTimers", "noEvents", "wait"} : Move(t, l)
    BY <1>2 DEF ReadTimers, ReadPending, ReadQueue, EndIdle, io
  <2>2. IOTypes' /\ GotIsWaiting'
    BY <2>1 DEF IOInv, io
  <2>3. Counting' = Counting
    BY <2>1 DEF Counting, IOInv, io
  <2>4. QED
    BY <1>1, <2>1, <2>2, <2>3, CountStep DEF IOInv, io
<1>3. CASE Wake(t)
  <2>1. IOTypes'
    BY <1>3 DEF IOInv, Wake
  <2>2. GotIsWaiting'
    BY <1>3 DEF IOInv, Wake
  <2>3. Counting' = Counting
    BY <1>3 DEF Counting, IOInv, Wake
  <2>4. QED
    BY <1>1, <1>3, <2>1, <2>2, <2>3, CountStep DEF IOInv, Wake
<1>4. CASE Collect(t)
  <2>1. IOTypes'
    BY <1>4 DEF IOInv, Collect
  <2>2. GotIsWaiting'
    BY <1>4 DEF IOInv, Collect
  <2>3. Counting' = Counting
    BY <1>4 DEF Counting, IOInv, Collect
  <2>4. QED
    BY <1>1, <1>4, <2>1, <2>2, <2>3, CountStep DEF IOInv, Collect
<1>5. CASE CountDown(t)
  <2>1. IOTypes' /\ GotIsWaiting'
    BY <1>5 DEF IOInv, CountDown
  <2>2. t \in Counting /\ Counting' = Counting \ {t}
    BY <1>5 DEF Counting, IOInv, CountDown
  <2>3. QED
    BY <1>1, <1>5, <2>1, <2>2, CountStep DEF IOInv, CountDown
<1>6. CASE HandleEvent(t) /\ UNCHANGED vars
  \* the pipe: what is scheduled changes the queue
  <2>1. PICK e \in got[t] :
          /\ got' = [got EXCEPT ![t] = @ \ {e}]
          /\ IF e = Pipe THEN UNCHANGED <<vars, waiting, spot>>
             ELSE Scheduled(t, e) /\ waiting' = waiting \ {e} /\ Move(t, "count")
    BY <1>6 DEF HandleEvent
  <2>2. ~Scheduled(t, e)
    <3>1. tasks' = tasks /\ tasks \in Seq(Task)
      BY <1>6 DEF vars, IOInv, TypeOK
    <3>2. Append(tasks, [job |-> e, thread |-> AnyThread]) # tasks
      BY <3>1
    <3>3. QED
      BY <3>1, <3>2 DEF Scheduled, Push
  <2>3. UNCHANGED <<waiting, spot>> /\ got' = [got EXCEPT ![t] = @ \ {e}]
    BY <2>1, <2>2
  <2>4. IOTypes' /\ GotIsWaiting'
    BY <1>6, <2>3 DEF IOInv, HandleEvent
  <2>5. Counting' = Counting
    BY <2>3 DEF Counting
  <2>6. QED
    BY <1>1, <1>6, <2>3, <2>4, <2>5, CountStep DEF IOInv, HandleEvent
<1>7. QED
  BY <1>2, <1>3, <1>4, <1>5, <1>6 DEF Looking

\* An expired timer's callback, or an event's waiter, goes into the queue.
LEMMA SchedulingInv ==
  ASSUME IOInv, NEW t \in Threads, NEW j \in cbs[t] \cup got[t], Scheduling(t, j)
  PROVE  IOInv'
<1> USE DEF IOTypes, GotIsWaiting, Spots, InIdle, Move
<1>1. TypeOK'
  <2>1. j \in Jobs
    BY DEF Scheduling, IOInv
  <2>2. QED
    BY <2>1, ScheduledType DEF Scheduling, IOInv
<1>2. CASE ScheduleExpired(t)
  <2>1. IOTypes' /\ GotIsWaiting'
    BY <1>2 DEF IOInv, ScheduleExpired
  <2>2. Counting' = Counting
    BY <1>2 DEF Counting, ScheduleExpired
  <2>3. QED
    BY <1>1, <1>2, <2>1, <2>2, CountStep DEF IOInv, ScheduleExpired
<1>3. CASE HandleEvent(t)
  <2>1. PICK e \in got[t] :
          /\ got' = [got EXCEPT ![t] = @ \ {e}]
          /\ IF e = Pipe THEN UNCHANGED <<vars, waiting, spot>>
             ELSE Scheduled(t, e) /\ waiting' = waiting \ {e} /\ Move(t, "count")
    BY <1>3 DEF HandleEvent
  <2>2. CASE e = Pipe
    <3>1. IOTypes' /\ GotIsWaiting'
      BY <1>3, <2>1, <2>2 DEF IOInv, HandleEvent
    <3>2. Counting' = Counting
      BY <2>1, <2>2 DEF Counting
    <3>3. QED
      BY <1>1, <1>3, <2>1, <2>2, <3>1, <3>2, CountStep DEF IOInv, HandleEvent
  <2>3. CASE e # Pipe
    <3>1. e \in waiting /\ e \notin ready /\ \A u \in Threads \ {t} : e \notin got[u]
      BY <2>1, <2>3 DEF IOInv
    <3>2. IOTypes'
      BY <1>3, <2>1, <2>3, <3>1 DEF IOInv, HandleEvent
    <3>3. GotIsWaiting'
      BY <1>3, <2>1, <2>3, <3>1 DEF IOInv, HandleEvent
    <3>4. t \notin Counting /\ Counting' = Counting \cup {t}
      BY <1>3, <2>1, <2>3 DEF Counting, IOInv, HandleEvent
    <3>5. QED
      BY <1>1, <1>3, <2>1, <2>3, <3>1, <3>2, <3>3, <3>4, CountStep
         DEF IOInv, HandleEvent
  <2>4. QED
    BY <2>2, <2>3
<1>4. QED
  BY <1>2, <1>3 DEF Scheduling

LEMMA ProgramInv ==
  ASSUME IOInv, fault = "none", NEW t \in Threads, Program(t)
  PROVE  IOInv'
<1> USE DEF IOTypes, GotIsWaiting
<1>1. TypeOK'
  BY ProgramType DEF IOInv
<1>2. ASSUME NEW j \in Jobs, NEW p \in Pins, NewTask(t, j, p) PROVE IOInv'
  BY <1>1, <1>2, KeptInv DEF NewTask, IOKept, io, IOInv
<1>3. ASSUME NEW j \in Jobs, ArmTimer(t, j) PROVE IOInv'
  <2>1. IOTypes' /\ GotIsWaiting'
    BY <1>3 DEF IOInv, ArmTimer
  <2>2. Counting' = Counting
    BY <1>3 DEF Counting, ArmTimer
  <2>3. QED
    BY <1>1, <1>3, <2>1, <2>2, CountStep DEF IOInv, ArmTimer
<1>4. ASSUME NEW j \in Jobs, Unused(j), AddEvent(j) PROVE IOInv'
  <2>1. j \notin waiting
    BY <1>4 DEF Unused
  <2>2. IOTypes' /\ GotIsWaiting'
    BY <1>4, <2>1 DEF IOInv, AddEvent
  <2>3. Counting' = Counting
    BY <1>4 DEF Counting, AddEvent
  <2>4. QED
    BY <1>1, <1>4, <2>1, <2>2, <2>3, CountStep DEF IOInv, AddEvent
<1>5. QED
  BY <1>2, <1>3, <1>4 DEF Program

LEMMA EnvironmentInv ==
  ASSUME IOInv, Environment
  PROVE  IOInv'
<1> USE DEF IOTypes, GotIsWaiting
<1>1. TypeOK'
  BY DEF IOInv, Environment, TimeComes, EventComes, vars, TypeOK, Busy
<1>2. IOTypes' /\ GotIsWaiting'
  BY IOConstants DEF IOInv, Environment, TimeComes, EventComes
<1>3. UNCHANGED <<pending, waiting>> /\ Counting' = Counting
  BY DEF Environment, TimeComes, EventComes, Counting
<1>4. QED
  BY <1>1, <1>2, <1>3, CountStep DEF IOInv

LEMMA IOStep == IOInv /\ [IONext]_ioVars => IOInv'
<1> SUFFICES ASSUME IOInv, [IONext]_ioVars PROVE IOInv'
  OBVIOUS
<1>1. CASE UNCHANGED ioVars
  <2>1. TypeOK'
    BY <1>1 DEF ioVars, vars, IOInv, TypeOK, Busy
  <2>2. QED
    BY <1>1, <2>1, KeptInv DEF ioVars, io, IOKept, IOInv, IOTypes
<1>2. CASE IONext
  <2>1. fault = "none" /\ TypeOK
    BY <1>2 DEF IONext, IOInv
  <2>2. ASSUME NEW t \in Threads, SharedStep(t) PROVE IOInv'
    BY <2>1, <2>2, SharedType, KeptInv
       DEF SharedStep, TickleIdle, IOKept, io, IOInv, IOTypes
  <2>3. ASSUME NEW t \in Threads, Finish(t), UNCHANGED io PROVE IOInv'
    BY <2>1, <2>3, FinishType, KeptInv DEF IOKept, io, IOInv, IOTypes
  <2>4. ASSUME NEW t \in Threads, ReadQueue(t), EndIdle(t) PROVE IOInv'
    BY <2>1, <2>4, LeaveIdleType, KeptInv
       DEF ReadQueue, InIdle, EndIdle, IOKept, io, IOInv, IOTypes
  <2>5. ASSUME NEW t \in Threads, YieldIdle(t) PROVE IOInv'
    <3>1. TypeOK'
      BY <2>1, <2>5, LeaveIdleType DEF YieldIdle, InIdle
    <3>2. IOTypes' /\ GotIsWaiting'
      BY <2>5 DEF YieldIdle, Move, IOInv, IOTypes, GotIsWaiting, Spots
    <3>3. UNCHANGED <<pending, waiting>> /\ Counting' = Counting
      BY <2>5 DEF YieldIdle, InIdle, Move, IOInv, IOTypes, Counting
    <3>4. QED
      BY <3>1, <3>2, <3>3, CountStep DEF IOInv
  <2>6. CASE (StopCall(IOQuiet) \/ StopStep) /\ UNCHANGED io
    BY <2>1, <2>6, StopType, KeptInv DEF IOKept, io, IOInv, IOTypes
  <2>7. QED
    BY <1>2, <2>1, <2>2, <2>3, <2>4, <2>5, <2>6, Cases, LookingInv,
       SchedulingInv, ProgramInv, EnvironmentInv
<1>3. QED
  BY <1>1, <1>2

LEMMA IOStart == IOInit => IOInv
<1> SUFFICES ASSUME IOInit PROVE IOInv
  OBVIOUS
<1>1. TypeOK
  <2>1. tasks \in Seq(Task) /\ owe \in [Threads -> Nat]
    BY DEF IOInit
  <2>2. /\ pc \in [Threads -> Places]
        /\ idleFiber \in [Threads -> {"NEW", "READY", "TERM"}]
        /\ cur \in [Threads -> Jobs \cup {None}]
        /\ fiber \in [Jobs -> FiberStates]
    BY DEF IOInit, Places, FiberStates
  <2>3. \A t \in Threads : cur[t] # None <=> Busy(t)
    BY DEF IOInit, Busy
  <2>4. active = 0 /\ idleCount = 0 /\ stopping \in BOOLEAN
    BY DEF IOInit
  <2>5. active \in Int /\ idleCount \in Int
    BY <2>4
  <2>6. ctl = "user" /\ fault = "none"
    BY DEF IOInit
  <2>7. /\ ctl \in {"user", "stop", "root", "join", "done"}
        /\ fault \in {"none", "assert_ready", "assert_resume", "stale_context"}
    BY <2>6
  <2>8. QED
    BY <2>1, <2>2, <2>3, <2>4, <2>5, <2>7 DEF TypeOK
<1>2. IOTypes /\ GotIsWaiting
  BY DEF IOInit, IOTypes, GotIsWaiting, Spots
<1>3. PendingCounts
  <2>1. Counting = {} /\ waiting = {} /\ pending = 0
    BY DEF IOInit, Counting
  <2>2. QED
    BY <2>1, FS_EmptySet DEF PendingCounts
<1>4. QED
  BY <1>1, <1>2, <1>3 DEF IOInv

\* The types of IOManager, for any number of threads and jobs; in particular
\* m_pendingEventCount is the number of events that are registered or being
\* triggered, which is what makes stopping() wait for them.
THEOREM IOTyping == IOSpec => []IOTypeOK
<1>1. IOInv => IOTypeOK
  BY DEF IOInv, IOTypeOK, IOTypes, PendingCounts, Counting
<1>2. QED
  BY <1>1, IOStart, IOStep, PTL DEF IOSpec

(***************************************************************************)
(* stop() returns when everything that was scheduled has been executed.    *)
(***************************************************************************)
\* The program has at least one thread that executes tasks, and pins tasks to
\* no other thread (nobody would ever take those).
Serviceable == Runners # {} /\ Pins \subseteq Runners \cup {AnyThread}

\* The owner enters run() only inside stop(); a thread leaves run() only after
\* its idle fiber has ended, which happens only when the scheduler is stopping;
\* and stop() returns only when every thread has left.
Leaving ==
  /\ ctl = "user" => ~stopping /\ pc[Caller] = "off"
  /\ ~UseCaller => pc[Caller] = "off"
  /\ UseCaller /\ ctl \in {"join", "done"} => pc[Caller] = "exit"
  /\ \A w \in Workers : pc[w] # "off"
  /\ ctl = "done" => \A w \in Workers : pc[w] = "exit"
  /\ \A t \in Threads : idleFiber[t] = "TERM" => stopping
  /\ \A t \in Threads : pc[t] = "exit" => idleFiber[t] = "TERM"

\* A thread has callbacks and events in its hands only inside idle().
Empty ==
  \A t \in Threads :
    /\ spot[t] # "work" => cbs[t] = {}
    /\ spot[t] \notin {"clock", "work", "count"} => got[t] = {}
    /\ spot[t] \in {"clock", "work", "count"} => pc[t] = "inIdle"

\* Every task is for any thread, or pinned to one that executes tasks.
PinnedRight == \A i \in DOMAIN tasks : tasks[i].thread \in Runners \cup {AnyThread}

\* A task for any thread has a thread that will scan the queue.
Served == FreeTask => \E t \in Runners : WillScan(t)

StopInv == Leaving /\ Empty /\ PinnedRight /\ Served /\ NothingLost

\* A step of the IOManager that is one of Scheduler's.
LEMMA AsScheduler ==
  ASSUME fault = "none",
         \/ \E t \in Threads : SharedStep(t)
         \/ \E t \in Threads, j \in Jobs, p \in Pins : NewTask(t, j, p)
         \/ StopStep
  PROVE  Next
BY DEF SharedStep, TickleIdle, NewTask, Next, RunStep, JobStep

LEMMA LostStep ==
  ASSUME IOInv, NothingLost, IONext
  PROVE  NothingLost'
<1>1. TypeOK /\ fault = "none"
  BY DEF IOInv, IONext
<1>2. ASSUME Next PROVE NothingLost'
  BY <1>1, <1>2, NothingLostStep
<1>3. CASE UNCHANGED <<tasks, fiber, pc, cur>>
  BY <1>3, HandsUntouched
<1>4. ASSUME NEW t \in Threads, Finish(t) PROVE NothingLost'
  <2>1. \A k \in Jobs : Queued(k) => Queued(k)'
    BY <1>4 DEF Finish, Queued
  <2>2. \A k \in Jobs : k # cur[t] => (Held(k) => Held(k)')
    BY <1>1, <1>4 DEF Finish, Held, GoTo, TypeOK
  <2>3. \A k \in Jobs : fiber'[k] = IF k = cur[t] THEN "TERM" ELSE fiber[k]
    BY <1>1, <1>4 DEF Finish, TypeOK
  <2>4. QED
    BY <2>1, <2>2, <2>3 DEF NothingLost
<1>5. ASSUME NEW t \in Threads,
             (ReadQueue(t) /\ EndIdle(t)) \/ YieldIdle(t)
      PROVE  NothingLost'
  BY <1>1, <1>5, HandsUntouched
     DEF ReadQueue, EndIdle, YieldIdle, InIdle, At, GoTo, TypeOK
<1>6. ASSUME NEW t \in Threads, NEW j \in cbs[t] \cup got[t], Scheduling(t, j)
      PROVE  NothingLost'
  <2>1. j \in Jobs /\ Scheduled(t, j)
    BY <1>6 DEF Scheduling, IOInv, IOTypes
  <2>2. Queued(j)' /\ \A k \in Jobs : Queued(k) => Queued(k)'
    BY <1>1, <2>1, QueuedAfterPush DEF Scheduled
  <2>3. \A k \in Jobs : Held(k) => Held(k)'
    BY <2>1 DEF Scheduled, Held
  <2>4. \A k \in Jobs : k # j => fiber'[k] = fiber[k]
    BY <1>1, <2>1 DEF Scheduled, TypeOK
  <2>5. QED
    BY <2>2, <2>3, <2>4 DEF NothingLost
<1>7. ASSUME NEW t \in Threads, Looking(t) PROVE NothingLost'
  BY <1>3, <1>7
     DEF Looking, ReadTimers, ReadPending, Wake, Collect, CountDown, vars
<1>8. ASSUME NEW t \in Threads, Program(t) PROVE NothingLost'
  BY <1>1, <1>2, <1>3, <1>8, AsScheduler DEF Program, ArmTimer, AddEvent, vars
<1>9. CASE StopCall(IOQuiet) \/ Environment
  BY <1>3, <1>9 DEF StopCall, Environment, TimeComes, EventComes, vars
<1>10. QED
  BY <1>1, <1>2, <1>4, <1>5, <1>6, <1>7, <1>8, <1>9, Cases, AsScheduler

\* What a step does to the queue: nothing, or a thread takes a task out, or a
\* thread that executes a job, is in idle(), or owns the IOManager adds one.
MayAdd(t) == pc[t] \in {"body", "inIdle"} \/ (t = Caller /\ ctl = "user")
Adds(t) ==
  /\ MayAdd(t)
  /\ \E j \in Jobs, p \in Runners \cup {AnyThread} : Push(t, j, p)
  /\ UNCHANGED <<pc, idleFiber>>

LEMMA QueueStep ==
  ASSUME Serviceable, IOInv, IONext
  PROVE  \/ tasks' = tasks
         \/ \E i \in DOMAIN tasks : TakeOut(i)
         \/ \E t \in Threads : Adds(t)
<1> DEFINE Goal == \/ tasks' = tasks
                   \/ \E i \in DOMAIN tasks : TakeOut(i)
                   \/ \E t \in Threads : Adds(t)
<1>1. ASSUME NEW t \in Threads, SharedStep(t) PROVE Goal
  BY <1>1 DEF SharedStep, TickleIdle, Take, TakeNone, Resume, Return,
              IdleEnter, IdleLeave, Tickle
<1>2. ASSUME NEW t \in Threads, Program(t) PROVE Goal
  <2>1. ASSUME NEW j \in Jobs, NEW p \in Pins, NewTask(t, j, p) PROVE Goal
    <3>1. Push(t, j, p) /\ UNCHANGED <<pc, idleFiber>> /\ MayAdd(t)
      BY <2>1 DEF NewTask, Spawn, Submit, MayAdd, At
    <3>2. p \in Runners \cup {AnyThread}
      BY DEF Serviceable
    <3>3. QED
      BY <3>1, <3>2 DEF Adds
  <2>2. QED
    BY <1>2, <2>1 DEF Program, ArmTimer, AddEvent, vars
<1>3. ASSUME NEW t \in Threads, NEW j \in cbs[t] \cup got[t], Scheduling(t, j)
      PROVE  Goal
  BY <1>3 DEF Scheduling, Scheduled, InIdle, At, Adds, MayAdd, IOInv, IOTypes
<1>4. ASSUME NEW t \in Threads, Finish(t) \/ Looking(t) \/ EndIdle(t) \/ YieldIdle(t)
      PROVE  Goal
  BY <1>4 DEF Finish, Looking, ReadTimers, ReadPending, Wake, Collect,
              CountDown, vars, EndIdle, YieldIdle
<1>5. CASE StopCall(IOQuiet) \/ StopStep \/ Environment
  BY <1>5 DEF StopCall, StopStep, StopRoot, RootDone, Join, Environment,
              TimeComes, EventComes, vars
<1>6. QED
  BY <1>1, <1>2, <1>3, <1>4, <1>5, Cases

LEMMA PinnedStep ==
  ASSUME Serviceable, IOInv, PinnedRight, IONext
  PROVE  PinnedRight'
<1>1. tasks \in Seq(Task)
  BY DEF IOInv, TypeOK
<1>2. CASE tasks' = tasks
  BY <1>2 DEF PinnedRight
<1>3. ASSUME NEW i \in DOMAIN tasks, TakeOut(i) PROVE PinnedRight'
  <2>1. /\ tasks' \in Seq(Task)
        /\ Len(tasks') = Len(tasks) - 1
        /\ \A n \in 1 .. Len(tasks) - 1 :
             tasks'[n] = IF n < i THEN tasks[n] ELSE tasks[n + 1]
    BY <1>1, <1>3, RemoveAtFacts DEF TakeOut
  <2>2. DOMAIN tasks = 1 .. Len(tasks) /\ DOMAIN tasks' = 1 .. Len(tasks) - 1
        /\ Len(tasks) \in Nat
    BY <1>1, <2>1, LenProperties
  <2>3. \A n \in DOMAIN tasks' : \E m \in DOMAIN tasks : tasks'[n] = tasks[m]
    <3>1. ASSUME NEW n \in DOMAIN tasks'
          PROVE  n \in DOMAIN tasks /\ n + 1 \in DOMAIN tasks
      BY <2>2
    <3>2. QED
      BY <2>1, <2>2, <3>1
  <2>4. QED
    BY <2>3 DEF PinnedRight
<1>4. ASSUME NEW t \in Threads, NEW j \in Jobs, NEW p \in Runners \cup {AnyThread},
             Push(t, j, p)
      PROVE  PinnedRight'
  <2> DEFINE e == [job |-> j, thread |-> p]
  <2>1. tasks' = Append(tasks, e)
    BY <1>4 DEF Push
  <2>2. e \in Task /\ e.thread = p
    BY DEF Task, Runners, Threads
  <2> HIDE DEF e
  <2>3. /\ DOMAIN tasks' = 1 .. Len(tasks) + 1 /\ DOMAIN tasks = 1 .. Len(tasks)
        /\ tasks'[Len(tasks) + 1] = e
        /\ \A i \in 1 .. Len(tasks) : tasks'[i] = tasks[i]
    BY <1>1, <2>1, <2>2, AppendProperties
  <2>4. QED
    BY <1>1, <2>2, <2>3 DEF PinnedRight
<1>5. QED
  BY <1>2, <1>3, <1>4, QueueStep DEF Adds

\* The threads that have not entered run(), or have left it, stay where they are
\* until StopRoot lets the owner enter; idle fibers end only when stopping.
LEMMA LeavingStep ==
  ASSUME IOInv, Leaving, IONext
  PROVE  Leaving'
<1> USE ConstantsAssumption DEF Threads
<1>1. TypeOK /\ fault = "none"
  BY DEF IOInv, IONext
<1>2. CASE UNCHANGED <<ctl, stopping, pc, idleFiber>>
  BY <1>2 DEF Leaving
<1>3. ASSUME NEW t \in Threads, SharedStep(t) PROVE Leaving'
  <2>1. UNCHANGED <<ctl, stopping, idleFiber>>
    BY <1>3 DEF SharedStep, TickleIdle, Take, TakeNone, Resume, Return,
                IdleEnter, IdleLeave, Tickle
  <2>2. \A v \in Threads : pc[v] \in {"off", "exit"} => pc'[v] = pc[v]
    BY <1>1, <1>3 DEF SharedStep, TickleIdle, Take, TakeNone, Resume, Return,
                      IdleEnter, IdleLeave, Tickle, At, GoTo, TypeOK
  <2>3. \A v \in Threads : pc'[v] = "off" => pc[v] = "off"
    BY <1>1, <1>3 DEF SharedStep, TickleIdle, Take, TakeNone, Resume, Return,
                      IdleEnter, IdleLeave, Tickle, At, GoTo, TypeOK
  <2>4. \A v \in Threads : pc'[v] = "exit" => idleFiber[v] = "TERM"
    BY <1>1, <1>3 DEF SharedStep, TickleIdle, Take, TakeNone, Resume, Return,
                      IdleEnter, IdleLeave, Tickle, At, GoTo, TypeOK, Leaving
  <2>5. QED
    BY <2>1, <2>2, <2>3, <2>4 DEF Leaving
<1>4. ASSUME NEW t \in Threads, Finish(t) PROVE Leaving'
  BY <1>1, <1>4 DEF Finish, At, GoTo, TypeOK, Leaving
<1>5. ASSUME NEW t \in Threads, ReadQueue(t), EndIdle(t) PROVE Leaving'
  BY <1>1, <1>5 DEF ReadQueue, EndIdle, Quiet, InIdle, At, GoTo, TypeOK, Leaving
<1>6. ASSUME NEW t \in Threads, YieldIdle(t) PROVE Leaving'
  BY <1>1, <1>6 DEF YieldIdle, InIdle, At, GoTo, TypeOK, Leaving
<1>7. ASSUME NEW t \in Threads, Looking(t) PROVE Leaving'
  BY <1>2, <1>7
     DEF Looking, ReadTimers, ReadPending, Wake, Collect, CountDown, vars
<1>8. ASSUME NEW t \in Threads, NEW j \in cbs[t] \cup got[t], Scheduling(t, j)
      PROVE  Leaving'
  BY <1>2, <1>8 DEF Scheduling, Scheduled
<1>9. ASSUME NEW t \in Threads, Program(t) PROVE Leaving'
  BY <1>2, <1>9 DEF Program, NewTask, Spawn, Submit, ArmTimer, AddEvent, vars
<1>10. CASE StopCall(IOQuiet)
  BY <1>10 DEF StopCall, Leaving
<1>11. CASE StopRoot
  BY <1>1, <1>11 DEF StopRoot, GoTo, TypeOK, Leaving
<1>12. CASE RootDone
  BY <1>12 DEF RootDone, Leaving
<1>13. CASE Join
  BY <1>13 DEF Join, Leaving
<1>14. CASE Environment
  BY <1>2, <1>14 DEF Environment, TimeComes, EventComes, vars
<1>15. QED
  BY <1>3, <1>4, <1>5, <1>6, <1>7, <1>8, <1>9, <1>10, <1>11, <1>12, <1>13,
     <1>14, Cases DEF StopStep

\* Callbacks and events are collected and handled without leaving idle().
LEMMA EmptyStep ==
  ASSUME IOInv, Empty, IONext
  PROVE  Empty'
<1>1. TypeOK /\ IOTypes
  BY DEF IOInv
<1>2. ASSUME UNCHANGED <<spot, cbs, got>>,
             \A v \in Threads : pc[v] = "inIdle" /\ spot[v] \in {"clock", "work", "count"}
                                  => pc'[v] = "inIdle"
      PROVE  Empty'
  BY <1>2 DEF Empty
<1>3. ASSUME NEW t \in Threads, SharedStep(t) PROVE Empty'
  BY <1>1, <1>2, <1>3
     DEF SharedStep, TickleIdle, Take, TakeNone, Resume, Return, IdleEnter,
         IdleLeave, Tickle, At, GoTo, TypeOK, io
<1>4. ASSUME NEW t \in Threads, Finish(t), UNCHANGED io PROVE Empty'
  BY <1>1, <1>2, <1>4 DEF Finish, At, GoTo, TypeOK, io
<1>5. ASSUME NEW t \in Threads, ReadQueue(t), EndIdle(t) PROVE Empty'
  BY <1>1, <1>2, <1>5 DEF ReadQueue, EndIdle, InIdle, At, GoTo, TypeOK, io
<1>6. ASSUME NEW t \in Threads, YieldIdle(t) PROVE Empty'
  BY <1>1, <1>6 DEF YieldIdle, InIdle, Move, At, GoTo, TypeOK, IOTypes, Empty
<1>7. ASSUME NEW t \in Threads,
             \/ ReadTimers(t) \/ ReadPending(t) \/ Wake(t) \/ Collect(t)
             \/ CountDown(t) \/ (ReadQueue(t) /\ UNCHANGED vars)
      PROVE  Empty'
  BY <1>1, <1>7 DEF ReadTimers, ReadPending, ReadQueue, EndIdle, Wake, Collect,
     CountDown, InIdle, Move, At, vars, io, IOTypes, Empty
<1>8. ASSUME NEW t \in Threads, HandleEvent(t), pc' = pc PROVE Empty'
  BY <1>1, <1>8 DEF HandleEvent, InIdle, Move, At, IOTypes, Empty
<1>9. ASSUME NEW t \in Threads, ScheduleExpired(t) PROVE Empty'
  BY <1>1, <1>9 DEF ScheduleExpired, Scheduled, InIdle, At, IOTypes, Empty
<1>10. ASSUME NEW t \in Threads, NEW j \in cbs[t] \cup got[t], Scheduling(t, j)
       PROVE  Empty'
  BY <1>8, <1>9, <1>10 DEF Scheduling, Scheduled
<1>11. ASSUME NEW t \in Threads, Looking(t) PROVE Empty'
  BY <1>7, <1>8, <1>11 DEF Looking, vars
<1>12. ASSUME NEW t \in Threads, Program(t) PROVE Empty'
  BY <1>2, <1>12
     DEF Program, NewTask, Spawn, Submit, ArmTimer, AddEvent, vars, io
<1>13. CASE (StopCall(IOQuiet) \/ StopStep) /\ UNCHANGED io
  BY <1>1, <1>2, <1>13
     DEF StopCall, StopStep, StopRoot, RootDone, Join, GoTo, TypeOK, io
<1>14. CASE Environment
  BY <1>2, <1>14 DEF Environment, TimeComes, EventComes, vars
<1>15. QED
  BY <1>3, <1>4, <1>5, <1>6, <1>10, <1>11, <1>12, <1>13, <1>14, Cases

\* A thread gives up scanning only when it has seen that no task for any thread
\* is queued.
LEMMA ScanStep ==
  ASSUME IOInv, IONext, FreeTask'
  PROVE  \A v \in Threads : WillScan(v) => WillScan(v)'
<1>1. TypeOK
  BY DEF IOInv
<1>2. CASE UNCHANGED <<pc, idleFiber>>
  BY <1>2 DEF WillScan
<1>3. ASSUME NEW t \in Threads, SharedStep(t)
      PROVE  \A v \in Threads : WillScan(v) => WillScan(v)'
  <2>1. CASE TakeNone(t)
    BY <2>1 DEF TakeNone, FreeTask, Eligible
  <2>2. CASE ~TakeNone(t)
    BY <1>1, <1>3, <2>2
       DEF SharedStep, TickleIdle, Take, Resume, Return, IdleEnter, IdleLeave,
           Tickle, At, GoTo, TypeOK, WillScan
  <2>3. QED
    BY <2>1, <2>2
<1>4. ASSUME NEW t \in Threads,
             Finish(t) \/ (ReadQueue(t) /\ EndIdle(t)) \/ YieldIdle(t)
      PROVE  \A v \in Threads : WillScan(v) => WillScan(v)'
  BY <1>1, <1>4 DEF Finish, ReadQueue, EndIdle, YieldIdle, InIdle, At, GoTo,
                    TypeOK, WillScan
<1>5. ASSUME NEW t \in Threads, Looking(t) PROVE UNCHANGED <<pc, idleFiber>>
  BY <1>5 DEF Looking, ReadTimers, ReadPending, Wake, Collect, CountDown, vars
<1>6. ASSUME NEW t \in Threads, NEW j \in cbs[t] \cup got[t], Scheduling(t, j)
      PROVE  UNCHANGED <<pc, idleFiber>>
  BY <1>6 DEF Scheduling, Scheduled
<1>7. ASSUME NEW t \in Threads, Program(t) PROVE UNCHANGED <<pc, idleFiber>>
  BY <1>7 DEF Program, NewTask, Spawn, Submit, ArmTimer, AddEvent, vars
<1>8. CASE StopCall(IOQuiet) \/ StopStep
  BY <1>1, <1>8 DEF StopCall, StopStep, StopRoot, RootDone, Join, GoTo, TypeOK,
                    WillScan
<1>9. CASE Environment
  BY <1>2, <1>9 DEF Environment, TimeComes, EventComes, vars
<1>10. QED
  BY <1>2, <1>3, <1>4, <1>5, <1>6, <1>7, <1>8, <1>9, Cases

LEMMA IOServedStep ==
  ASSUME Serviceable, IOInv, Leaving, Served, IONext
  PROVE  Served'
<1> USE ConstantsAssumption
<1> SUFFICES ASSUME FreeTask' PROVE \E t \in Runners : WillScan(t)'
  BY DEF Served
<1>1. Runners \subseteq Threads
  BY DEF Runners, Threads
<1>2. \A v \in Threads : WillScan(v) => WillScan(v)'
  BY ScanStep
<1>3. CASE FreeTask
  BY <1>1, <1>2, <1>3 DEF Served
<1>4. ASSUME NEW t \in Threads, Adds(t) PROVE \E v \in Runners : WillScan(v)'
  <2>1. CASE t \in Runners
    <3>1. WillScan(t)
      BY <1>4, <2>1 DEF Adds, MayAdd, WillScan, Leaving
    <3>2. QED
      BY <1>2, <2>1, <3>1
  <2>2. CASE t \notin Runners
    \* the owner, which executes no tasks: every worker is there, and no idle
    \* fiber has ended
    <3>1. t = Caller /\ ~UseCaller
      BY <2>2 DEF Runners, Threads
    <3>2. ctl = "user" /\ ~stopping
      BY <1>4, <3>1 DEF Adds, MayAdd, Leaving
    <3>3. PICK w \in Workers : TRUE
      BY <3>1 DEF Serviceable, Runners
    <3>4. WillScan(w)
      BY <3>2 DEF WillScan, Leaving, Threads
    <3>5. QED
      BY <1>2, <3>4 DEF Runners, Threads
  <2>3. QED
    BY <2>1, <2>2
<1>5. CASE tasks' = tasks
  BY <1>3, <1>5 DEF FreeTask
<1>6. ASSUME NEW i \in DOMAIN tasks, TakeOut(i) PROVE FreeTask
  BY <1>6, FreeTaskTaken DEF IOInv
<1>7. QED
  BY <1>3, <1>4, <1>5, <1>6, QueueStep

LEMMA StopStart == IOInit => StopInv
<1> SUFFICES ASSUME IOInit PROVE StopInv
  OBVIOUS
<1>1. Leaving /\ Empty
  BY ConstantsAssumption DEF IOInit, Leaving, Empty, Threads
<1>2. PinnedRight /\ Served /\ NothingLost
  BY DEF IOInit, PinnedRight, Served, FreeTask, NothingLost
<1>3. QED
  BY <1>1, <1>2 DEF StopInv

LEMMA StopInvStep ==
  ASSUME Serviceable
  PROVE  IOInv /\ StopInv /\ [IONext]_ioVars => StopInv'
<1> SUFFICES ASSUME IOInv, StopInv, [IONext]_ioVars PROVE StopInv'
  OBVIOUS
<1>1. CASE UNCHANGED ioVars
  BY <1>1 DEF ioVars, io, vars, StopInv, Leaving, Empty, PinnedRight, Served,
              FreeTask, WillScan, NothingLost, Queued, Held
<1>2. CASE IONext
  BY <1>2, LeavingStep, EmptyStep, PinnedStep, IOServedStep, LostStep DEF StopInv
<1>3. QED
  BY <1>1, <1>2

\* When stop() returns, every job that was ever scheduled has ended, and no
\* thread holds a callback or an event: for any number of threads that read
\* timers, events and queue at different moments.
THEOREM StopRunsEverything ==
  ASSUME Serviceable
  PROVE  IOSpec => []StopRunsTasks
<1>1. IOInv /\ StopInv => StopRunsTasks
  <2> SUFFICES ASSUME IOInv, StopInv, ctl = "done"
               PROVE  /\ \A j \in Jobs : fiber[j] \in {"NEW", "TERM"} \/ Left(j)
                      /\ \A t \in Threads : cbs[t] = {} /\ got[t] \subseteq {Pipe}
    BY DEF StopRunsTasks
  <2>1. /\ \A t \in Runners : pc[t] = "exit"
        /\ \A t \in Threads : pc[t] \in {"off", "exit"}
    BY DEF StopInv, Leaving, Runners, Threads
  <2>2. \A t \in Threads : cbs[t] = {} /\ got[t] \subseteq {Pipe}
    BY <2>1 DEF StopInv, Empty
  <2>3. ASSUME NEW j \in Jobs, fiber[j] \notin {"NEW", "TERM"} PROVE Left(j)
    <3>1. fiber[j] \in {"READY", "RUNNING"}
      BY <2>3 DEF IOInv, TypeOK, FiberStates
    <3>2. ~Held(j)
      BY <2>1 DEF Held
    <3>3. PICK i \in DOMAIN tasks : tasks[i].job = j
      BY <3>1, <3>2 DEF StopInv, NothingLost, Queued
    <3>4. ~FreeTask
      <4>1. \A t \in Runners : pc[t] = "exit" /\ idleFiber[t] = "TERM"
        BY <2>1 DEF StopInv, Leaving, Runners, Threads
      <4>2. \A t \in Runners : ~WillScan(t)
        BY <4>1 DEF WillScan
      <4>3. QED
        BY <4>2 DEF StopInv, Served
    <3>5. tasks[i].thread \in Runners /\ tasks[i].thread # AnyThread
      BY <3>3, <3>4 DEF StopInv, PinnedRight, FreeTask
    <3>6. QED
      BY <2>1, <3>3, <3>5 DEF Left, Stranded
  <2>4. QED
    BY <2>2, <2>3
<1>2. IOSpec => [](IOInv /\ StopInv)
  <2>1. IOInv /\ StopInv /\ [IONext]_ioVars => IOInv' /\ StopInv'
    BY IOStep, StopInvStep
  <2>2. QED
    BY <2>1, IOStart, StopStart, PTL DEF IOSpec
<1>3. QED
  BY <1>1, <1>2, PTL

(***************************************************************************)
(* m_activeThreadCount, and the events that stop() waits for.              *)
(***************************************************************************)
\* The steps that neither take a task nor come back from one.
LEMMA SameBusy ==
  ASSUME ActiveExact, active' = active, \A t \in Threads : Busy(t)' <=> Busy(t)
  PROVE  ActiveExact'
<1>1. {t \in Threads : Busy(t)}' = {t \in Threads : Busy(t)}
  OBVIOUS
<1>2. QED
  BY <1>1 DEF ActiveExact

LEMMA IOActiveStep == IOInv /\ ActiveExact /\ [IONext]_ioVars => ActiveExact'
<1> SUFFICES ASSUME IOInv, ActiveExact, [IONext]_ioVars PROVE ActiveExact'
  OBVIOUS
<1>1. TypeOK
  BY DEF IOInv
<1>2. ASSUME Next PROVE ActiveExact'
  BY <1>1, <1>2, ActiveStep
<1>3. ASSUME UNCHANGED <<pc, active>> PROVE ActiveExact'
  BY <1>3, SameBusy DEF Busy
<1>4. ASSUME NEW t \in Threads, Finish(t) PROVE ActiveExact'
  <2>1. active' = active /\ \A v \in Threads : Busy(v)' <=> Busy(v)
    BY <1>1, <1>4 DEF Finish, At, GoTo, Busy, TypeOK
  <2>2. QED
    BY <2>1, SameBusy
<1>5. ASSUME NEW t \in Threads, (ReadQueue(t) /\ EndIdle(t)) \/ YieldIdle(t)
      PROVE  ActiveExact'
  <2>1. active' = active /\ \A v \in Threads : Busy(v)' <=> Busy(v)
    BY <1>1, <1>5 DEF ReadQueue, EndIdle, YieldIdle, InIdle, At, GoTo, Busy, TypeOK
  <2>2. QED
    BY <2>1, SameBusy
<1>6. ASSUME NEW t \in Threads, Looking(t) PROVE ActiveExact'
  BY <1>3, <1>6
     DEF Looking, ReadTimers, ReadPending, Wake, Collect, CountDown, vars
<1>7. ASSUME NEW t \in Threads, NEW j \in cbs[t] \cup got[t], Scheduling(t, j)
      PROVE  ActiveExact'
  BY <1>3, <1>7 DEF Scheduling, Scheduled
<1>8. ASSUME NEW t \in Threads, Program(t) PROVE ActiveExact'
  BY <1>3, <1>8 DEF Program, NewTask, Spawn, Submit, ArmTimer, AddEvent, vars
<1>9. CASE StopCall(IOQuiet) \/ Environment \/ UNCHANGED ioVars
  BY <1>3, <1>9 DEF StopCall, Environment, TimeComes, EventComes, ioVars, vars
<1>10. fault = "none" \/ UNCHANGED ioVars
  BY DEF IONext
<1>11. QED
  BY <1>2, <1>4, <1>5, <1>6, <1>7, <1>8, <1>9, <1>10, Cases, AsScheduler

\* The counter that IOManager's stopping() reads is the number of threads that
\* execute a task; a thread that handles timers or events is not among them.
THEOREM IOActiveIsExact == IOSpec => []ActiveExact
<1>1. IOInit => ActiveExact
  <2> SUFFICES ASSUME IOInit PROVE ActiveExact
    OBVIOUS
  <2>1. {t \in Threads : Busy(t)} = {}
    BY DEF IOInit, Busy
  <2>2. QED
    BY <2>1, FS_EmptySet DEF IOInit, ActiveExact
<1>2. QED
  BY <1>1, IOActiveStep, IOStart, IOStep, PTL DEF IOSpec

\* The program registers no event once stop() has been called.
NoLateEvents == stopping => waiting' \subseteq waiting

\* The owner enters run() inside stop() only; when its idle fiber has read that
\* no event is pending, or has ended on it, none is registered.
LastLook ==
  /\ ctl # "user" => stopping
  /\ pc[Caller] # "off" \/ spot[Caller] # "top" => stopping
  /\ idleFiber[Caller] = "TERM" \/ spot[Caller] = "noEvents" => waiting = {}

\* The counter is zero only if no event is registered.
LEMMA PendingIsZero == PendingCounts /\ pending = 0 => waiting = {}
<1> SUFFICES ASSUME PendingCounts, pending = 0 PROVE waiting = {}
  OBVIOUS
<1>1. IsFiniteSet(waiting) /\ Cardinality(waiting) \in Nat
  BY FS_CardinalityType DEF PendingCounts
<1>2. Cardinality(waiting) = 0
  BY <1>1, CountingFinite DEF PendingCounts
<1>3. QED
  BY <1>1, <1>2, FS_EmptySet

LEMMA LastLookStep ==
  ASSUME IOInv, Leaving, LastLook, IONext, NoLateEvents
  PROVE  LastLook'
<1> USE ConstantsAssumption
<1>1. TypeOK /\ IOTypes /\ Caller \in Threads
  BY DEF IOInv, Threads
<1>2. ASSUME UNCHANGED <<ctl, stopping, idleFiber, spot>>,
             pc[Caller] = "off" => pc'[Caller] = "off"
      PROVE  LastLook'
  BY <1>1, <1>2 DEF LastLook, NoLateEvents, Leaving
<1>3. ASSUME NEW t \in Threads, SharedStep(t) PROVE LastLook'
  <2>1. UNCHANGED <<ctl, stopping, idleFiber, spot>>
    BY <1>3 DEF SharedStep, TickleIdle, Take, TakeNone, Resume, Return, IdleEnter,
                IdleLeave, Tickle, io
  <2>2. pc[Caller] = "off" => pc'[Caller] = "off"
    BY <1>1, <1>3 DEF SharedStep, TickleIdle, Take, TakeNone, Resume, Return,
                      IdleEnter, IdleLeave, Tickle, At, GoTo, TypeOK
  <2>3. QED
    BY <1>2, <2>1, <2>2
<1>4. ASSUME NEW t \in Threads, Finish(t), UNCHANGED io PROVE LastLook'
  BY <1>1, <1>2, <1>4 DEF Finish, At, GoTo, TypeOK, io
<1>5. ASSUME NEW t \in Threads, ReadQueue(t), EndIdle(t) PROVE LastLook'
  <2>1. /\ UNCHANGED <<ctl, stopping, spot, waiting>> /\ spot[t] = "noEvents"
        /\ pc[t] = "inIdle"
        /\ pc' = [pc EXCEPT ![t] = "outIdle"]
        /\ idleFiber' = [idleFiber EXCEPT ![t] = "TERM"]
    BY <1>5 DEF ReadQueue, EndIdle, InIdle, At, GoTo, io
  <2>2. CASE t = Caller
    BY <1>1, <2>1, <2>2 DEF LastLook
  <2>3. CASE t # Caller
    BY <1>1, <2>1, <2>3 DEF LastLook, TypeOK
  <2>4. QED
    BY <2>2, <2>3
<1>6. ASSUME NEW t \in Threads, YieldIdle(t) PROVE LastLook'
  <2>1. /\ UNCHANGED <<ctl, stopping, waiting>>
        /\ pc[t] = "inIdle"
        /\ pc' = [pc EXCEPT ![t] = "outIdle"]
        /\ spot' = [spot EXCEPT ![t] = "top"]
        /\ idleFiber' = [idleFiber EXCEPT ![t] = "READY"]
    BY <1>6 DEF YieldIdle, InIdle, At, GoTo, Move
  <2>2. CASE t = Caller
    BY <1>1, <2>1, <2>2 DEF LastLook, TypeOK, IOTypes
  <2>3. CASE t # Caller
    BY <1>1, <2>1, <2>3 DEF LastLook, TypeOK, IOTypes
  <2>4. QED
    BY <2>2, <2>3
<1>7. ASSUME NEW t \in Threads, ReadPending(t) PROVE LastLook'
  <2>1. /\ UNCHANGED <<ctl, stopping, idleFiber, pc, waiting>>
        /\ pc[t] = "inIdle"
        /\ spot' = [spot EXCEPT ![t] = IF pending = 0 THEN "noEvents" ELSE "wait"]
    BY <1>7 DEF ReadPending, InIdle, At, Move, vars
  <2>2. pending = 0 => waiting = {}
    BY PendingIsZero DEF IOInv
  <2>3. QED
    BY <1>1, <2>1, <2>2 DEF LastLook, IOTypes
<1>8. ASSUME NEW t \in Threads, UNCHANGED <<ctl, stopping, idleFiber, pc>>,
             pc[t] = "inIdle", NEW l \in {"noTimers", "wait", "clock", "work", "count"},
             spot' = [spot EXCEPT ![t] = l] \/ spot' = spot
      PROVE  LastLook'
  BY <1>1, <1>8 DEF LastLook, NoLateEvents, IOTypes, Leaving
<1>9. ASSUME NEW t \in Threads, Looking(t) PROVE LastLook'
  <2>1. CASE ReadPending(t)
    BY <1>7, <2>1
  <2>2. CASE ReadTimers(t)
    BY <1>8, <2>2 DEF ReadTimers, InIdle, At, Move, vars
  <2>3. CASE Wake(t) \/ Collect(t) \/ CountDown(t)
    BY <1>8, <2>3 DEF Wake, Collect, CountDown, InIdle, At, Move, vars
  <2>4. CASE ReadQueue(t) /\ UNCHANGED vars
    <3>1. EndIdle(t) \/ spot' = [spot EXCEPT ![t] = "wait"]
      BY <2>4 DEF ReadQueue, Move
    <3>2. QED
      BY <1>8, <2>4, <3>1 DEF ReadQueue, EndIdle, InIdle, At, vars, io
  <2>5. CASE HandleEvent(t) /\ UNCHANGED vars
    BY <1>8, <2>5 DEF HandleEvent, InIdle, At, Move, vars
  <2>6. QED
    BY <1>9, <2>1, <2>2, <2>3, <2>4, <2>5 DEF Looking
<1>10. ASSUME NEW t \in Threads, NEW j \in cbs[t] \cup got[t], Scheduling(t, j)
       PROVE  LastLook'
  <2>1. UNCHANGED <<ctl, stopping, idleFiber, pc>> /\ pc[t] = "inIdle"
    BY <1>10 DEF Scheduling, Scheduled, InIdle, At
  <2>2. spot' = spot \/ spot' = [spot EXCEPT ![t] = "count"]
    BY <1>10 DEF Scheduling, ScheduleExpired, HandleEvent, Move
  <2>3. QED
    BY <1>8, <2>1, <2>2
<1>11. ASSUME NEW t \in Threads, Program(t) PROVE LastLook'
  BY <1>2, <1>11
     DEF Program, NewTask, Spawn, Submit, ArmTimer, AddEvent, vars, io
<1>12. CASE StopCall(IOQuiet) /\ UNCHANGED io
  BY <1>12 DEF StopCall, LastLook, io
<1>13. CASE StopStep /\ UNCHANGED io
  <2>1. UNCHANGED <<stopping, idleFiber, spot, waiting>> /\ ctl # "user"
    BY <1>13 DEF StopStep, StopRoot, RootDone, Join, io
  <2>2. QED
    BY <2>1 DEF LastLook
<1>14. CASE Environment
  BY <1>2, <1>14 DEF Environment, TimeComes, EventComes, vars
<1>15. QED
  BY <1>3, <1>4, <1>5, <1>6, <1>9, <1>10, <1>11, <1>12, <1>13, <1>14, Cases

\* What run window refutes holds if the program registers no event any more once
\* stop() has been called, and the owner executes tasks too: its idle fiber, which
\* begins inside stop(), ends only after the last event has been triggered --
\* although those of the workers may end on a count they have read long before.
THEOREM StopAwaitsEvents ==
  ASSUME UseCaller
  PROVE  IOSpec /\ [][NoLateEvents]_ioVars => []StopWaitsForEvents
<1>1. IOInit => Leaving /\ LastLook
  <2>1. IOInit => LastLook
    BY ConstantsAssumption DEF IOInit, LastLook, Threads
  <2>2. QED
    BY <2>1, StopStart DEF StopInv
<1>2. IOInv /\ Leaving /\ LastLook /\ [IONext]_ioVars /\ [NoLateEvents]_ioVars
        => Leaving' /\ LastLook'
  <2> SUFFICES ASSUME IOInv, Leaving, LastLook, [IONext]_ioVars,
                      [NoLateEvents]_ioVars
               PROVE  Leaving' /\ LastLook'
    OBVIOUS
  <2>1. CASE UNCHANGED ioVars
    BY <2>1 DEF ioVars, io, vars, Leaving, LastLook
  <2>2. CASE IONext /\ NoLateEvents
    BY <2>2, LeavingStep, LastLookStep
  <2>3. QED
    BY <2>1, <2>2
<1>3. Leaving /\ LastLook => StopWaitsForEvents
  <2> SUFFICES ASSUME Leaving, LastLook, ctl = "done" PROVE waiting = {}
    BY DEF StopWaitsForEvents
  <2>1. pc[Caller] = "exit" /\ Caller \in Threads
    BY ConstantsAssumption DEF Leaving, Threads
  <2>2. idleFiber[Caller] = "TERM"
    BY <2>1 DEF Leaving
  <2>3. QED
    BY <2>2 DEF LastLook
<1>4. QED
  BY <1>1, <1>2, <1>3, IOStart, IOStep, PTL DEF IOSpec

=============================================================================
