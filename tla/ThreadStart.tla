----------------------------- MODULE ThreadStart -----------------------------
(***************************************************************************)
(* scheduler::start() with the threads it creates (Thread.cpp), the        *)
(* semaphore each of them is awaited with (Semaphore.cpp) and m_mutex.     *)
(*                                                                         *)
(* Scheduler starts all of its workers in one step.  Here start() creates  *)
(* them one by one, each runs at once, and what keeps the first of them    *)
(* from scanning the queue before the last is there is m_mutex alone; what *)
(* keeps start() from reading the id of a thread that has not yet stored   *)
(* it is the semaphore.  pthread_create() may fail: the exception leaves   *)
(* start() with m_mutex locked.                                            *)
(***************************************************************************)
EXTENDS Scheduler

CONSTANT NoId   \* m_id of a Thread whose thread has not run: -1

ASSUME NoIdAssumption == NoId \notin Workers

VARIABLES
  start,      \* where start() is
  made,       \* the Thread that its loop has reached
  locked,     \* start() holds m_mutex
  birth,      \* worker -> how far its thread has come in Thread::run()
  id,         \* worker -> m_id, the worker itself once it is stored
  sem,        \* worker -> the count of m_semaphore
  threadIds   \* m_threadIds

startVars == <<start, made, locked, birth, id, sem, threadIds>>
allVars == <<vars, startVars>>

StartInit ==
  /\ Init
  /\ start = "before"
  /\ made = None
  /\ locked = FALSE
  /\ birth = [w \in Workers |-> "none"]
  /\ id = [w \in Workers |-> NoId]
  /\ sem = [w \in Workers |-> 0]
  /\ threadIds = <<>>

(***************************************************************************)
(* start(), in the thread that owns the scheduler.                         *)
(***************************************************************************)
\* (mutant) m_mutex is not locked
BeginUnlocked ==
  /\ ctl = "user" /\ start = "before" /\ owe[Caller] = 0 /\ ~stopping
  /\ start' = "next"
  /\ UNCHANGED <<made, locked, birth, id, sem, threadIds, vars>>

\* A start() that comes after stop() returns at once, and changes nothing.
Begin ==
  /\ ctl = "user" /\ start = "before" /\ owe[Caller] = 0
  /\ ~stopping
  /\ locked' = TRUE
  /\ start' = "next"
  /\ UNCHANGED <<made, birth, id, sem, threadIds, vars>>

\* Thread::Thread() calls pthread_create(); the thread may run before it returns.
Create ==
  /\ start = "next"
  /\ \E w \in Workers :
       /\ birth[w] = "none"
       /\ birth' = [birth EXCEPT ![w] = "created"]
       /\ made' = w
  /\ start' = "wait"
  /\ UNCHANGED <<locked, id, sem, threadIds, vars>>

\* The exception leaves start(), whose lock is no scoped one.
CreateFails ==
  /\ start = "next"
  /\ \E w \in Workers : birth[w] = "none"
  /\ start' = "threw"
  /\ UNCHANGED <<made, locked, birth, id, sem, threadIds, vars>>

\* (mutant) start() waits, and leaves the semaphore as it is
AwaitKeeps ==
  /\ start = "wait"
  /\ sem[made] > 0
  /\ threadIds' = Append(threadIds, id[made])
  /\ start' = "next"
  /\ UNCHANGED <<made, locked, birth, id, sem, vars>>

\* m_semaphore.wait(), then start() notes the new thread's id.
Await ==
  /\ start = "wait"
  /\ sem[made] > 0
  /\ sem' = [sem EXCEPT ![made] = @ - 1]
  /\ threadIds' = Append(threadIds, id[made])
  /\ start' = "next"
  /\ UNCHANGED <<made, locked, birth, id, vars>>

Unlock ==
  /\ start = "next"
  /\ \A w \in Workers : birth[w] # "none"
  /\ locked' = FALSE
  /\ start' = "done"
  /\ UNCHANGED <<made, birth, id, sem, threadIds, vars>>

(***************************************************************************)
(* Thread::run(), in the thread of worker w.                               *)
(***************************************************************************)
\* (mutant) the constructor is told before the id is stored
StoreIdLate(w) ==
  /\ birth[w] = "created"
  /\ sem' = [sem EXCEPT ![w] = @ + 1]
  /\ birth' = [birth EXCEPT ![w] = "notified"]
  /\ UNCHANGED <<start, made, locked, id, threadIds, vars>>

StoreId(w) ==
  /\ birth[w] = "created"
  /\ id' = [id EXCEPT ![w] = w]
  /\ birth' = [birth EXCEPT ![w] = "stored"]
  /\ UNCHANGED <<start, made, locked, sem, threadIds, vars>>

\* (mutant) m_semaphore.notify() is forgotten
NotifyNobody(w) ==
  /\ birth[w] = "stored"
  /\ birth' = [birth EXCEPT ![w] = "notified"]
  /\ UNCHANGED <<start, made, locked, id, sem, threadIds, vars>>

Notify(w) ==
  /\ birth[w] = "stored"
  /\ sem' = [sem EXCEPT ![w] = @ + 1]
  /\ birth' = [birth EXCEPT ![w] = "notified"]
  /\ UNCHANGED <<start, made, locked, id, threadIds, vars>>

\* scheduler::run() up to its first scan, which waits for m_mutex.
EnterRun(w) ==
  /\ birth[w] = "notified" /\ pc[w] = "off"
  /\ GoTo(w, "loop")
  /\ UNCHANGED <<tasks, stopping, active, idleCount, fiber, cur, idleFiber,
                 owe, ctl, fault, startVars>>

(***************************************************************************)
(* The specification.                                                      *)
(***************************************************************************)
\* While start() holds m_mutex a worker can come as far as its first scan, and
\* nobody else can call the scheduler: its owner is in start().
Free == start \in {"before", "done"} /\ ~locked

\* (mutant) stop() does not wait for the threads
JoinNone == JoinNobody

\* Thread::join() waits for every thread that was created.
JoinThreads ==
  /\ \A w \in Workers : birth[w] = "none" \/ pc[w] = "exit"
  /\ Join

StartStep == Begin \/ Create \/ CreateFails \/ Await \/ Unlock
BirthStep(w) == StoreId(w) \/ Notify(w) \/ EnterRun(w)
ThreadStep(t) == ~locked /\ (RunStep(t) \/ JobStep(t)) /\ UNCHANGED startVars
StopThreads == (StopRoot \/ RootDone \/ JoinThreads) /\ UNCHANGED startVars

StartNext ==
  /\ fault = "none"
  /\ \/ StartStep
     \/ \E w \in Workers : BirthStep(w)
     \/ \E t \in Threads : ThreadStep(t)
     \/ Free /\ UNCHANGED startVars /\
          (StopCall(Quiet) \/ \E j \in Jobs, p \in Pins : Submit(j, p))
     \/ StopThreads

StartSpec == StartInit /\ [][StartNext]_allVars

\* As in Scheduler, with the threads that are being born.
StartFairness ==
  /\ WF_allVars(fault = "none" /\ (Create \/ Await \/ Unlock))
  /\ \A w \in Workers : WF_allVars(fault = "none" /\ BirthStep(w))
  /\ \A t \in Threads : WF_allVars(fault = "none" /\ ThreadStep(t))
  /\ \A j \in Jobs : SF_allVars(fault = "none" /\ \E t \in Threads :
       cur[t] = j /\ ~Queued(j) /\ Finish(t) /\ ~locked /\ UNCHANGED startVars)
  /\ WF_allVars(fault = "none" /\ StopThreads)

StartFairSpec == StartSpec /\ StartFairness

(***************************************************************************)
(* Properties.                                                             *)
(***************************************************************************)
Noted(w) == \E i \in DOMAIN threadIds : threadIds[i] = w

\* The variables of the handshake have their types.
StartTypeOK ==
  /\ start \in {"before", "next", "wait", "done", "threw"}
  /\ made \in Workers \cup {None}
  /\ locked \in BOOLEAN
  /\ birth \in [Workers -> {"none", "created", "stored", "notified"}]
  /\ id \in [Workers -> Workers \cup {NoId}]
  /\ sem \in [Workers -> Nat]
  /\ threadIds \in Seq(Workers \cup {NoId})

\* The semaphore of a Thread is posted once and consumed once, by the
\* constructor that created the thread: a thread that exists is either noted in
\* m_threadIds or the one that start() waits for.
Handshake ==
  \A w \in Workers :
    /\ sem[w] = IF birth[w] = "notified" /\ ~Noted(w) THEN 1 ELSE 0
    /\ Noted(w) => birth[w] = "notified"
    /\ birth[w] # "none" /\ ~Noted(w) <=> start = "wait" /\ made = w

\* m_threadIds lists the ids of the workers, each of them once: start() never
\* reads an m_id that its thread has not stored yet, and when it returns none
\* is missing (threadPoll_fiber_scheduler.cpp:61).
IdsAreKnown ==
  /\ \A i, k \in DOMAIN threadIds : threadIds[i] = threadIds[k] => i = k
  /\ \A i \in DOMAIN threadIds : threadIds[i] \in Workers
  /\ start = "done" => \A w \in Workers : Noted(w)

\* A start() that has begun returns or throws, whatever its threads do first.
StartEnds == start = "next" ~> start \in {"done", "threw"}

\* As Scheduler sees it, nobody runs until start() returns; then every thread
\* stands before its first scan.
startedPc ==
  [t \in Threads |-> IF t \notin Workers THEN pc[t]
                     ELSE IF start # "done" THEN "off"
                     ELSE IF pc[t] = "off" THEN "loop" ELSE pc[t]]

Begun == INSTANCE Scheduler WITH pc <- startedPc

\* start() is atomic: no thread executes, counts itself or goes idle before the
\* last one is created -- and never, if one cannot be created.
StartsAtOnce == Begun!Spec

=============================================================================
