--------------------------- MODULE TaskPoolProofs ---------------------------
(* Scheduler implements TaskPool, for every value of its constants.         *)
EXTENDS SchedulerProofs

(***************************************************************************)
(* The invariant of the refinement mapping.                                *)
(***************************************************************************)
Unique == \A i, k \in DOMAIN tasks : tasks[i].job = tasks[k].job => i = k

\* No two threads are about to resume, or execute, the same job.
OneTaker ==
  \A t, u \in Threads :
    pc[t] = "exec" /\ pc[u] = "exec" /\ cur[t] = cur[u] => t = u

Runs(t) == pc[t] \in {"body", "swap"}
OneRunner ==
  \A t, u \in Threads : Runs(t) /\ Runs(u) /\ cur[t] = cur[u] => t = u

\* What a thread that holds a job knows of the job's fiber.
TakerFits(t) == pc[t] = "exec" => fiber[cur[t]] = "READY" /\ ~Queued(cur[t])
RunnerFits(t) ==
  /\ pc[t] = "body" => fiber[cur[t]] = "RUNNING"
  /\ pc[t] = "swap" => fiber[cur[t]] = "READY" /\ cur[t] \in Waiting

QueuedFits == \A j \in Jobs : Queued(j) => fiber[j] \in {"READY", "RUNNING"}

CallerOut == ~UseCaller => pc[Caller] = "off"

MapInv ==
  /\ Unique /\ OneTaker /\ OneRunner /\ QueuedFits /\ CallerOut
  /\ \A t \in Threads : TakerFits(t) /\ RunnerFits(t)

LEMMA InitMapInv == Init => MapInv
BY ConstantsAssumption
   DEF Init, MapInv, Unique, OneTaker, OneRunner, Runs, QueuedFits, Queued,
       CallerOut, TakerFits, RunnerFits, Threads

(***************************************************************************)
(* What erase() and push_back() do to the set of queued jobs.              *)
(***************************************************************************)
PinnedTo(k) == \E i \in DOMAIN tasks :
                 tasks[i].job = k /\ tasks[i].thread # AnyThread

\* m_tasks.erase(it): the job that is taken is queued no more, nothing else
\* changes.
LEMMA AfterTakeOut ==
  ASSUME TypeOK, Unique, NEW i \in DOMAIN tasks, TakeOut(i)
  PROVE  /\ Unique'
         /\ \A k \in Jobs : Queued(k)' <=> Queued(k) /\ k # tasks[i].job
         /\ \A k \in Jobs : PinnedTo(k)' <=> PinnedTo(k) /\ k # tasks[i].job
<1> DEFINE Old(n) == IF n < i THEN n ELSE n + 1
<1>1. tasks \in Seq(Task)
  BY DEF TypeOK
<1>2. /\ tasks' \in Seq(Task)
      /\ Len(tasks') = Len(tasks) - 1
      /\ \A n \in 1 .. Len(tasks) - 1 :
           tasks'[n] = IF n < i THEN tasks[n] ELSE tasks[n + 1]
  BY <1>1, RemoveAtFacts DEF TakeOut
<1>3. /\ DOMAIN tasks = 1 .. Len(tasks) /\ Len(tasks) \in Nat
      /\ DOMAIN tasks' = 1 .. Len(tasks) - 1
  BY <1>1, <1>2, LenProperties
<1>4. \A n \in DOMAIN tasks' :
        Old(n) \in DOMAIN tasks \ {i} /\ tasks'[n] = tasks[Old(n)]
  BY <1>2, <1>3
<1>5. \A n, m \in DOMAIN tasks' : Old(n) = Old(m) => n = m
  BY <1>3
<1>6. \A m \in DOMAIN tasks \ {i} : \E n \in DOMAIN tasks' : Old(n) = m
  <2> SUFFICES ASSUME NEW m \in DOMAIN tasks \ {i}
               PROVE  \E n \in DOMAIN tasks' : Old(n) = m
    OBVIOUS
  <2>1. CASE m < i
    <3>1. m \in DOMAIN tasks' /\ Old(m) = m
      BY <1>3, <2>1
    <3>2. QED
      BY <3>1
  <2>2. CASE m > i
    <3>1. m - 1 \in DOMAIN tasks' /\ Old(m - 1) = m
      BY <1>3, <2>2
    <3>2. QED
      BY <3>1
  <2>3. QED
    BY <1>3, <2>1, <2>2
<1> HIDE DEF Old
<1>7. Unique'
  BY <1>4, <1>5 DEF Unique
<1>8. ASSUME NEW k \in Jobs
      PROVE  Queued(k)' <=> Queued(k) /\ k # tasks[i].job
  BY <1>4, <1>6 DEF Queued, Unique
<1>9. ASSUME NEW k \in Jobs
      PROVE  PinnedTo(k)' <=> PinnedTo(k) /\ k # tasks[i].job
  BY <1>4, <1>6 DEF PinnedTo, Unique
<1>10. QED
  BY <1>7, <1>8, <1>9

\* push_back(): one more job is queued, if it was not.
LEMMA AfterPush ==
  ASSUME TypeOK, Unique, NEW t, NEW j \in Jobs, ~Queued(j),
         NEW p \in Threads \cup {AnyThread}, Push(t, j, p)
  PROVE  /\ Unique'
         /\ \A k \in Jobs : Queued(k)' <=> Queued(k) \/ k = j
         /\ \A k \in Jobs :
              PinnedTo(k)' <=> PinnedTo(k) \/ (k = j /\ p # AnyThread)
<1> DEFINE e == [job |-> j, thread |-> p]
<1>1. tasks \in Seq(Task) /\ e \in Task
  BY DEF TypeOK, Task
<1>2. e.job = j /\ e.thread = p
  OBVIOUS
<1>3. tasks' = Append(tasks, e)
  BY DEF Push
<1> HIDE DEF e
<1>4. /\ Len(tasks) \in Nat
      /\ DOMAIN tasks' = 1 .. Len(tasks) + 1
      /\ DOMAIN tasks = 1 .. Len(tasks)
      /\ tasks'[Len(tasks) + 1] = e
      /\ \A i \in 1 .. Len(tasks) : tasks'[i] = tasks[i]
  BY <1>1, <1>3, AppendProperties
<1>5. \A i \in DOMAIN tasks' :
        \/ i \in DOMAIN tasks /\ tasks'[i] = tasks[i]
        \/ i = Len(tasks) + 1 /\ tasks'[i] = e
  BY <1>4
<1>6. \A i \in DOMAIN tasks : i \in DOMAIN tasks' /\ tasks'[i] = tasks[i]
  BY <1>4
<1>7. Len(tasks) + 1 \in DOMAIN tasks'
  BY <1>4
<1>8. Unique'
  BY <1>2, <1>5 DEF Unique, Queued
<1>9. ASSUME NEW k \in Jobs PROVE Queued(k)' <=> Queued(k) \/ k = j
  BY <1>2, <1>4, <1>5, <1>6, <1>7 DEF Queued
<1>10. ASSUME NEW k \in Jobs
       PROVE  PinnedTo(k)' <=> PinnedTo(k) \/ (k = j /\ p # AnyThread)
  BY <1>2, <1>4, <1>5, <1>6, <1>7 DEF PinnedTo
<1>11. QED
  BY <1>8, <1>9, <1>10

(***************************************************************************)
(* The invariant is inductive.                                             *)
(***************************************************************************)
Fits == /\ OneTaker /\ OneRunner /\ QueuedFits /\ CallerOut
        /\ \A t \in Threads : TakerFits(t) /\ RunnerFits(t)

\* A step that leaves the queue, the fibers, and the threads that hold a job
\* where they are.
LEMMA FitsElsewhere ==
  ASSUME TypeOK, Fits, UNCHANGED <<tasks, fiber>>, CallerOut',
         \A v \in Threads : pc'[v] \in {"exec", "body", "swap"} \/
                            pc[v] \in {"exec", "body", "swap"} =>
           pc'[v] = pc[v] /\ cur'[v] = cur[v]
  PROVE  Fits'
<1>1. \A j : Queued(j)' <=> Queued(j)
  BY DEF Queued
<1>2. \A j \in Jobs : j \in Waiting' <=> j \in Waiting
  BY <1>1 DEF Waiting, Taken
<1>3. \A t \in Threads : pc[t] = "swap" => cur[t] \in Jobs
  BY DEF TypeOK, Busy
<1>4. QED
  BY <1>1, <1>2, <1>3
     DEF Fits, OneTaker, OneRunner, Runs, QueuedFits, TakerFits, RunnerFits

\* The scan: the job that is taken is queued no more and nobody else holds it.
LEMMA FitsTake ==
  ASSUME TypeOK, Unique, Fits, NEW t \in Threads, Take(t)
  PROVE  Unique' /\ Fits'
<1>1. pc[t] = "loop" /\ UNCHANGED fiber
  BY DEF Take, At
<1>2. PICK i \in DOMAIN tasks :
        IF fiber[tasks[i].job] = "READY"
        THEN TakeOut(i) /\ cur' = [cur EXCEPT ![t] = tasks[i].job]
             /\ GoTo(t, "exec")
        ELSE UNCHANGED <<tasks, cur, pc>>
  BY DEF Take
<1>3. tasks[i].job \in Jobs
  <2>1. tasks[i] \in Task
    BY ElementOfSeq DEF TypeOK
  <2>2. QED
    BY <2>1 DEF Task
<1>4. CASE UNCHANGED <<tasks, cur, pc>>
  BY <1>1, <1>4, FitsElsewhere DEF Unique, Fits, CallerOut
<1>5. CASE fiber[tasks[i].job] = "READY"
  <2> DEFINE j == tasks[i].job
  <2>1. /\ cur' = [cur EXCEPT ![t] = j] /\ pc' = [pc EXCEPT ![t] = "exec"]
        /\ TakeOut(i)
    BY <1>2, <1>5 DEF GoTo
  <2>2. /\ Unique'
        /\ \A k \in Jobs : Queued(k)' <=> Queued(k) /\ k # j
    BY <2>1, AfterTakeOut
  <2>3. Queued(j)
    BY DEF Queued
  <2>4. \A v \in Threads \ {t} : pc'[v] = pc[v] /\ cur'[v] = cur[v]
    BY <2>1 DEF TypeOK
  <2>5. pc'[t] = "exec" /\ cur'[t] = j
    BY <2>1 DEF TypeOK
  <2>6. \A v \in Threads : pc[v] \in {"exec", "body", "swap"} => cur[v] \in Jobs
    BY DEF TypeOK, Busy
  <2> HIDE DEF j
  <2>7. OneTaker' /\ OneRunner'
    BY <1>1, <2>3, <2>4, <2>5 DEF Fits, OneTaker, OneRunner, Runs, TakerFits
  <2>8. QueuedFits' /\ CallerOut'
    BY <1>1, <2>2, <2>4, <2>5 DEF Fits, QueuedFits, CallerOut, Threads
  <2>9. \A v \in Threads : TakerFits(v)'
    BY <1>1, <1>3, <1>5, <2>2, <2>4, <2>5, <2>6 DEF Fits, TakerFits, j
  <2>10. \A k \in Jobs : k \in Waiting => k \in Waiting'
    BY <1>1, <2>2, <2>4, <2>5 DEF Waiting, Taken
  <2>11. \A v \in Threads : RunnerFits(v)'
    BY <1>1, <2>4, <2>5, <2>6, <2>10 DEF Fits, RunnerFits
  <2>12. QED
    BY <2>2, <2>7, <2>8, <2>9, <2>11 DEF Fits
<1>6. QED
  BY <1>2, <1>4, <1>5

\* schedule(j), of a job that is neither queued nor taken.
LEMMA FitsPush ==
  ASSUME TypeOK, Unique, Fits, NEW t \in Threads, NEW j \in Jobs,
         NEW p \in Threads \cup {AnyThread}, Push(t, j, p),
         UNCHANGED <<pc, cur>>,
         \/ fiber[j] = "NEW" /\ fiber' = [fiber EXCEPT ![j] = "READY"]
         \/ fiber[j] = "RUNNING" /\ ~Queued(j) /\ UNCHANGED fiber
  PROVE  Unique' /\ Fits'
<1>1. ~Queued(j)
  BY DEF Fits, QueuedFits
<1>2. /\ Unique'
      /\ \A k \in Jobs : Queued(k)' <=> Queued(k) \/ k = j
  BY <1>1, AfterPush
<1>3. \A k \in Jobs : fiber'[k] = IF fiber[j] = "NEW" /\ k = j THEN "READY"
                                  ELSE fiber[k]
  BY DEF TypeOK
<1>4. \A v \in Threads : pc[v] \in {"exec", "body", "swap"} => cur[v] \in Jobs
  BY DEF TypeOK, Busy
<1>5. OneTaker' /\ OneRunner' /\ CallerOut'
  BY DEF Fits, OneTaker, OneRunner, Runs, CallerOut
<1>6. QueuedFits'
  BY <1>2, <1>3 DEF Fits, QueuedFits
<1>7. \A v \in Threads : TakerFits(v)'
  BY <1>2, <1>3, <1>4 DEF Fits, TakerFits
<1>8. \A k \in Jobs : k \in Waiting => k \in Waiting'
  BY <1>2 DEF Waiting, Taken
<1>9. \A v \in Threads : RunnerFits(v)'
  BY <1>3, <1>4, <1>8 DEF Fits, RunnerFits
<1>10. QED
  BY <1>2, <1>5, <1>6, <1>7, <1>9 DEF Fits

\* A thread goes on with the job that it holds, and the job's fiber with it.
LEMMA FitsTurn ==
  ASSUME TypeOK, Fits, NEW t \in Threads, UNCHANGED <<tasks, cur>>,
         NEW l, pc' = [pc EXCEPT ![t] = l], l # "exec",
         NEW s, fiber' = [fiber EXCEPT ![cur[t]] = s],
         pc[t] \in {"exec", "body"},
         \/ /\ pc[t] = "exec" /\ l = "body" /\ s = "RUNNING"
            /\ \A v \in Threads : ~(pc[v] = "swap" /\ cur[v] = cur[t])
         \/ pc[t] = "body" /\ l = "swap" /\ s = "READY" /\ Queued(cur[t])
         \/ pc[t] = "body" /\ l = "ret" /\ s = "TERM" /\ ~Queued(cur[t])
  PROVE  Fits'
<1> DEFINE j == cur[t]
<1>1. j \in Jobs
  BY DEF TypeOK, Busy
<1>2. pc'[t] = l /\ \A v \in Threads \ {t} : pc'[v] = pc[v]
  BY DEF TypeOK
<1>3. fiber'[j] = s /\ \A k \in Jobs \ {j} : fiber'[k] = fiber[k]
  BY <1>1 DEF TypeOK
<1>4. \A k : Queued(k)' <=> Queued(k)
  BY DEF Queued
<1>5. \A v \in Threads : pc[v] \in {"exec", "body", "swap"} => cur[v] \in Jobs
  BY DEF TypeOK, Busy
<1>6. \A v \in Threads \ {t} :
        ~(pc[v] \in {"exec", "body", "swap"} /\ cur[v] = j)
  <2> SUFFICES ASSUME NEW v \in Threads \ {t},
                      pc[v] \in {"exec", "body", "swap"}, cur[v] = j
               PROVE  FALSE
    OBVIOUS
  <2>1. CASE pc[t] = "exec"
    BY <2>1 DEF Fits, OneTaker, TakerFits, RunnerFits
  <2>2. CASE pc[t] = "body"
    BY <2>2 DEF Fits, OneRunner, Runs, TakerFits, RunnerFits
  <2>3. QED
    BY <2>1, <2>2
<1> HIDE DEF j
<1>7. OneTaker' /\ OneRunner'
  BY <1>2, <1>6 DEF Fits, OneTaker, OneRunner, Runs, j
<1>8. QueuedFits'
  BY <1>1, <1>3, <1>4 DEF Fits, QueuedFits, TakerFits, j
<1>9. CallerOut'
  BY <1>2 DEF Fits, CallerOut, Threads
<1>10. \A v \in Threads : TakerFits(v)'
  BY <1>2, <1>3, <1>4, <1>5, <1>6 DEF Fits, TakerFits, j
<1>11. \A k \in Jobs \ {j} : k \in Waiting => k \in Waiting'
  BY <1>2, <1>4 DEF Waiting, Taken, j
<1>12. Queued(j) => j \in Waiting'
  BY <1>1, <1>4 DEF Waiting
<1>13. \A v \in Threads : RunnerFits(v)'
  BY <1>2, <1>3, <1>5, <1>6, <1>11, <1>12 DEF Fits, RunnerFits, j
<1>14. QED
  BY <1>7, <1>8, <1>9, <1>10, <1>13 DEF Fits

LEMMA MapInvStep ==
  TypeOK /\ MapInv /\ [Next]_vars => MapInv'
<1> USE ConstantsAssumption
<1> SUFFICES ASSUME TypeOK, Unique, Fits, [Next]_vars PROVE Unique' /\ Fits'
  BY DEF MapInv, Fits
<1>1. ASSUME UNCHANGED tasks PROVE Unique'
  BY <1>1 DEF Unique
<1>2. CASE UNCHANGED vars
  BY <1>1, <1>2, FitsElsewhere DEF vars, Fits, CallerOut
<1>3. ASSUME NEW t \in Threads, Take(t) PROVE Unique' /\ Fits'
  BY <1>3, FitsTake
<1>4. ASSUME NEW t \in Threads, NEW j \in Jobs, NEW p \in Pins,
             Spawn(t, j, p) \/ (t = Caller /\ Submit(j, p))
      PROVE  Unique' /\ Fits'
  BY <1>4, FitsPush DEF Spawn, Submit
<1>5. ASSUME NEW t \in Threads, Reschedule(t) PROVE Unique' /\ Fits'
  <2>1. pc[t] = "body" /\ cur[t] \in Jobs /\ fiber[cur[t]] = "RUNNING"
    BY <1>5 DEF Reschedule, At, Fits, RunnerFits, TypeOK, Busy
  <2>2. QED
    BY <1>5, <2>1, FitsPush DEF Reschedule
<1>6. ASSUME NEW t \in Threads, Resume(t) PROVE Unique' /\ Fits'
  <2>1. CASE UNCHANGED <<fiber, pc>>
    BY <1>1, <1>6, <2>1, FitsElsewhere DEF Resume, Fits, CallerOut
  <2>2. ASSUME fiber[cur[t]] = "READY", GoTo(t, "body"),
               \A v \in Threads : ~(pc[v] = "swap" /\ cur[v] = cur[t]),
               fiber' = [fiber EXCEPT ![cur[t]] = "RUNNING"]
        PROVE  Unique' /\ Fits'
    <3>1. UNCHANGED <<tasks, cur>> /\ pc[t] = "exec"
      BY <1>6 DEF Resume, At
    <3>2. pc' = [pc EXCEPT ![t] = "body"]
      BY <2>2 DEF GoTo
    <3>3. Fits'
      BY <2>2, <3>1, <3>2, FitsTurn
    <3>4. QED
      BY <1>1, <3>1, <3>3
  <2>3. QED
    BY <1>6, <2>1, <2>2 DEF Resume
<1>7. ASSUME NEW t \in Threads, YieldReady(t), Queued(cur[t])
      PROVE  Unique' /\ Fits'
  BY <1>1, <1>7, FitsTurn DEF YieldReady, At, GoTo
<1>8. ASSUME NEW t \in Threads, Finish(t), ~Queued(cur[t])
      PROVE  Unique' /\ Fits'
  BY <1>1, <1>8, FitsTurn DEF Finish, At, GoTo
<1>9. ASSUME NEW t \in Threads, YieldSwap(t) PROVE Unique' /\ Fits'
  <2>1. UNCHANGED <<tasks, fiber, cur>> /\ pc' = [pc EXCEPT ![t] = "ret"]
        /\ pc[t] = "swap"
    BY <1>9 DEF YieldSwap, At, GoTo
  <2>2. \A j \in Jobs : j \in Waiting' <=> j \in Waiting
    BY <2>1 DEF Waiting, Taken, Queued, TypeOK
  <2>3. \A v \in Threads : pc[v] = "swap" => cur[v] \in Jobs
    BY DEF TypeOK, Busy
  <2>4. pc'[t] = "ret" /\ \A v \in Threads \ {t} : pc'[v] = pc[v]
    BY <2>1 DEF TypeOK
  <2>5. Fits'
    BY <2>1, <2>2, <2>3, <2>4
       DEF Fits, OneTaker, OneRunner, Runs, QueuedFits, Queued, CallerOut,
           TakerFits, RunnerFits, Threads
  <2>6. QED
    BY <1>1, <2>1, <2>5
<1>10. ASSUME NEW t \in Threads,
              Return(t) \/ TakeNone(t) \/ IdleEnter(t) \/ Idle(t)
                \/ IdleLeave(t) \/ Tickle(t)
       PROVE  Unique' /\ Fits'
  <2>1. UNCHANGED <<tasks, fiber>>
    BY <1>10 DEF Return, TakeNone, IdleEnter, Idle, IdleLeave, Tickle
  <2>2. \A v \in Threads : pc'[v] \in {"exec", "body", "swap"} \/
                           pc[v] \in {"exec", "body", "swap"} =>
          pc'[v] = pc[v] /\ cur'[v] = cur[v]
    BY <1>10 DEF Return, TakeNone, IdleEnter, Idle, IdleLeave, Tickle, At, GoTo,
                 TypeOK
  <2>3. CallerOut'
    BY <1>10 DEF Return, TakeNone, IdleEnter, Idle, IdleLeave, Tickle, At, GoTo,
                 Fits, CallerOut, TypeOK, Threads
  <2>4. QED
    BY <1>1, <2>1, <2>2, <2>3, FitsElsewhere
<1>11. CASE Start
  <2>1. UNCHANGED <<tasks, fiber, cur>>
        /\ \A v \in Threads : pc'[v] = pc[v] \/ (pc[v] = "off" /\ pc'[v] = "loop")
    BY <1>11 DEF Start
  <2>2. CallerOut'
    BY <1>11 DEF Start, Fits, CallerOut, Threads
  <2>3. QED
    BY <1>1, <2>1, <2>2, FitsElsewhere
<1>12. CASE StopCall(Quiet) \/ StopStep
  <2>1. UNCHANGED <<tasks, fiber, cur>>
        /\ \A v \in Threads : pc'[v] = pc[v] \/ (pc[v] = "off" /\ pc'[v] = "loop")
    BY <1>12 DEF StopCall, StopStep, StopRoot, RootDone, Join, GoTo, TypeOK
  <2>2. CallerOut'
    BY <1>12 DEF StopCall, StopStep, StopRoot, RootDone, Join, Fits, CallerOut
  <2>3. QED
    BY <1>1, <2>1, <2>2, FitsElsewhere
<1>13. QED
  BY <1>2, <1>3, <1>4, <1>5, <1>6, <1>7, <1>8, <1>9, <1>10, <1>11, <1>12
     DEF Next, RunStep, JobStep, Threads

LEMMA MapInvariance == Spec => []MapInv
BY InitMapInv, MapInvStep, Typing, PTL DEF Spec

(***************************************************************************)
(* Every step of Scheduler is a step of TaskPool, or none.                 *)
(***************************************************************************)
\* A step that moves no job.
LEMMA PoolStutters ==
  ASSUME TypeOK, UNCHANGED tasks, Ended' = Ended, Stopped' = Stopped,
         \A v \in Threads : pc'[v] \in {"exec", "body", "swap"} \/
                            pc[v] \in {"exec", "body", "swap"} =>
           /\ cur'[v] = cur[v]
           /\ pc'[v] = pc[v] \/ (pc[v] = "body" /\ pc'[v] = "swap")
  PROVE  UNCHANGED Pool!vars
<1>1. Waiting' = Waiting
  BY DEF Waiting, Taken, Queued
<1>2. Running' = Running
  BY DEF Running
<1>3. Bound' = Bound
  BY DEF Bound
<1>4. QED
  BY <1>1, <1>2, <1>3 DEF Pool!vars

\* schedule()
LEMMA PushIsSchedule ==
  ASSUME TypeOK, MapInv, NEW t \in Threads, NEW j \in Jobs,
         NEW p \in Threads \cup {AnyThread}, Push(t, j, p),
         UNCHANGED <<pc, cur>>, Ended' = Ended, ~Stopped, ~Stopped',
         ~Queued(j), fiber[j] \in {"NEW", "RUNNING"}
  PROVE  Pool!Schedule(j)
<1>1. \A k \in Jobs :
        /\ Queued(k)' <=> Queued(k) \/ k = j
        /\ PinnedTo(k)' <=> PinnedTo(k) \/ (k = j /\ p # AnyThread)
  BY AfterPush DEF MapInv
<1>2. ~Taken(j)
  BY DEF Taken, MapInv, TakerFits
<1>3. j \notin Waiting \cup Ended
  BY <1>2 DEF Waiting, Ended
<1>4. Waiting' = Waiting \cup {j}
  BY <1>1 DEF Waiting, Taken
<1>5. Bound' \in {Bound, Bound \cup {j}}
  <2>1. \A k \in Jobs : PinnedTo(k) <=> k \in Bound
    BY DEF PinnedTo, Bound
  <2>2. \A k \in Jobs : PinnedTo(k)' <=> k \in Bound'
    BY DEF PinnedTo, Bound
  <2>3. Bound \subseteq Jobs /\ Bound' \subseteq Jobs
    BY DEF Bound
  <2>4. QED
    BY <1>1, <2>1, <2>2, <2>3
<1>6. Running' = Running /\ Stopped' = Stopped
  BY DEF Running, Stopped
<1>7. QED
  BY <1>3, <1>4, <1>5, <1>6 DEF Pool!Schedule

\* The scan, if it does not abort: only a job that was pinned moves, as the
\* thread it waits for has come.
LEMMA TakeIsClaim ==
  ASSUME TypeOK, MapInv, OwnerInv, NEW t \in Threads, Take(t)
  PROVE  (\E j \in Jobs : Pool!Claim(j)) \/ UNCHANGED Pool!vars
<1>1. pc[t] = "loop" /\ UNCHANGED <<fiber, ctl>>
  BY DEF Take, At
<1>2. Ended' = Ended /\ Stopped' = Stopped
  BY <1>1 DEF Ended, Stopped
<1>3. PICK i \in DOMAIN tasks :
        IF fiber[tasks[i].job] = "READY"
        THEN TakeOut(i) /\ cur' = [cur EXCEPT ![t] = tasks[i].job]
             /\ GoTo(t, "exec")
        ELSE UNCHANGED <<tasks, cur, pc>>
  BY DEF Take
<1>4. CASE UNCHANGED <<tasks, cur, pc>>
  BY <1>2, <1>4, PoolStutters
<1>5. CASE fiber[tasks[i].job] = "READY"
  <2> DEFINE j == tasks[i].job
  <2>1. j \in Jobs
    <3>1. tasks[i] \in Task
      BY ElementOfSeq DEF TypeOK
    <3>2. QED
      BY <3>1 DEF Task
  <2>2. \A k \in Jobs :
          /\ Queued(k)' <=> Queued(k) /\ k # j
          /\ PinnedTo(k)' <=> PinnedTo(k) /\ k # j
    BY <1>3, <1>5, AfterTakeOut DEF MapInv
  <2>3. Queued(j)
    BY DEF Queued
  <2>4. /\ pc'[t] = "exec" /\ cur'[t] = j
        /\ \A v \in Threads \ {t} : pc'[v] = pc[v] /\ cur'[v] = cur[v]
    BY <1>3, <1>5 DEF GoTo, TypeOK
  <2> HIDE DEF j
  <2>5. Waiting' = Waiting
    BY <1>1, <2>2, <2>3, <2>4 DEF Waiting, Taken
  <2>6. Running' = Running
    BY <1>1, <2>4 DEF Running
  <2>7. Bound' = Bound \ {j}
    <3>1. \A k \in Jobs : PinnedTo(k) <=> k \in Bound
      BY DEF PinnedTo, Bound
    <3>2. \A k \in Jobs : PinnedTo(k)' <=> k \in Bound'
      BY DEF PinnedTo, Bound
    <3>3. Bound \subseteq Jobs /\ Bound' \subseteq Jobs
      BY DEF Bound
    <3>4. QED
      BY <2>2, <3>1, <3>2, <3>3
  <2>8. ~Stopped
    BY <1>1, ConstantsAssumption
       DEF Stopped, OwnerInv, MapInv, CallerOut, Threads
  <2>9. CASE j \in Bound
    BY <1>2, <2>1, <2>5, <2>6, <2>7, <2>8, <2>9 DEF Pool!Claim
  <2>10. CASE j \notin Bound
    BY <1>2, <2>5, <2>6, <2>7, <2>10 DEF Pool!vars
  <2>11. QED
    BY <2>9, <2>10
<1>6. QED
  BY <1>3, <1>4, <1>5

\* resume(), if it does not abort.
LEMMA ResumeIsBegin ==
  ASSUME TypeOK, MapInv, OwnerInv, NEW t \in Threads, Resume(t)
  PROVE  Pool!Begin(cur[t]) \/ UNCHANGED Pool!vars
<1>1. pc[t] = "exec" /\ UNCHANGED <<tasks, cur, ctl>> /\ cur[t] \in Jobs
  BY DEF Resume, At, TypeOK, Busy
<1>2. Stopped' = Stopped
  BY <1>1 DEF Stopped
<1>3. CASE UNCHANGED <<fiber, pc>>
  BY <1>1, <1>2, <1>3, PoolStutters DEF Ended
<1>4. ASSUME fiber[cur[t]] = "READY", GoTo(t, "body"),
             \A v \in Threads : ~(pc[v] = "swap" /\ cur[v] = cur[t]),
             fiber' = [fiber EXCEPT ![cur[t]] = "RUNNING"]
      PROVE  Pool!Begin(cur[t])
  <2> DEFINE j == cur[t]
  <2>1. pc'[t] = "body" /\ \A v \in Threads \ {t} : pc'[v] = pc[v]
    BY <1>4 DEF GoTo, TypeOK
  <2>2. Ended' = Ended
    BY <1>1, <1>4 DEF Ended, TypeOK
  <2>3. ~Queued(j) /\ \A k \in Jobs : Queued(k)' <=> Queued(k)
    BY <1>1 DEF MapInv, TakerFits, Queued
  <2>4. \A v \in Threads \ {t} : ~(pc[v] = "exec" /\ cur[v] = j)
    BY <1>1 DEF MapInv, OneTaker
  <2>5. j \in Waiting /\ Waiting' = Waiting \ {j}
    BY <1>1, <2>1, <2>3, <2>4 DEF Waiting, Taken
  <2>6. j \notin Running
    BY <1>4 DEF Running, MapInv, RunnerFits
  <2>7. Running' = Running \cup {j}
    BY <1>1, <2>1 DEF Running
  <2>8. j \notin Bound /\ Bound' = Bound
    BY <1>1, <2>3 DEF Bound, Queued
  <2>9. ~Stopped
    BY <1>1, ConstantsAssumption
       DEF Stopped, OwnerInv, MapInv, CallerOut, Threads
  <2>10. QED
    BY <1>2, <2>2, <2>5, <2>6, <2>7, <2>8, <2>9 DEF Pool!Begin
<1>5. QED
  BY <1>3, <1>4, <1>1 DEF Resume

\* swapcontext() in yield(): the job waits for its next turn.
LEMMA YieldSwapIsPause ==
  ASSUME TypeOK, MapInv, NEW t \in Threads, YieldSwap(t)
  PROVE  Pool!Pause(cur[t])
<1> DEFINE j == cur[t]
<1>1. /\ pc[t] = "swap" /\ j \in Jobs
      /\ UNCHANGED <<tasks, cur, fiber, ctl>>
      /\ pc'[t] = "ret" /\ \A v \in Threads \ {t} : pc'[v] = pc[v]
  BY DEF YieldSwap, At, GoTo, TypeOK, Busy
<1>2. j \in Waiting
  BY <1>1 DEF MapInv, RunnerFits
<1>3. Waiting' = Waiting /\ Bound' = Bound
  BY <1>1 DEF Waiting, Taken, Queued, Bound
<1>4. \A v \in Threads \ {t} : Runs(v) => cur[v] # j
  BY <1>1 DEF MapInv, OneRunner, Runs
<1>5. j \in Running /\ Running' = Running \ {j}
  BY <1>1, <1>4 DEF Running, Runs
<1>6. Ended' = Ended /\ Stopped' = Stopped
  BY <1>1 DEF Ended, Stopped
<1>7. QED
  BY <1>2, <1>3, <1>5, <1>6 DEF Pool!Pause

\* MainFunc(): the job has returned, and is not scheduled again.
LEMMA FinishIsEnd ==
  ASSUME TypeOK, MapInv, NEW t \in Threads, Finish(t), ~Queued(cur[t])
  PROVE  Pool!End(cur[t])
<1> DEFINE j == cur[t]
<1>1. /\ pc[t] = "body" /\ j \in Jobs
      /\ UNCHANGED <<tasks, cur, ctl>>
      /\ fiber' = [fiber EXCEPT ![j] = "TERM"]
      /\ pc'[t] = "ret" /\ \A v \in Threads \ {t} : pc'[v] = pc[v]
  BY DEF Finish, At, GoTo, TypeOK, Busy
<1>2. j \notin Waiting
  BY <1>1 DEF MapInv, TakerFits, RunnerFits, Waiting, Taken
<1>3. Waiting' = Waiting /\ Bound' = Bound
  BY <1>1 DEF Waiting, Taken, Queued, Bound
<1>4. \A v \in Threads \ {t} : Runs(v) => cur[v] # j
  BY <1>1 DEF MapInv, OneRunner, Runs
<1>5. j \in Running /\ Running' = Running \ {j}
  BY <1>1, <1>4 DEF Running, Runs
<1>6. Ended' = Ended \cup {j} /\ Stopped' = Stopped
  BY <1>1 DEF Ended, Stopped, TypeOK
<1>7. QED
  BY <1>2, <1>3, <1>5, <1>6 DEF Pool!End

\* stop() returns: all threads have left run(), and with use_caller each of them
\* has found no task that it could execute.
LEMMA JoinIsStop ==
  ASSUME TypeOK, MapInv, OwnerInv, QueueIsServed, Join, OwnerInv'
  PROVE  Pool!Stop
<1>1. ctl = "join" /\ ctl' = "done" /\ UNCHANGED <<tasks, fiber, pc, cur>>
  BY DEF Join
<1>2. \A t \in Threads : pc[t] \in {"off", "exit"}
  <2>1. \A w \in Workers : pc[w] \in {"off", "exit"}
    BY DEF Join
  <2>2. pc[Caller] \in {"off", "exit"}
    <3>1. CASE UseCaller
      BY <1>1, <3>1, Zenon DEF OwnerInv
    <3>2. CASE ~UseCaller
      BY <3>2 DEF MapInv, CallerOut
    <3>3. QED
      BY <3>1, <3>2
  <2>3. QED
    BY <2>1, <2>2 DEF Threads
<1>3. Running = {} /\ \A j : ~Taken(j)
  BY <1>2 DEF Running, Taken
<1>4. ASSUME UseCaller PROVE Waiting = Bound
  <2>1. \A t \in Threads : ~WillScan(t)
    <3>1. pc[Caller] = "exit"
      BY <1>1, <1>4, Zenon DEF OwnerInv
    <3>2. QED
      BY <1>2, <3>1 DEF WillScan
  <2>2. \A i \in DOMAIN tasks : tasks[i].thread # AnyThread
    BY <1>4, <2>1, Zenon DEF QueueIsServed
  <2>3. QED
    BY <1>3, <2>2 DEF Waiting, Bound, Queued
<1>5. ~Stopped /\ Stopped' = TRUE
  BY <1>1 DEF Stopped
<1>6. UNCHANGED <<Waiting, Bound, Running, Ended>>
  BY <1>1 DEF Waiting, Taken, Queued, Bound, Running, Ended
<1>7. QED
  BY <1>3, <1>4, <1>5, <1>6, Zenon DEF Pool!Stop

LEMMA InitIsPoolInit == Init => Pool!Init
<1> SUFFICES ASSUME Init PROVE Pool!Init
  OBVIOUS
<1>1. \A j : ~Queued(j) /\ ~Taken(j)
  BY DEF Init, Queued, Taken
<1>2. Waiting = {} /\ Bound = {} /\ Running = {}
  BY <1>1 DEF Waiting, Init, Bound, Running
<1>3. Ended = {} /\ Stopped = FALSE
  BY DEF Init, Ended, Stopped
<1>4. QED
  BY <1>2, <1>3 DEF Pool!Init

\* The steps of TaskPool but stop().
PoolMoves ==
  \/ \E j \in Jobs : \/ Pool!Schedule(j) \/ Pool!Claim(j) \/ Pool!Begin(j)
                     \/ Pool!Pause(j) \/ Pool!End(j)
  \/ Pool!StopAgain

LEMMA PoolStep ==
  ASSUME TypeOK, MapInv, OwnerInv,
         \/ \E t \in Threads : RunStep(t) \/ JobStep(t)
         \/ Start
         \/ \E j \in Jobs, p \in Pins : Submit(j, p)
         \/ \E quiet : StopCall(quiet)
         \/ StopRoot \/ RootDone
  PROVE  PoolMoves \/ UNCHANGED Pool!vars
<1> USE ConstantsAssumption
<1>1. ASSUME NEW t \in Threads, Take(t) PROVE PoolMoves \/ UNCHANGED Pool!vars
  BY <1>1, TakeIsClaim DEF PoolMoves
<1>2. ASSUME NEW t \in Threads, NEW j \in Jobs, NEW p \in Pins,
             Spawn(t, j, p) \/ (t = Caller /\ Submit(j, p))
      PROVE  PoolMoves
  <2>1. Push(t, j, p) /\ UNCHANGED <<pc, cur, ctl>> /\ fiber[j] = "NEW"
        /\ fiber' = [fiber EXCEPT ![j] = "READY"]
    BY <1>2 DEF Spawn, Submit
  <2>2. Ended' = Ended
    BY <2>1 DEF Ended, TypeOK
  <2>3. ~Stopped /\ ~Stopped'
    BY <1>2, <2>1 DEF Spawn, Submit, At, Stopped, OwnerInv, MapInv, CallerOut,
                      Threads
  <2>4. ~Queued(j)
    BY <2>1 DEF MapInv, QueuedFits
  <2>5. Pool!Schedule(j)
    BY <2>1, <2>2, <2>3, <2>4, PushIsSchedule
  <2>6. QED
    BY <2>5 DEF PoolMoves
<1>3. ASSUME NEW t \in Threads, Reschedule(t) PROVE PoolMoves
  <2>1. pc[t] = "body" /\ cur[t] \in Jobs /\ fiber[cur[t]] = "RUNNING"
        /\ UNCHANGED <<fiber, pc, cur, ctl>>
    BY <1>3 DEF Reschedule, At, MapInv, RunnerFits, TypeOK, Busy
  <2>2. ~Stopped /\ ~Stopped'
    BY <2>1 DEF Stopped, OwnerInv, MapInv, CallerOut, Threads
  <2>3. Pool!Schedule(cur[t])
    BY <1>3, <2>1, <2>2, PushIsSchedule DEF Reschedule, Ended
  <2>4. QED
    BY <2>1, <2>3 DEF PoolMoves
<1>4. ASSUME NEW t \in Threads, pc[t] \in {"exec", "body", "swap"}
      PROVE  cur[t] \in Jobs
  BY <1>4 DEF TypeOK, Busy
<1>5. ASSUME NEW t \in Threads, Resume(t) PROVE PoolMoves \/ UNCHANGED Pool!vars
  BY <1>4, <1>5, ResumeIsBegin DEF Resume, At, PoolMoves
<1>6. ASSUME NEW t \in Threads, YieldSwap(t) PROVE PoolMoves
  BY <1>4, <1>6, YieldSwapIsPause DEF YieldSwap, At, PoolMoves
<1>7. ASSUME NEW t \in Threads, Finish(t), ~Queued(cur[t]) PROVE PoolMoves
  BY <1>4, <1>7, FinishIsEnd DEF Finish, At, PoolMoves
<1>8. ASSUME NEW t \in Threads, YieldReady(t) PROVE UNCHANGED Pool!vars
  <2>1. pc[t] = "body" /\ pc' = [pc EXCEPT ![t] = "swap"]
        /\ UNCHANGED <<tasks, cur, ctl>>
        /\ fiber' = [fiber EXCEPT ![cur[t]] = "READY"]
        /\ fiber[cur[t]] = "RUNNING"
    BY <1>8 DEF YieldReady, At, GoTo, MapInv, RunnerFits
  <2>2. Ended' = Ended /\ Stopped' = Stopped
    BY <2>1 DEF Ended, Stopped, TypeOK
  <2>3. QED
    BY <2>1, <2>2, PoolStutters DEF TypeOK
<1>9. ASSUME NEW t \in Threads,
              Return(t) \/ TakeNone(t) \/ IdleEnter(t) \/ Idle(t)
                \/ IdleLeave(t) \/ Tickle(t)
       PROVE  UNCHANGED Pool!vars
  <2>1. UNCHANGED <<tasks, fiber, ctl>>
    BY <1>9 DEF Return, TakeNone, IdleEnter, Idle, IdleLeave, Tickle
  <2>2. \A v \in Threads : pc'[v] \in {"exec", "body", "swap"} \/
                           pc[v] \in {"exec", "body", "swap"} =>
          pc'[v] = pc[v] /\ cur'[v] = cur[v]
    BY <1>9 DEF Return, TakeNone, IdleEnter, Idle, IdleLeave, Tickle, At, GoTo,
                 TypeOK
  <2>3. QED
    BY <2>1, <2>2, PoolStutters DEF Ended, Stopped
<1>10. CASE Start
  BY <1>10, PoolStutters DEF Start, Ended, Stopped
<1>11. ASSUME NEW quiet, StopCall(quiet)
       PROVE  PoolMoves \/ UNCHANGED Pool!vars
  <2>1. UNCHANGED <<tasks, fiber, pc, cur>> /\ ctl' = "stop"
        /\ ctl \in {"user", "done"}
    BY <1>11 DEF StopCall
  <2>2. UNCHANGED <<Waiting, Bound, Running, Ended>>
    BY <2>1 DEF Waiting, Taken, Queued, Bound, Running, Ended
  <2>3. Stopped' = FALSE /\ Stopped \in BOOLEAN
    BY <2>1 DEF Stopped
  <2>4. CASE Stopped
    BY <2>2, <2>3, <2>4 DEF PoolMoves, Pool!StopAgain
  <2>5. CASE ~Stopped
    BY <2>2, <2>3, <2>5 DEF Pool!vars
  <2>6. QED
    BY <2>4, <2>5
<1>12. CASE StopRoot \/ RootDone
  <2>1. UNCHANGED <<tasks, fiber, cur>> /\ Stopped' = Stopped
    BY <1>12 DEF StopRoot, RootDone, Stopped
  <2>2. \A v \in Threads :
          pc'[v] = pc[v] \/ (pc[v] = "off" /\ pc'[v] = "loop")
    BY <1>12 DEF StopRoot, RootDone, GoTo, TypeOK
  <2>3. QED
    BY <2>1, <2>2, PoolStutters DEF Ended
<1>13. QED
  BY <1>1, <1>2, <1>3, <1>5, <1>6, <1>7, <1>8, <1>9, <1>10, <1>11, <1>12
     DEF RunStep, JobStep, Threads

LEMMA NextIsPoolStep ==
  ASSUME TypeOK, MapInv, OwnerInv, QueueIsServed, OwnerInv', Next
  PROVE  Pool!Next \/ UNCHANGED Pool!vars
<1>1. CASE Join
  BY <1>1, JoinIsStop DEF Pool!Next
<1>2. CASE ~Join
  <2>1. PoolMoves \/ UNCHANGED Pool!vars
    BY <1>2, PoolStep DEF Next, StopStep
  <2>2. QED
    BY <2>1 DEF PoolMoves, Pool!Next
<1>3. QED
  BY <1>1, <1>2

\* For any threads, jobs and pins, with or without use_caller, the scheduler
\* implements the task pool: with every interleaving of run(), yield() and
\* stop(), a job is executed once for each time it was scheduled, by one thread
\* at a time, never after its end, and not after stop() has returned.
THEOREM Refinement == Spec => ImplementsPool
<1>1. Spec => []OwnerInv
  BY InitOwner, OwnerStep, Typing, PTL DEF Spec
<1>2. TypeOK /\ MapInv /\ OwnerInv /\ QueueIsServed /\ OwnerInv' /\ [Next]_vars
        => [Pool!Next]_(Pool!vars)
  <2> SUFFICES ASSUME TypeOK, MapInv, OwnerInv, QueueIsServed, OwnerInv',
                      [Next]_vars
               PROVE  Pool!Next \/ UNCHANGED Pool!vars
    OBVIOUS
  <2>1. CASE UNCHANGED vars
    BY <2>1, PoolStutters DEF vars, Ended, Stopped
  <2>2. CASE Next
    BY <2>2, NextIsPoolStep
  <2>3. QED
    BY <2>1, <2>2
<1>3. QED
  BY <1>1, <1>2, InitIsPoolInit, MapInvariance, QueueServed, Typing, PTL
     DEF Spec, ImplementsPool, Pool!Spec

(***************************************************************************)
(* A pool in which one thread executes all tasks never aborts.             *)
(***************************************************************************)
\* Only one thread executes tasks, and none is pinned to a thread that does not.
Alone ==
  /\ \A t, u \in Runners : t = u
  /\ Pins \subseteq Runners \cup {AnyThread}

\* A fiber that is RUNNING is executed by a thread.
RunningIsHeld ==
  \A j \in Jobs : fiber[j] = "RUNNING" => \E t \in Threads : pc[t] = "body" /\ cur[t] = j

\* Every task is for any thread or for one of S.
TasksFor(S) == \A i \in DOMAIN tasks : tasks[i].thread \in S \cup {AnyThread}

\* What a second stop() relies on: the root fiber has ended, and with nothing left.
CallerServes == UseCaller => tasks = <<>> \/ WillScan(Caller)
RootIsFresh ==
  /\ UseCaller /\ ctl = "stop" => pc[Caller] = "off"
  /\ ctl # "user" => stopping

AloneInv == RunningIsHeld /\ TasksFor(Runners) /\ CallerServes /\ RootIsFresh

\* A step that gives no fiber to a thread, and takes none from one.
LEMMA HeldElsewhere ==
  ASSUME RunningIsHeld, UNCHANGED fiber,
         \A v \in Threads : pc[v] = "body" => pc'[v] = "body" /\ cur'[v] = cur[v]
  PROVE  RunningIsHeld'
BY DEF RunningIsHeld

LEMMA HeldStep ==
  ASSUME TypeOK, MapInv, RunningIsHeld, [Next]_vars
  PROVE  RunningIsHeld'
<1>1. ASSUME NEW t \in Threads, Resume(t) PROVE RunningIsHeld'
  <2>1. pc[t] = "exec" /\ UNCHANGED cur /\ cur[t] \in Jobs
    BY <1>1 DEF Resume, At, TypeOK, Busy
  <2>2. CASE UNCHANGED <<fiber, pc>>
    BY <2>1, <2>2, HeldElsewhere
  <2>3. CASE fiber' = [fiber EXCEPT ![cur[t]] = "RUNNING"] /\ GoTo(t, "body")
    <3>1. pc'[t] = "body" /\ \A v \in Threads \ {t} : pc'[v] = pc[v]
      BY <2>3 DEF GoTo, TypeOK
    <3>2. \A j \in Jobs \ {cur[t]} : fiber'[j] = fiber[j]
      BY <2>1, <2>3 DEF TypeOK
    <3>3. QED
      BY <2>1, <3>1, <3>2 DEF RunningIsHeld
  <2>4. QED
    BY <1>1, <2>2, <2>3 DEF Resume
<1>2. ASSUME NEW t \in Threads, YieldReady(t) \/ Finish(t) PROVE RunningIsHeld'
  <2>1. pc[t] = "body" /\ UNCHANGED cur /\ cur[t] \in Jobs
    BY <1>2 DEF YieldReady, Finish, At, TypeOK, Busy
  <2>2. /\ \A v \in Threads \ {t} : pc'[v] = pc[v]
        /\ fiber'[cur[t]] # "RUNNING"
        /\ \A j \in Jobs \ {cur[t]} : fiber'[j] = fiber[j]
    BY <1>2, <2>1 DEF YieldReady, Finish, GoTo, TypeOK
  <2>3. QED
    BY <2>1, <2>2 DEF RunningIsHeld
<1>3. ASSUME NEW t \in Threads,
             \/ Take(t) \/ TakeNone(t) \/ YieldSwap(t) \/ Return(t) \/ IdleEnter(t)
             \/ Idle(t) \/ IdleLeave(t) \/ Tickle(t) \/ Reschedule(t)
      PROVE  RunningIsHeld'
  <2>1. UNCHANGED fiber
    BY <1>3 DEF Take, TakeNone, YieldSwap, Return, IdleEnter, Idle, IdleLeave,
                Tickle, Reschedule
  <2>2. \A v \in Threads : pc[v] = "body" => pc'[v] = "body" /\ cur'[v] = cur[v]
    BY <1>3 DEF Take, TakeNone, YieldSwap, Return, IdleEnter, Idle, IdleLeave,
                Tickle, Reschedule, At, GoTo, TypeOK
  <2>3. QED
    BY <2>1, <2>2, HeldElsewhere
<1>4. ASSUME NEW t \in Threads, NEW j \in Jobs, NEW p \in Pins,
             Spawn(t, j, p) \/ Submit(j, p)
      PROVE  RunningIsHeld'
  <2>1. UNCHANGED <<pc, cur>> /\ fiber' = [fiber EXCEPT ![j] = "READY"]
    BY <1>4 DEF Spawn, Submit
  <2>2. \A k \in Jobs : fiber'[k] = "RUNNING" => fiber[k] = "RUNNING"
    BY <2>1 DEF TypeOK
  <2>3. QED
    BY <2>1, <2>2 DEF RunningIsHeld
<1>5. CASE Start \/ StopCall(Quiet) \/ StopStep
  <2>1. UNCHANGED <<fiber, cur>>
    BY <1>5 DEF Start, StopCall, StopStep, StopRoot, RootDone, Join
  <2>2. \A v \in Threads : pc[v] = "body" => pc'[v] = "body"
    BY <1>5 DEF Start, StopCall, StopStep, StopRoot, RootDone, Join, GoTo, TypeOK
  <2>3. QED
    BY <2>1, <2>2, HeldElsewhere
<1>6. CASE UNCHANGED vars
  BY <1>6, HeldElsewhere DEF vars
<1>7. Caller \in Threads
  BY DEF Threads
<1>8. QED
  BY <1>1, <1>2, <1>3, <1>4, <1>5, <1>6, <1>7 DEF Next, RunStep, JobStep

\* Who pushes a task says where it may be executed.
LEMMA PushFor ==
  ASSUME TypeOK, NEW S, TasksFor(S), NEW t, NEW j \in Jobs,
         NEW p \in Threads \cup {AnyThread}, p \in S \cup {AnyThread},
         Push(t, j, p)
  PROVE  TasksFor(S)'
<1> DEFINE e == [job |-> j, thread |-> p]
<1>1. tasks \in Seq(Task) /\ e \in Task /\ e.thread = p
  BY DEF TypeOK, Task
<1>2. tasks' = Append(tasks, e)
  BY DEF Push
<1> HIDE DEF e
<1>3. \A i \in DOMAIN tasks' : tasks'[i] = e \/ (i \in DOMAIN tasks /\ tasks'[i] = tasks[i])
  BY <1>1, <1>2, AppendProperties
<1>4. QED
  BY <1>1, <1>3 DEF TasksFor

LEMMA TakeFor ==
  ASSUME TypeOK, NEW S, TasksFor(S), NEW i \in DOMAIN tasks, TakeOut(i)
  PROVE  TasksFor(S)'
<1>1. tasks \in Seq(Task)
  BY DEF TypeOK
<1>2. /\ tasks' \in Seq(Task)
      /\ Len(tasks') = Len(tasks) - 1
      /\ \A n \in 1 .. Len(tasks) - 1 :
           tasks'[n] = IF n < i THEN tasks[n] ELSE tasks[n + 1]
  BY <1>1, RemoveAtFacts DEF TakeOut
<1>3. /\ DOMAIN tasks = 1 .. Len(tasks) /\ Len(tasks) \in Nat
      /\ DOMAIN tasks' = 1 .. Len(tasks) - 1
  BY <1>1, <1>2, LenProperties
<1>4. \A n \in DOMAIN tasks' : \E m \in DOMAIN tasks : tasks'[n] = tasks[m]
  <2> SUFFICES ASSUME NEW n \in DOMAIN tasks'
               PROVE  \E m \in DOMAIN tasks : tasks'[n] = tasks[m]
    OBVIOUS
  <2>1. n \in DOMAIN tasks /\ n + 1 \in DOMAIN tasks
    BY <1>3
  <2>2. QED
    BY <1>2, <1>3, <2>1
<1>5. QED
  BY <1>4 DEF TasksFor

LEMMA TasksForStep ==
  ASSUME TypeOK, NEW S, Pins \subseteq S \cup {AnyThread}, TasksFor(S), [Next]_vars
  PROVE  TasksFor(S)'
<1> USE ConstantsAssumption
<1>1. CASE UNCHANGED tasks
  BY <1>1 DEF TasksFor
<1>2. ASSUME NEW t \in Threads, NEW j \in Jobs, NEW p \in Pins,
             Spawn(t, j, p) \/ Submit(j, p)
      PROVE  TasksFor(S)'
  <2>1. p \in S \cup {AnyThread} /\ p \in Threads \cup {AnyThread}
    OBVIOUS
  <2>2. Push(t, j, p) \/ Push(Caller, j, p)
    BY <1>2 DEF Spawn, Submit
  <2>3. QED
    BY <2>1, <2>2, PushFor
<1>3. ASSUME NEW t \in Threads, Reschedule(t) PROVE TasksFor(S)'
  <2>1. cur[t] \in Jobs /\ Push(t, cur[t], AnyThread)
    BY <1>3 DEF Reschedule, At, TypeOK, Busy
  <2>2. QED
    BY <2>1, PushFor
<1>4. ASSUME NEW t \in Threads, Take(t) PROVE TasksFor(S)'
  BY <1>1, <1>4, TakeFor DEF Take
<1>5. ASSUME NEW t \in Threads, RunStep(t), ~Take(t) PROVE UNCHANGED tasks
  BY <1>5 DEF RunStep, TakeNone, Resume, YieldSwap, Return, IdleEnter, Idle,
              IdleLeave, Tickle
<1>6. ASSUME NEW t \in Threads, YieldReady(t) \/ Finish(t) PROVE UNCHANGED tasks
  BY <1>6 DEF YieldReady, Finish
<1>7. CASE Start \/ StopCall(Quiet) \/ StopStep \/ UNCHANGED vars
  BY <1>1, <1>7 DEF Start, StopCall, StopStep, StopRoot, RootDone, Join, vars
<1>8. Caller \in Threads
  BY DEF Threads
<1>9. QED
  BY <1>1, <1>2, <1>3, <1>4, <1>5, <1>6, <1>7, <1>8 DEF Next, JobStep

\* The thread that pushes a task will scan the queue again; a scan that takes
\* nothing has found the queue empty.
LEMMA CallerServesStep ==
  ASSUME Alone, TypeOK, MapInv, OwnerInv, TasksFor(Runners), CallerServes, [Next]_vars
  PROVE  CallerServes'
<1> USE ConstantsAssumption
<1> SUFFICES ASSUME UseCaller PROVE (tasks = <<>> \/ WillScan(Caller))'
  BY DEF CallerServes
<1>1. Caller \in Runners /\ Caller \in Threads /\ (tasks = <<>> \/ WillScan(Caller))
  BY DEF Runners, Threads, CallerServes
<1>2. Workers = {} /\ \A t \in Threads : t = Caller
  BY <1>1 DEF Alone, Runners, Threads
<1>3. ASSUME WillScan(Caller)' PROVE (tasks = <<>> \/ WillScan(Caller))'
  BY <1>3
<1>4. ASSUME UNCHANGED tasks, WillScan(Caller) => WillScan(Caller)'
      PROVE  (tasks = <<>> \/ WillScan(Caller))'
  BY <1>1, <1>4
<1>5. CASE JobStep(Caller)
  BY <1>1, <1>5 DEF JobStep, Spawn, Reschedule, YieldReady, Finish, At, GoTo, WillScan,
                    TypeOK
<1>6. ASSUME NEW j \in Jobs, NEW p \in Pins, Submit(j, p)
      PROVE  (tasks = <<>> \/ WillScan(Caller))'
  BY <1>6 DEF Submit, OwnerInv, WillScan
<1>7. CASE Take(Caller)
  BY <1>1, <1>7 DEF Take, At, GoTo, WillScan, TypeOK
<1>8. CASE TakeNone(Caller)
  <2>1. \A i \in DOMAIN tasks : Eligible(Caller, i)
    <3>1. ASSUME NEW i \in DOMAIN tasks PROVE tasks[i].thread \in {AnyThread, Caller}
      BY <1>1, <3>1 DEF TasksFor, Alone
    <3>2. QED
      BY <3>1 DEF Eligible
  <2>2. DOMAIN tasks = {} /\ tasks \in Seq(Task)
    BY <1>8, <2>1 DEF TakeNone, TypeOK
  <2>3. tasks = <<>>
    BY <2>2
  <2>4. QED
    BY <1>8, <2>3 DEF TakeNone
<1>9. CASE Resume(Caller) \/ YieldSwap(Caller) \/ Return(Caller) \/ IdleEnter(Caller)
             \/ Idle(Caller) \/ IdleLeave(Caller) \/ Tickle(Caller)
  <2>1. UNCHANGED tasks
    BY <1>9 DEF Resume, YieldSwap, Return, IdleEnter, Idle, IdleLeave, Tickle
  <2>2. WillScan(Caller) => WillScan(Caller)'
    BY <1>1, <1>9 DEF Resume, YieldSwap, Return, IdleEnter, Idle, IdleLeave, Tickle,
                      At, GoTo, WillScan, TypeOK
  <2>3. QED
    BY <1>4, <2>1, <2>2
<1>10. CASE Start \/ StopCall(Quiet) \/ StopStep \/ UNCHANGED vars
  <2>1. UNCHANGED <<tasks, idleFiber>>
    BY <1>10 DEF Start, StopCall, StopStep, StopRoot, RootDone, Join, vars
  <2>2. pc'[Caller] = pc[Caller] \/ pc'[Caller] = "loop"
    BY <1>1, <1>10 DEF Start, StopCall, StopStep, StopRoot, RootDone, Join, vars, GoTo,
                       TypeOK
  <2>3. WillScan(Caller) => WillScan(Caller)'
    BY <2>1, <2>2 DEF WillScan
  <2>4. QED
    BY <1>4, <2>1, <2>3
<1>11. QED
  BY <1>2, <1>5, <1>6, <1>7, <1>8, <1>9, <1>10 DEF Next, RunStep

\* With one thread that executes tasks, nothing that stop() could be called for
\* is left when it has returned once.
LEMMA DoneIsQuiet ==
  ASSUME Alone, TypeOK, ActiveExact, OwnerInv, AloneInv, UseCaller, ctl = "done"
  PROVE  Quiet
<1> USE ConstantsAssumption
<1>1. Caller \in Runners /\ Caller \in Threads
  BY DEF Runners, Threads
<1>2. \A t \in Threads : t = Caller
  BY <1>1 DEF Alone, Runners, Threads
<1>3. pc[Caller] = "exit"
  BY Zenon DEF OwnerInv
<1>4. tasks = <<>>
  BY <1>3 DEF AloneInv, CallerServes, WillScan
<1>5. {t \in Threads : Busy(t)} = {}
  BY <1>2, <1>3 DEF Busy
<1>6. active = 0
  BY <1>5, FS_EmptySet DEF ActiveExact
<1>7. QED
  BY <1>4, <1>6 DEF Quiet, AloneInv, RootIsFresh

LEMMA RootStep ==
  ASSUME Alone, TypeOK, ActiveExact, OwnerInv, AloneInv, [Next]_vars
  PROVE  RootIsFresh'
<1> USE DEF RootIsFresh, AloneInv
<1>1. CASE StopCall(Quiet)
  <2>1. UseCaller => ctl = "user"
    BY <1>1, DoneIsQuiet DEF StopCall
  <2>2. QED
    BY <1>1, <2>1 DEF StopCall, OwnerInv
<1>2. CASE StopStep
  BY <1>2 DEF StopStep, StopRoot, RootDone, Join
<1>3. ASSUME NEW t \in Threads, RunStep(t) \/ JobStep(t)
      PROVE  UNCHANGED <<ctl, stopping>> /\ (pc[Caller] = "off" => pc'[Caller] = "off")
  <2>1. UNCHANGED <<ctl, stopping>>
    BY <1>3 DEF RunStep, Take, TakeNone, Resume, YieldSwap, Return, IdleEnter, Idle,
                IdleLeave, Tickle, JobStep, Spawn, Reschedule, YieldReady, Finish
  <2>2. UNCHANGED pc \/ (pc[t] # "off" /\ \E l : pc' = [pc EXCEPT ![t] = l])
    <3>1. CASE RunStep(t)
      BY <3>1 DEF RunStep, Take, TakeNone, Resume, YieldSwap, Return, IdleEnter,
                  Idle, IdleLeave, Tickle, At, GoTo
    <3>2. CASE JobStep(t)
      BY <3>2 DEF JobStep, Spawn, Reschedule, YieldReady, Finish, At, GoTo
    <3>3. QED
      BY <1>3, <3>1, <3>2
  <2>3. Caller \in Threads /\ pc \in [Threads -> Places]
    BY DEF Threads, TypeOK
  <2>4. QED
    BY <2>1, <2>2, <2>3
<1>4. CASE Start
  BY <1>4, ConstantsAssumption DEF Start, Threads
<1>5. CASE UNCHANGED vars \/ \E j \in Jobs, p \in Pins : Submit(j, p)
  BY <1>5 DEF vars, Submit
<1>6. QED
  BY <1>1, <1>2, <1>3, <1>4, <1>5 DEF Next

\* The step that would abort needs a second thread that executes tasks, or a
\* stop() that finds something left by the one before.
LEMMA NoFaultStep ==
  ASSUME Alone, TypeOK, MapInv, OwnerInv, ActiveExact, AloneInv, OnlyReadyIsTaken,
         [Next]_vars
  PROVE  OnlyReadyIsTaken'
<1> USE ConstantsAssumption DEF OnlyReadyIsTaken
<1>1. \A t, u \in Threads : pc[t] # "off" /\ pc[u] # "off" => t = u
  BY DEF Alone, Runners, Threads, MapInv, CallerOut
<1>2. ASSUME NEW t \in Threads, Take(t) PROVE fault' = "none"
  <2>1. PICK i \in DOMAIN tasks :
          IF fiber[tasks[i].job] = "READY" THEN UNCHANGED fault
          ELSE fault' = "assert_ready"
    BY <1>2 DEF Take
  <2>2. tasks[i].job \in Jobs
    <3>1. tasks[i] \in Task
      BY ElementOfSeq DEF TypeOK
    <3>2. QED
      BY <3>1 DEF Task
  <2>3. fiber[tasks[i].job] \in {"READY", "RUNNING"}
    BY <2>2 DEF MapInv, QueuedFits, Queued
  <2>4. fiber[tasks[i].job] # "RUNNING"
    BY <1>1, <1>2, <2>2 DEF AloneInv, RunningIsHeld, Take, At
  <2>5. QED
    BY <2>1, <2>3, <2>4
<1>3. ASSUME NEW t \in Threads, Resume(t) PROVE fault' = "none"
  <2>1. pc[t] = "exec" /\ fiber[cur[t]] = "READY"
    BY <1>3 DEF Resume, At, MapInv, TakerFits
  <2>2. \A v \in Threads : pc[v] # "swap"
    BY <1>1, <2>1
  <2>3. QED
    BY <1>3, <2>1, <2>2 DEF Resume
<1>4. CASE StopRoot
  BY <1>4 DEF StopRoot, AloneInv, RootIsFresh
<1>5. ASSUME NEW t \in Threads, RunStep(t) \/ JobStep(t), ~Take(t), ~Resume(t)
      PROVE  UNCHANGED fault
  BY <1>5 DEF RunStep, TakeNone, YieldSwap, Return, IdleEnter, Idle, IdleLeave, Tickle,
              JobStep, Spawn, Reschedule, YieldReady, Finish
<1>6. CASE \/ Start \/ StopCall(Quiet) \/ RootDone \/ Join \/ UNCHANGED vars
           \/ \E j \in Jobs, p \in Pins : Submit(j, p)
  BY <1>6 DEF Start, StopCall, RootDone, Join, vars, Submit
<1>7. QED
  BY <1>2, <1>3, <1>4, <1>5, <1>6 DEF Next, StopStep

\* What run ready refutes for two threads holds for one: whatever its jobs do --
\* schedule themselves and yield, schedule others, pin them to it -- the thread
\* never takes or resumes a fiber that is not READY, and stop() may be called
\* again and again.
THEOREM AloneIsSafe == Alone => (Spec => []OnlyReadyIsTaken)
<1> SUFFICES ASSUME Alone PROVE Spec => []OnlyReadyIsTaken
  OBVIOUS
<1>1. Init => AloneInv /\ OnlyReadyIsTaken /\ OwnerInv
  <2>1. Init => RunningIsHeld /\ TasksFor(Runners) /\ CallerServes
    BY DEF Init, RunningIsHeld, TasksFor, CallerServes
  <2>2. Init => RootIsFresh /\ OnlyReadyIsTaken
    BY DEF Init, RootIsFresh, OnlyReadyIsTaken
  <2>3. QED
    BY <2>1, <2>2, InitOwner DEF AloneInv
<1>2. /\ TypeOK /\ MapInv /\ ActiveExact /\ OwnerInv /\ AloneInv /\ OnlyReadyIsTaken
      /\ [Next]_vars
      => OwnerInv' /\ AloneInv' /\ OnlyReadyIsTaken'
  <2>1. TypeOK /\ MapInv /\ OwnerInv /\ AloneInv /\ [Next]_vars
          => RunningIsHeld' /\ TasksFor(Runners)' /\ CallerServes'
    BY HeldStep, TasksForStep, CallerServesStep DEF AloneInv, Alone
  <2>2. TypeOK /\ ActiveExact /\ OwnerInv /\ AloneInv /\ [Next]_vars => RootIsFresh'
    BY RootStep
  <2>3. QED
    BY <2>1, <2>2, OwnerStep, NoFaultStep DEF AloneInv
<1>3. QED
  BY <1>1, <1>2, Typing, MapInvariance, ActiveIsExact, PTL DEF Spec

\* What run pool refutes without use_caller holds with it, if no task is pinned:
\* stop() returns only when every job that was scheduled has ended.
THEOREM StopWaitsWithCaller ==
  UseCaller /\ Pins \subseteq {AnyThread} => (Spec => []StopWaitsForAll)
<1> SUFFICES ASSUME UseCaller, Pins \subseteq {AnyThread} PROVE Spec => []StopWaitsForAll
  OBVIOUS
<1>1. Init => TasksFor({})
  BY DEF Init, TasksFor
<1>2. TypeOK /\ TasksFor({}) /\ [Next]_vars => TasksFor({})'
  BY TasksForStep
<1>3. StopDrains /\ TasksFor({}) => StopWaitsForAll
  BY DEF StopDrains, TasksFor, StopWaitsForAll
<1>4. QED
  BY <1>1, <1>2, <1>3, StopDrainsQueue, Typing, PTL DEF Spec

=============================================================================
