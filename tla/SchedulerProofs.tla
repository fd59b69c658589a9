--------------------------- MODULE SchedulerProofs ---------------------------
(* Theorems about Scheduler, for every value of its constants.              *)
EXTENDS Scheduler, SequenceTheorems, FiniteSetTheorems, TLAPS

(***************************************************************************)
(* Sequences: what erasing one task and appending one leave in the queue.  *)
(***************************************************************************)
\* m_tasks.erase(it): every other task stays, in the same order.
LEMMA RemoveAtFacts ==
  ASSUME NEW S, NEW s \in Seq(S), NEW i \in DOMAIN s
  PROVE  /\ RemoveAt(s, i) \in Seq(S)
         /\ Len(RemoveAt(s, i)) = Len(s) - 1
         /\ \A k \in 1 .. Len(s) - 1 :
              RemoveAt(s, i)[k] = IF k < i THEN s[k] ELSE s[k + 1]
<1> DEFINE a == SubSeq(s, 1, i - 1)
           b == SubSeq(s, i + 1, Len(s))
<1>1. i \in 1 .. Len(s) /\ Len(s) \in Nat
  OBVIOUS
<1>2. /\ a \in Seq(S) /\ Len(a) = i - 1
      /\ \A k \in 1 .. i - 1 : a[k] = s[k]
  BY <1>1, SubSeqProperties
<1>3. /\ b \in Seq(S) /\ Len(b) = Len(s) - i
      /\ \A k \in 1 .. Len(s) - i : b[k] = s[i + k]
  BY <1>1, SubSeqProperties
<1> HIDE DEF a, b
<1>4. /\ a \o b \in Seq(S) /\ Len(a \o b) = Len(s) - 1
      /\ \A k \in 1 .. Len(s) - 1 :
           (a \o b)[k] = IF k <= i - 1 THEN a[k] ELSE b[k - (i - 1)]
  <2>1. /\ a \o b \in Seq(S) /\ Len(a \o b) = Len(a) + Len(b)
        /\ \A k \in 1 .. Len(a) + Len(b) :
             (a \o b)[k] = IF k <= Len(a) THEN a[k] ELSE b[k - Len(a)]
    BY <1>2, <1>3, ConcatProperties
  <2>2. Len(a) = i - 1 /\ Len(a) + Len(b) = Len(s) - 1
    BY <1>1, <1>2, <1>3
  <2>3. QED
    BY <2>1, <2>2
<1>5. RemoveAt(s, i) = a \o b
  BY DEF RemoveAt, a, b
<1>6. ASSUME NEW k \in 1 .. Len(s) - 1
      PROVE  (a \o b)[k] = IF k < i THEN s[k] ELSE s[k + 1]
  <2>1. CASE k <= i - 1
    BY <2>1, <1>1, <1>2, <1>4
  <2>2. CASE ~(k <= i - 1)
    <3>1. k - (i - 1) \in 1 .. Len(s) - i /\ i + (k - (i - 1)) = k + 1
      BY <2>2, <1>1
    <3>2. (a \o b)[k] = b[k - (i - 1)]
      BY <2>2, <1>4
    <3>3. b[k - (i - 1)] = s[k + 1]
      BY <3>1, <1>3
    <3>4. QED
      BY <3>2, <3>3, <2>2, <1>1
  <2>3. QED
    BY <2>1, <2>2
<1>7. QED
  BY <1>4, <1>5, <1>6

(***************************************************************************)
(* Types.                                                                  *)
(***************************************************************************)
LEMMA InitType == Init => TypeOK
<1> SUFFICES ASSUME Init PROVE TypeOK
  OBVIOUS
<1>1. tasks \in Seq(Task)
  BY DEF Init
<1>2. owe \in [Threads -> Nat]
  BY DEF Init
<1>3. pc \in [Threads -> Places] /\ idleFiber \in [Threads -> {"NEW", "READY", "TERM"}]
  BY DEF Init, Places
<1>4. cur \in [Threads -> Jobs \cup {None}]
  BY DEF Init
<1>5. \A t \in Threads : cur[t] # None <=> Busy(t)
  BY DEF Init, Busy
<1>6. fiber \in [Jobs -> FiberStates]
  BY DEF Init, FiberStates
<1>7. active \in Int /\ idleCount \in Int
  BY DEF Init
<1>8. /\ stopping \in BOOLEAN
      /\ ctl \in {"user", "stop", "root", "join", "done"}
      /\ fault \in {"none", "assert_ready", "assert_resume", "stale_context"}
  BY DEF Init
<1>9. QED
  BY <1>1, <1>2, <1>3, <1>4, <1>5, <1>6, <1>7, <1>8 DEF TypeOK

LEMMA PushType ==
  ASSUME TypeOK, NEW t \in Threads, NEW j \in Jobs, NEW p \in Pins, Push(t, j, p)
  PROVE  /\ tasks' \in Seq(Task)
         /\ owe' \in [Threads -> Nat]
<1>1. [job |-> j, thread |-> p] \in Task
  BY ConstantsAssumption DEF Task
<1>2. QED
  BY <1>1 DEF Push, TypeOK

\* Every action of a thread in run(), and every action of the owner, keeps the
\* types of Scheduler's variables.
LEMMA NextType == TypeOK /\ [Next]_vars => TypeOK'
<1> USE ConstantsAssumption DEF FiberStates, Places, Busy
<1> SUFFICES ASSUME TypeOK, [Next]_vars PROVE TypeOK'
  OBVIOUS
<1>1. CASE UNCHANGED vars
  BY <1>1 DEF TypeOK, vars
<1>2. ASSUME NEW t \in Threads, Take(t) PROVE TypeOK'
  <2>1. PICK i \in DOMAIN tasks :
          /\ FirstEligible(t, i)
          /\ IF fiber[tasks[i].job] = "READY"
             THEN /\ TakeOut(i)
                  /\ cur' = [cur EXCEPT ![t] = tasks[i].job]
                  /\ active' = active + 1
                  /\ owe' = [owe EXCEPT ![t] = 1]
                  /\ GoTo(t, "exec")
                  /\ UNCHANGED fault
             ELSE /\ fault' = "assert_ready"
                  /\ UNCHANGED <<tasks, cur, active, owe, pc>>
    BY <1>2 DEF Take
  <2>2. tasks[i] \in Task /\ tasks[i].job \in Jobs
    <3>1. tasks[i] \in Task
      BY ElementOfSeq DEF TypeOK
    <3>2. QED
      BY <3>1 DEF Task
  <2>3. RemoveAt(tasks, i) \in Seq(Task)
    BY RemoveAtFacts DEF TypeOK
  <2>4. CASE fiber[tasks[i].job] = "READY"
    <3>1. /\ tasks' = RemoveAt(tasks, i)
          /\ cur' = [cur EXCEPT ![t] = tasks[i].job]
          /\ active' = active + 1
          /\ owe' = [owe EXCEPT ![t] = 1]
          /\ pc' = [pc EXCEPT ![t] = "exec"]
          /\ UNCHANGED <<stopping, idleCount, fiber, idleFiber, ctl, fault>>
      BY <1>2, <2>1, <2>4 DEF Take, TakeOut, GoTo
    <3>2. tasks' \in Seq(Task)
      BY <3>1, <2>3
    <3>3. /\ cur' \in [Threads -> Jobs \cup {None}]
          /\ pc' \in [Threads -> Places]
          /\ owe' \in [Threads -> Nat]
      BY <3>1, <2>2 DEF TypeOK
    <3>4. (\A v \in Threads : cur[v] # None <=> Busy(v))'
      BY <3>1, <2>2 DEF TypeOK
    <3>5. active' \in Int
      BY <3>1 DEF TypeOK
    <3>6. QED
      BY <3>1, <3>2, <3>3, <3>4, <3>5 DEF TypeOK
  <2>5. CASE fiber[tasks[i].job] # "READY"
    BY <1>2, <2>1, <2>5 DEF Take, TypeOK, At
  <2>6. QED
    BY <2>4, <2>5
<1>3. ASSUME NEW t \in Threads, NEW j \in Jobs, NEW p \in Pins, Spawn(t, j, p)
      PROVE  TypeOK'
  BY <1>3, PushType DEF Spawn, TypeOK
<1>4. ASSUME NEW t \in Threads, Reschedule(t) PROVE TypeOK'
  <2>1. cur[t] \in Jobs
    BY <1>4 DEF Reschedule, At, TypeOK
  <2>2. tasks' \in Seq(Task) /\ owe' \in [Threads -> Nat]
    <3>1. [job |-> cur[t], thread |-> AnyThread] \in Task
      BY <2>1 DEF Task
    <3>2. QED
      BY <1>4, <3>1 DEF Reschedule, Push, TypeOK
  <2>3. QED
    BY <1>4, <2>2 DEF Reschedule, TypeOK
<1>5. ASSUME NEW j \in Jobs, NEW p \in Pins, Submit(j, p) PROVE TypeOK'
  <2>1. Caller \in Threads
    BY DEF Threads
  <2>2. tasks' \in Seq(Task) /\ owe' \in [Threads -> Nat]
    BY <1>5, <2>1, PushType DEF Submit
  <2>3. QED
    BY <1>5, <2>2 DEF Submit, TypeOK
<1>6. ASSUME NEW t \in Threads, TakeNone(t) PROVE TypeOK'
  BY <1>6 DEF TakeNone, At, GoTo, TypeOK
<1>7. ASSUME NEW t \in Threads, Resume(t) PROVE TypeOK'
  <2>1. cur[t] \in Jobs /\ pc[t] = "exec"
    BY <1>7 DEF Resume, At, TypeOK
  <2>2. CASE UNCHANGED <<fiber, pc>>
    BY <1>7, <2>2 DEF Resume, TypeOK
  <2>3. CASE ~UNCHANGED <<fiber, pc>>
    <3>1. /\ fiber' = [fiber EXCEPT ![cur[t]] = "RUNNING"]
          /\ pc' = [pc EXCEPT ![t] = "body"]
          /\ fault' = fault
      BY <1>7, <2>3 DEF Resume, GoTo
    <3>2. fiber' \in [Jobs -> FiberStates] /\ pc' \in [Threads -> Places]
      BY <2>1, <3>1 DEF TypeOK
    <3>3. \A v \in Threads : Busy(v)' <=> Busy(v)
      BY <2>1, <3>1 DEF TypeOK
    <3>4. QED
      BY <1>7, <3>1, <3>2, <3>3 DEF Resume, TypeOK
  <2>4. QED
    BY <2>2, <2>3
<1>8. ASSUME NEW t \in Threads, YieldReady(t) PROVE TypeOK'
  BY <1>8 DEF YieldReady, At, GoTo, TypeOK
<1>9. ASSUME NEW t \in Threads, YieldSwap(t) PROVE TypeOK'
  BY <1>9 DEF YieldSwap, At, GoTo, TypeOK
<1>10. ASSUME NEW t \in Threads, Finish(t) PROVE TypeOK'
  BY <1>10 DEF Finish, At, GoTo, TypeOK
<1>11. ASSUME NEW t \in Threads, Return(t) PROVE TypeOK'
  BY <1>11 DEF Return, At, GoTo, TypeOK
<1>12. ASSUME NEW t \in Threads, IdleEnter(t) PROVE TypeOK'
  <2>1. CASE idleFiber[t] = "TERM"
    BY <1>12, <2>1 DEF IdleEnter, At, GoTo, TypeOK
  <2>2. CASE idleFiber[t] # "TERM"
    <3>1. pc' = [pc EXCEPT ![t] = "inIdle"] /\ idleCount' = idleCount + 1
      BY <1>12, <2>2 DEF IdleEnter, GoTo
    <3>2. pc' \in [Threads -> Places] /\ idleCount' \in Int
      BY <3>1 DEF TypeOK
    <3>3. (\A v \in Threads : cur[v] # None <=> Busy(v))'
      BY <1>12, <3>1 DEF IdleEnter, At, TypeOK
    <3>4. QED
      BY <1>12, <3>2, <3>3 DEF IdleEnter, TypeOK
  <2>3. QED
    BY <2>1, <2>2
<1>13. ASSUME NEW t \in Threads, Idle(t) PROVE TypeOK'
  BY <1>13 DEF Idle, At, GoTo, TypeOK
<1>14. ASSUME NEW t \in Threads, IdleLeave(t) PROVE TypeOK'
  BY <1>14 DEF IdleLeave, At, GoTo, TypeOK
<1>15. ASSUME NEW t \in Threads, Tickle(t) PROVE TypeOK'
  BY <1>15 DEF Tickle, TypeOK
<1>16. CASE Start
  BY <1>16 DEF Start, TypeOK, Threads
<1>17. CASE StopCall(Quiet)
  <2>1. Cardinality(Runners) \in Nat
    BY FS_CardinalityType, FS_Singleton, FS_Union, FS_EmptySet DEF Runners
  <2>2. QED
    BY <1>17, <2>1 DEF StopCall, TypeOK
<1>18. CASE StopRoot
  BY <1>18 DEF StopRoot, GoTo, TypeOK, Threads
<1>19. CASE RootDone
  BY <1>19 DEF RootDone, TypeOK
<1>20. CASE Join
  BY <1>20 DEF Join, TypeOK
<1>21. QED
  BY <1>1, <1>2, <1>3, <1>4, <1>5, <1>6, <1>7, <1>8, <1>9, <1>10, <1>11,
     <1>12, <1>13, <1>14, <1>15, <1>16, <1>17, <1>18, <1>19, <1>20
     DEF Next, RunStep, JobStep, StopStep

\* The type invariant of Scheduler, for every number of threads and jobs.
THEOREM Typing == Spec => []TypeOK
<1>1. QED
  BY InitType, NextType, PTL DEF Spec

(***************************************************************************)
(* No task is lost.                                                        *)
(***************************************************************************)
\* schedule(): what was queued stays queued, and the new task is queued.
LEMMA QueuedAfterPush ==
  ASSUME TypeOK, NEW t, NEW j \in Jobs, NEW p \in Threads \cup {AnyThread},
         Push(t, j, p)
  PROVE  /\ Queued(j)'
         /\ \A k \in Jobs : Queued(k) => Queued(k)'
<1> DEFINE e == [job |-> j, thread |-> p]
<1>1. tasks \in Seq(Task) /\ e \in Task
  BY DEF TypeOK, Task
<1>2. e.job = j
  OBVIOUS
<1>3. tasks' = Append(tasks, e)
  BY DEF Push
<1> HIDE DEF e
<1>4. /\ Len(tasks') = Len(tasks) + 1 /\ Len(tasks) \in Nat
      /\ DOMAIN tasks' = 1 .. Len(tasks) + 1
      /\ DOMAIN tasks = 1 .. Len(tasks)
      /\ tasks'[Len(tasks) + 1] = e
      /\ \A i \in 1 .. Len(tasks) : tasks'[i] = tasks[i]
  BY <1>1, <1>3, AppendProperties
<1>5. Queued(j)'
  BY <1>2, <1>4 DEF Queued
<1>6. ASSUME NEW k \in Jobs, Queued(k) PROVE Queued(k)'
  <2>1. PICK i \in 1 .. Len(tasks) : tasks[i].job = k
    BY <1>4, <1>6 DEF Queued
  <2>2. i \in DOMAIN tasks' /\ tasks'[i].job = k
    BY <1>4, <2>1
  <2>3. QED
    BY <2>2 DEF Queued
<1>7. QED
  BY <1>5, <1>6

\* m_tasks.erase(it): only the task that is taken leaves the queue.
LEMMA QueuedAfterTakeOut ==
  ASSUME TypeOK, NEW i \in DOMAIN tasks, TakeOut(i),
         NEW k \in Jobs, Queued(k), tasks[i].job # k
  PROVE  Queued(k)'
<1>1. tasks \in Seq(Task)
  BY DEF TypeOK
<1>2. /\ tasks' \in Seq(Task)
      /\ Len(tasks') = Len(tasks) - 1
      /\ \A n \in 1 .. Len(tasks) - 1 :
           tasks'[n] = IF n < i THEN tasks[n] ELSE tasks[n + 1]
  BY <1>1, RemoveAtFacts DEF TakeOut
<1>3. /\ DOMAIN tasks = 1 .. Len(tasks) /\ Len(tasks) \in Nat
      /\ DOMAIN tasks' = 1 .. Len(tasks) - 1
  BY <1>1, <1>2, LenProperties
<1>4. PICK m \in DOMAIN tasks : tasks[m].job = k
  BY DEF Queued
<1>5. m # i
  BY <1>4
<1>6. CASE m < i
  <2>1. m \in DOMAIN tasks' /\ tasks'[m] = tasks[m]
    BY <1>2, <1>3, <1>6
  <2>2. QED
    BY <1>4, <2>1 DEF Queued
<1>7. CASE m > i
  <2>1. m - 1 \in DOMAIN tasks' /\ tasks'[m - 1] = tasks[m]
    BY <1>2, <1>3, <1>7
  <2>2. QED
    BY <1>4, <2>1 DEF Queued
<1>8. QED
  BY <1>3, <1>5, <1>6, <1>7

\* A step that leaves the queue and the fibers alone, and no thread that holds
\* a job, loses nothing.
LEMMA HandsUntouched ==
  ASSUME NothingLost, UNCHANGED <<tasks, fiber>>,
         \A v \in Threads : pc[v] \in {"exec", "body"} =>
           cur'[v] = cur[v] /\ pc'[v] \in {"exec", "body"}
  PROVE  NothingLost'
BY DEF NothingLost, Queued, Held

LEMMA NothingLostStep == TypeOK /\ NothingLost /\ [Next]_vars => NothingLost'
<1> USE ConstantsAssumption
<1> SUFFICES ASSUME TypeOK, NothingLost, [Next]_vars PROVE NothingLost'
  OBVIOUS
<1>1. CASE UNCHANGED vars
  BY <1>1, HandsUntouched DEF vars
<1>2. ASSUME NEW t \in Threads, Take(t) PROVE NothingLost'
  <2>1. CASE UNCHANGED <<tasks, cur, active, owe, pc>>
    BY <1>2, <2>1, HandsUntouched DEF Take
  <2>2. ASSUME NEW i \in DOMAIN tasks, TakeOut(i),
               cur' = [cur EXCEPT ![t] = tasks[i].job], GoTo(t, "exec")
        PROVE  NothingLost'
    <3> SUFFICES ASSUME NEW j \in Jobs, fiber[j] \in {"READY", "RUNNING"}
                 PROVE  Queued(j)' \/ Held(j)'
      BY <1>2 DEF Take, NothingLost
    <3>1. pc[t] = "loop"
      BY <1>2 DEF Take, At
    <3>2. CASE tasks[i].job = j
      BY <2>2, <3>2 DEF Held, GoTo, TypeOK
    <3>3. CASE tasks[i].job # j
      <4>1. Queued(j) => Queued(j)'
        BY <2>2, <3>3, QueuedAfterTakeOut
      <4>2. Held(j) => Held(j)'
        BY <2>2, <3>1 DEF Held, GoTo, TypeOK
      <4>3. QED
        BY <4>1, <4>2 DEF NothingLost
    <3>4. QED
      BY <3>2, <3>3
  <2>3. QED
    BY <1>2, <2>1, <2>2 DEF Take
<1>3. ASSUME NEW t \in Threads, NEW j \in Jobs, NEW p \in Pins, Spawn(t, j, p)
      PROVE  NothingLost'
  <2>1. Queued(j)' /\ \A k \in Jobs : Queued(k) => Queued(k)'
    BY <1>3, QueuedAfterPush DEF Spawn
  <2>2. \A k \in Jobs : Held(k) => Held(k)'
    BY <1>3 DEF Spawn, Held
  <2>3. QED
    BY <1>3, <2>1, <2>2 DEF Spawn, NothingLost, TypeOK
<1>4. ASSUME NEW t \in Threads, Reschedule(t) PROVE NothingLost'
  <2>1. cur[t] \in Jobs
    BY <1>4 DEF Reschedule, At, TypeOK, Busy
  <2>2. \A k \in Jobs : Queued(k) => Queued(k)'
    BY <1>4, <2>1, QueuedAfterPush DEF Reschedule
  <2>3. \A k \in Jobs : Held(k) => Held(k)'
    BY <1>4 DEF Reschedule, Held
  <2>4. QED
    BY <1>4, <2>2, <2>3 DEF Reschedule, NothingLost
<1>5. ASSUME NEW j \in Jobs, NEW p \in Pins, Submit(j, p) PROVE NothingLost'
  <2>1. Queued(j)' /\ \A k \in Jobs : Queued(k) => Queued(k)'
    BY <1>5, QueuedAfterPush DEF Submit
  <2>2. \A k \in Jobs : Held(k) => Held(k)'
    BY <1>5 DEF Submit, Held
  <2>3. QED
    BY <1>5, <2>1, <2>2 DEF Submit, NothingLost, TypeOK
<1>6. ASSUME NEW t \in Threads, Resume(t) PROVE NothingLost'
  <2>1. \A k \in Jobs : Queued(k) => Queued(k)'
    BY <1>6 DEF Resume, Queued
  <2>2. \A k \in Jobs : Held(k) => Held(k)'
    BY <1>6 DEF Resume, Held, GoTo, TypeOK
  <2>3. \A k \in Jobs : fiber'[k] = fiber[k] \/ Held(k)
    BY <1>6 DEF Resume, Held, At, TypeOK
  <2>4. QED
    BY <2>1, <2>2, <2>3 DEF NothingLost
<1>7. ASSUME NEW t \in Threads, YieldReady(t), Queued(cur[t]) PROVE NothingLost'
  <2>1. \A k \in Jobs : Queued(k) => Queued(k)'
    BY <1>7 DEF YieldReady, Queued
  <2>2. \A k \in Jobs : k # cur[t] => (Held(k) => Held(k)')
    BY <1>7 DEF YieldReady, Held, GoTo, TypeOK
  <2>3. \A k \in Jobs : k # cur[t] => fiber'[k] = fiber[k]
    BY <1>7 DEF YieldReady, TypeOK
  <2>4. QED
    BY <1>7, <2>1, <2>2, <2>3 DEF NothingLost
<1>8. ASSUME NEW t \in Threads, Finish(t) PROVE NothingLost'
  <2>1. \A k \in Jobs : Queued(k) => Queued(k)'
    BY <1>8 DEF Finish, Queued
  <2>2. \A k \in Jobs : k # cur[t] => (Held(k) => Held(k)')
    BY <1>8 DEF Finish, Held, GoTo, TypeOK
  <2>3. \A k \in Jobs : fiber'[k] = IF k = cur[t] THEN "TERM" ELSE fiber[k]
    BY <1>8 DEF Finish, TypeOK
  <2>4. QED
    BY <2>1, <2>2, <2>3 DEF NothingLost
<1>9. ASSUME NEW t \in Threads, Tickle(t) \/ TakeNone(t) \/ YieldSwap(t)
                                 \/ IdleEnter(t) \/ Idle(t) \/ IdleLeave(t)
      PROVE  NothingLost'
  BY <1>9, HandsUntouched
     DEF Tickle, TakeNone, YieldSwap, IdleEnter, Idle, IdleLeave, At, GoTo, TypeOK
<1>10. ASSUME NEW t \in Threads, Return(t) PROVE NothingLost'
  BY <1>10, HandsUntouched DEF Return, At, GoTo, TypeOK
<1>11. CASE Start
  BY <1>11, HandsUntouched DEF Start, Threads, TypeOK
<1>12. CASE StopCall(Quiet)
  BY <1>12, HandsUntouched DEF StopCall
<1>13. CASE StopStep
  BY <1>13, HandsUntouched DEF StopStep, StopRoot, RootDone, Join, GoTo, TypeOK
<1>14. QED
  BY <1>1, <1>2, <1>3, <1>4, <1>5, <1>6, <1>7, <1>8, <1>9, <1>10, <1>11,
     <1>12, <1>13 DEF Next, RunStep, JobStep

\* No task is lost: neither by the scan, nor when a fiber that scheduled itself
\* is taken by another thread before it yields.
THEOREM NothingIsLost == Spec => []NothingLost
<1>1. Init => NothingLost
  BY DEF Init, NothingLost
<1>2. QED
  BY <1>1, NothingLostStep, Typing, PTL DEF Spec

(***************************************************************************)
(* m_activeThreadCount.                                                    *)
(***************************************************************************)
BusyThreads == {t \in Threads : Busy(t)}

LEMMA ThreadsFinite == IsFiniteSet(Threads)
BY ConstantsAssumption, FS_Singleton, FS_Union DEF Threads

\* A step leaves the set of busy threads and the counter alone, or adds one
\* thread to both (Take), or takes one off both (Return).
LEMMA BusyStep ==
  ASSUME TypeOK, [Next]_vars
  PROVE  \/ BusyThreads' = BusyThreads /\ active' = active
         \/ \E t \in Threads \ BusyThreads :
              BusyThreads' = BusyThreads \cup {t} /\ active' = active + 1
         \/ \E t \in BusyThreads :
              BusyThreads' = BusyThreads \ {t} /\ active' = active - 1
<1> DEFINE Goal ==
      \/ BusyThreads' = BusyThreads /\ active' = active
      \/ \E t \in Threads \ BusyThreads :
           BusyThreads' = BusyThreads \cup {t} /\ active' = active + 1
      \/ \E t \in BusyThreads :
           BusyThreads' = BusyThreads \ {t} /\ active' = active - 1
<1>1. CASE pc' = pc /\ active' = active
  BY <1>1 DEF BusyThreads, Busy
<1>2. ASSUME NEW t \in Threads, Take(t) PROVE Goal
  <2>1. CASE UNCHANGED <<active, pc>>
    BY <2>1, <1>1
  <2>2. CASE active' = active + 1 /\ GoTo(t, "exec")
    <3>1. t \in Threads \ BusyThreads
      BY <1>2 DEF Take, At, BusyThreads, Busy
    <3>2. BusyThreads' = BusyThreads \cup {t}
      BY <1>2, <2>2 DEF GoTo, BusyThreads, Busy, TypeOK
    <3>3. QED
      BY <2>2, <3>1, <3>2
  <2>3. QED
    BY <1>2, <2>1, <2>2 DEF Take
<1>3. ASSUME NEW t \in Threads, Return(t) PROVE Goal
  <2>1. t \in BusyThreads
    BY <1>3 DEF Return, At, BusyThreads, Busy
  <2>2. BusyThreads' = BusyThreads \ {t}
    BY <1>3 DEF Return, At, GoTo, BusyThreads, Busy, TypeOK
  <2>3. QED
    BY <1>3, <2>1, <2>2 DEF Return
<1>4. ASSUME NEW t \in Threads,
             Resume(t) \/ YieldReady(t) \/ YieldSwap(t) \/ Finish(t)
      PROVE  Goal
  BY <1>4 DEF Resume, YieldReady, YieldSwap, Finish, At, GoTo, BusyThreads,
              Busy, TypeOK
<1>5. ASSUME NEW t \in Threads,
             TakeNone(t) \/ IdleEnter(t) \/ Idle(t) \/ IdleLeave(t)
      PROVE  Goal
  BY <1>5 DEF TakeNone, IdleEnter, Idle, IdleLeave, At, GoTo, BusyThreads,
              Busy, TypeOK
<1>6. ASSUME NEW t \in Threads, JobStep(t) PROVE Goal
  BY <1>1, <1>4, <1>6 DEF JobStep, Spawn, Reschedule
<1>7. ASSUME NEW t \in Threads, Tickle(t) PROVE Goal
  BY <1>1, <1>7 DEF Tickle
<1>8. CASE Start
  BY <1>8 DEF Start, BusyThreads, Busy, TypeOK
<1>9. CASE StopStep \/ StopCall(Quiet)
  BY <1>9 DEF StopStep, StopRoot, RootDone, Join, StopCall, GoTo, BusyThreads,
              Busy, TypeOK
<1>10. CASE UNCHANGED vars \/ \E j \in Jobs, p \in Pins : Submit(j, p)
  BY <1>1, <1>10 DEF vars, Submit
<1>11. QED
  BY <1>2, <1>3, <1>4, <1>5, <1>6, <1>7, <1>8, <1>9, <1>10 DEF Next, RunStep

LEMMA InitActive == Init => ActiveExact
<1> SUFFICES ASSUME Init PROVE ActiveExact
  OBVIOUS
<1>1. {t \in Threads : Busy(t)} = {}
  BY DEF Init, Busy
<1>2. QED
  BY <1>1, FS_EmptySet DEF Init, ActiveExact

LEMMA ActiveStep == TypeOK /\ ActiveExact /\ [Next]_vars => ActiveExact'
<1> SUFFICES ASSUME TypeOK, ActiveExact, [Next]_vars PROVE ActiveExact'
  OBVIOUS
<1>1. IsFiniteSet(BusyThreads) /\ active = Cardinality(BusyThreads)
  BY ThreadsFinite, FS_Subset DEF BusyThreads, ActiveExact
<1>2. ASSUME NEW t \in Threads \ BusyThreads
      PROVE  Cardinality(BusyThreads \cup {t}) = Cardinality(BusyThreads) + 1
  BY <1>1, FS_AddElement
<1>3. ASSUME NEW t \in BusyThreads
      PROVE  Cardinality(BusyThreads \ {t}) = Cardinality(BusyThreads) - 1
  BY <1>1, FS_RemoveElement
<1>4. active' = Cardinality(BusyThreads')
  BY <1>1, <1>2, <1>3, BusyStep
<1>5. QED
  BY <1>4 DEF ActiveExact, BusyThreads

\* The counter that stopping() reads is the number of threads that execute a
\* task, whatever the number of threads.
THEOREM ActiveIsExact == Spec => []ActiveExact
BY InitActive, ActiveStep, Typing, PTL DEF Spec

(***************************************************************************)
(* stop() drains the queue.                                                *)
(***************************************************************************)
\* Until stop() the caller has not entered run(); when stop() joins the
\* workers it has left run(); when stop() returns, so has every worker.
OwnerInv ==
  /\ ctl = "user" => pc[Caller] = "off"
  /\ UseCaller /\ ctl \in {"join", "done"} => pc[Caller] = "exit"
  /\ ctl = "done" => \A w \in Workers : pc[w] \in {"off", "exit"}

\* A thread that has left run() never enters it again, and only Start and
\* StopRoot let a thread enter.
LEMMA OwnerStep == TypeOK /\ OwnerInv /\ [Next]_vars => OwnerInv'
<1> USE ConstantsAssumption DEF Threads
<1> SUFFICES ASSUME TypeOK, OwnerInv, [Next]_vars PROVE OwnerInv'
  OBVIOUS
<1>1. ASSUME ctl' = ctl,
             \A v \in Threads : pc[v] \in {"off", "exit"} => pc'[v] = pc[v]
      PROVE  OwnerInv'
  BY <1>1 DEF OwnerInv
<1>2. ASSUME NEW t \in Threads, RunStep(t) PROVE OwnerInv'
  BY <1>1, <1>2 DEF RunStep, Take, TakeNone, Resume, YieldSwap, Return,
     IdleEnter, Idle, IdleLeave, Tickle, At, GoTo, TypeOK
<1>3. ASSUME NEW t \in Threads, JobStep(t) PROVE OwnerInv'
  BY <1>1, <1>3 DEF JobStep, Spawn, Reschedule, YieldReady, Finish, At, GoTo,
     TypeOK
<1>4. CASE Start
  BY <1>4 DEF Start, OwnerInv
<1>5. CASE StopCall(Quiet)
  BY <1>5 DEF StopCall, OwnerInv
<1>6. CASE StopStep
  BY <1>6 DEF StopStep, StopRoot, RootDone, Join, GoTo, OwnerInv, TypeOK
<1>7. CASE UNCHANGED vars \/ \E j \in Jobs, p \in Pins : Submit(j, p)
  BY <1>1, <1>7 DEF vars, Submit
<1>8. QED
  BY <1>2, <1>3, <1>4, <1>5, <1>6, <1>7 DEF Next

FreeTask == \E i \in DOMAIN tasks : tasks[i].thread = AnyThread
Scanner == \E t \in Threads : WillScan(t)

\* m_tasks.erase(it) and the steps that leave the queue alone do not put a
\* task into it.
LEMMA FreeTaskTaken ==
  ASSUME TypeOK, NEW i \in DOMAIN tasks, TakeOut(i), FreeTask'
  PROVE  FreeTask
<1>1. tasks \in Seq(Task)
  BY DEF TypeOK
<1>2. /\ tasks' \in Seq(Task)
      /\ Len(tasks') = Len(tasks) - 1
      /\ \A n \in 1 .. Len(tasks) - 1 :
           tasks'[n] = IF n < i THEN tasks[n] ELSE tasks[n + 1]
  BY <1>1, RemoveAtFacts DEF TakeOut
<1>3. /\ DOMAIN tasks = 1 .. Len(tasks) /\ Len(tasks) \in Nat
      /\ DOMAIN tasks' = 1 .. Len(tasks) - 1
  BY <1>1, <1>2, LenProperties
<1>4. PICK m \in DOMAIN tasks' : tasks'[m].thread = AnyThread
  BY DEF FreeTask
<1>5. /\ m \in DOMAIN tasks /\ m + 1 \in DOMAIN tasks
      /\ tasks'[m] = tasks[m] \/ tasks'[m] = tasks[m + 1]
  BY <1>2, <1>3, <1>4
<1>6. QED
  BY <1>4, <1>5 DEF FreeTask

LEMMA ServedStep ==
  TypeOK /\ OwnerInv /\ QueueIsServed /\ [Next]_vars => QueueIsServed'
<1> USE ConstantsAssumption
<1> SUFFICES ASSUME TypeOK, OwnerInv, QueueIsServed, [Next]_vars,
                    UseCaller, FreeTask'
             PROVE  Scanner'
  BY DEF QueueIsServed, FreeTask, Scanner
<1>0. FreeTask => Scanner
  BY DEF QueueIsServed, FreeTask, Scanner
<1>1. ASSUME FreeTask, \A v \in Threads : WillScan(v) => WillScan(v)'
      PROVE  Scanner'
  BY <1>0, <1>1 DEF Scanner
<1>2. CASE UNCHANGED vars
  <2>1. FreeTask
    BY <1>2 DEF vars, FreeTask
  <2>2. QED
    BY <1>1, <1>2, <2>1 DEF vars, WillScan
<1>3. ASSUME NEW t \in Threads, Take(t) PROVE Scanner'
  <2>1. FreeTask
    BY <1>3, FreeTaskTaken DEF Take, FreeTask
  <2>2. \A v \in Threads : WillScan(v) => WillScan(v)'
    BY <1>3 DEF Take, At, GoTo, WillScan, TypeOK
  <2>3. QED
    BY <1>1, <2>1, <2>2
<1>4. ASSUME NEW t \in Threads, TakeNone(t) PROVE Scanner'
  <2>1. ~FreeTask'
    BY <1>4 DEF TakeNone, FreeTask, Eligible
  <2>2. QED
    BY <2>1
<1>5. ASSUME NEW t \in Threads, pc[t] = "body", pc' = pc PROVE Scanner'
  BY <1>5 DEF Scanner, WillScan
<1>6. ASSUME NEW t \in Threads, JobStep(t) PROVE Scanner'
  <2>1. CASE pc' = pc
    BY <1>5, <1>6, <2>1 DEF JobStep, Spawn, Reschedule, YieldReady, Finish, At
  <2>2. CASE YieldReady(t) \/ Finish(t)
    BY <2>2 DEF YieldReady, Finish, GoTo, Scanner, WillScan, TypeOK
  <2>3. QED
    BY <1>6, <2>1, <2>2 DEF JobStep, Spawn, Reschedule
<1>7. ASSUME NEW t \in Threads,
             Resume(t) \/ YieldSwap(t) \/ Return(t) \/ Tickle(t)
      PROVE  Scanner'
  <2>1. FreeTask
    BY <1>7 DEF Resume, YieldSwap, Return, Tickle, FreeTask
  <2>2. \A v \in Threads : WillScan(v) => WillScan(v)'
    BY <1>7 DEF Resume, YieldSwap, Return, Tickle, At, GoTo, WillScan, TypeOK
  <2>3. QED
    BY <1>1, <2>1, <2>2
<1>8. ASSUME NEW t \in Threads, IdleEnter(t) \/ Idle(t) \/ IdleLeave(t)
      PROVE  Scanner'
  <2>1. FreeTask
    BY <1>8 DEF IdleEnter, Idle, IdleLeave, FreeTask
  <2>2. \A v \in Threads : WillScan(v) => WillScan(v)'
    BY <1>8 DEF IdleEnter, Idle, IdleLeave, At, GoTo, WillScan, TypeOK
  <2>3. QED
    BY <1>1, <2>1, <2>2
<1>9. CASE Start
  <2>1. FreeTask
    BY <1>9 DEF Start, FreeTask
  <2>2. \A v \in Threads : WillScan(v) => WillScan(v)'
    BY <1>9 DEF Start, WillScan, TypeOK
  <2>3. QED
    BY <1>1, <2>1, <2>2
<1>10. ASSUME NEW j \in Jobs, NEW p \in Pins, Submit(j, p) PROVE Scanner'
  \* the caller has still to enter run()
  BY <1>10 DEF Submit, OwnerInv, Scanner, WillScan, Threads
<1>11. CASE StopCall(Quiet) \/ StopStep
  <2>1. FreeTask
    BY <1>11 DEF StopCall, StopStep, StopRoot, RootDone, Join, FreeTask
  <2>2. \A v \in Threads : WillScan(v) => WillScan(v)'
    BY <1>11 DEF StopCall, StopStep, StopRoot, RootDone, Join, GoTo, WillScan,
       TypeOK
  <2>3. QED
    BY <1>1, <2>1, <2>2
<1>12. QED
  BY <1>2, <1>3, <1>4, <1>6, <1>7, <1>8, <1>9, <1>10, <1>11 DEF Next, RunStep

LEMMA InitOwner == Init => OwnerInv /\ QueueIsServed
BY ConstantsAssumption DEF Init, OwnerInv, QueueIsServed, Threads

\* With use_caller, the queue never holds a task for any thread while no
\* thread will look at it again.
THEOREM QueueServed == Spec => []QueueIsServed
BY InitOwner, OwnerStep, ServedStep, Typing, PTL DEF Spec

\* All threads have left run(): nobody holds a job, and the queue has only what
\* none of them could take.
LEMMA DrainedWhenDone ==
  TypeOK /\ NothingLost /\ OwnerInv /\ QueueIsServed => StopDrains
<1> SUFFICES ASSUME TypeOK, NothingLost, OwnerInv, QueueIsServed,
                    UseCaller, ctl = "done",
                    NEW j \in Jobs, fiber[j] \in {"READY", "RUNNING"}
             PROVE  \E i \in DOMAIN tasks :
                      tasks[i].job = j /\ tasks[i].thread # AnyThread
  BY DEF StopDrains, TypeOK, FiberStates
<1>1. \A t \in Threads : pc[t] = "exit" \/ (t \in Workers /\ pc[t] = "off")
  <2>1. pc[Caller] = "exit"
    BY Zenon DEF OwnerInv
  <2>2. \A w \in Workers : pc[w] \in {"off", "exit"}
    BY DEF OwnerInv
  <2>3. QED
    BY <2>1, <2>2 DEF Threads
<1>2. \A t \in Threads : ~WillScan(t)
  BY <1>1, ConstantsAssumption DEF WillScan
<1>3. ~Held(j)
  BY <1>1 DEF Held
<1>4. PICK i \in DOMAIN tasks : tasks[i].job = j
  BY <1>3 DEF NothingLost, Queued
<1>5. QED
  BY <1>2, <1>4 DEF QueueIsServed

\* With use_caller, stop() returns only when every job that no thread was asked
\* for by name has ended: nothing is lost, the queue is served, and all threads
\* have left run().
THEOREM StopDrainsQueue == Spec => []StopDrains
BY DrainedWhenDone, InitOwner, OwnerStep, QueueServed, NothingIsLost, Typing, PTL
   DEF Spec

=============================================================================
