-------------------------- MODULE ThreadStartProofs --------------------------
(* Theorems about ThreadStart, for every value of its constants.             *)
EXTENDS ThreadStart, TaskPoolProofs

\* What start() and the threads it creates have to do with each other.
BirthInv ==
  /\ \A w \in Workers : birth[w] \in {"stored", "notified"} => id[w] = w
  /\ \A w \in Workers : pc[w] # "off" => birth[w] = "notified"
  /\ start = "before" => \A w \in Workers : birth[w] = "none"
  /\ start = "wait" => made \in Workers

\* While m_mutex is locked the owner is in start() and no worker has scanned.
LockInv ==
  /\ locked <=> start \in {"next", "wait", "threw"}
  /\ locked => /\ ctl = "user" /\ ~stopping
               /\ \A w \in Workers : pc[w] \in {"off", "loop"}

StartInv ==
  TypeOK /\ StartTypeOK /\ BirthInv /\ Handshake /\ IdsAreKnown /\ LockInv

(***************************************************************************)
(* The handshake.                                                          *)
(***************************************************************************)
\* When start() has waited, the thread it waited for has stored its id.
LEMMA AfterAwait ==
  ASSUME StartTypeOK, BirthInv, Handshake, Await
  PROVE  /\ made \in Workers /\ birth[made] = "notified" /\ ~Noted(made)
         /\ threadIds' = Append(threadIds, made)
         /\ \A w \in Workers : Noted(w)' <=> Noted(w) \/ w = made
<1>1. made \in Workers /\ start = "wait" /\ sem[made] > 0
  BY DEF Await, BirthInv
<1>2. birth[made] = "notified" /\ ~Noted(made)
  BY <1>1 DEF Handshake
<1>3. id[made] = made /\ threadIds' = Append(threadIds, made)
  BY <1>1, <1>2 DEF Await, BirthInv
<1>4. threadIds \in Seq(Workers \cup {NoId})
  BY DEF StartTypeOK
<1>5. /\ DOMAIN threadIds' = 1 .. Len(threadIds) + 1
      /\ threadIds'[Len(threadIds) + 1] = made
      /\ \A i \in 1 .. Len(threadIds) : threadIds'[i] = threadIds[i]
      /\ DOMAIN threadIds = 1 .. Len(threadIds) /\ Len(threadIds) \in Nat
  BY <1>1, <1>3, <1>4
<1>6. \A w \in Workers : Noted(w)' <=> Noted(w) \/ w = made
  BY <1>5 DEF Noted
<1>7. QED
  BY <1>1, <1>2, <1>3, <1>6

LEMMA StartTypeStep == StartTypeOK /\ BirthInv /\ [StartNext]_allVars => StartTypeOK'
<1> SUFFICES ASSUME StartTypeOK, BirthInv, [StartNext]_allVars PROVE StartTypeOK'
  OBVIOUS
<1> USE DEF StartTypeOK
<1>1. CASE StartStep
  <2>1. CASE Begin
    BY <2>1 DEF Begin
  <2>2. CASE Create
    BY <2>2 DEF Create
  <2>3. CASE CreateFails
    BY <2>3 DEF CreateFails
  <2>4. CASE Await
    <3>1. made \in Workers
      BY <2>4 DEF Await, BirthInv
    <3>2. sem' \in [Workers -> Nat]
      BY <2>4, <3>1 DEF Await
    <3>3. threadIds' \in Seq(Workers \cup {NoId})
      BY <2>4, <3>1 DEF Await
    <3>4. QED
      BY <2>4, <3>2, <3>3 DEF Await
  <2>5. CASE Unlock
    BY <2>5 DEF Unlock
  <2>6. QED
    BY <1>1, <2>1, <2>2, <2>3, <2>4, <2>5 DEF StartStep
<1>2. ASSUME NEW w \in Workers, BirthStep(w) PROVE StartTypeOK'
  <2>1. CASE StoreId(w)
    BY <2>1 DEF StoreId
  <2>2. CASE Notify(w)
    BY <2>2 DEF Notify
  <2>3. CASE EnterRun(w)
    BY <2>3 DEF EnterRun, startVars
  <2>4. QED
    BY <1>2, <2>1, <2>2, <2>3 DEF BirthStep
<1>3. CASE UNCHANGED startVars
  BY <1>3 DEF startVars
<1>4. QED
  BY <1>1, <1>2, <1>3 DEF StartNext, allVars, ThreadStep, StopThreads

\* Outside start() and the birth of its threads, nothing of the handshake moves.
LEMMA HandshakeStep ==
  ASSUME StartTypeOK, BirthInv, Handshake, IdsAreKnown, [StartNext]_allVars
  PROVE  Handshake' /\ IdsAreKnown'
<1> DEFINE Goal == Handshake' /\ IdsAreKnown'
<1>1. /\ UNCHANGED <<threadIds, birth, sem, made>>
      /\ start' = start \/ (start' # "done" /\ start # "wait" /\ start' # "wait")
      => Goal
  BY DEF Handshake, IdsAreKnown, Noted
<1>2. CASE Begin \/ CreateFails
  BY <1>1, <1>2 DEF Begin, CreateFails
<1>3. CASE Create
  <2>1. PICK w \in Workers : /\ birth[w] = "none"
                             /\ birth' = [birth EXCEPT ![w] = "created"]
                             /\ made' = w
    BY <1>3 DEF Create
  <2>2. UNCHANGED <<threadIds, sem>> /\ start' = "wait" /\ start = "next"
    BY <1>3 DEF Create
  <2>3. \A v \in Workers : Noted(v)' <=> Noted(v)
    BY <2>2 DEF Noted
  <2>4. Handshake'
    BY <2>1, <2>2, <2>3 DEF Handshake, StartTypeOK
  <2>5. QED
    BY <2>2, <2>4 DEF IdsAreKnown
<1>4. CASE Await
  <2>1. /\ made \in Workers /\ birth[made] = "notified" /\ ~Noted(made)
        /\ threadIds' = Append(threadIds, made)
        /\ \A w \in Workers : Noted(w)' <=> Noted(w) \/ w = made
    BY <1>4, AfterAwait
  <2>2. /\ UNCHANGED <<birth, made>> /\ start = "wait" /\ start' = "next"
        /\ sem' = [sem EXCEPT ![made] = @ - 1]
    BY <1>4 DEF Await
  <2>3. Handshake'
    BY <2>1, <2>2 DEF Handshake, StartTypeOK
  <2>4. threadIds \in Seq(Workers \cup {NoId})
    BY DEF StartTypeOK
  <2>5. /\ DOMAIN threadIds' = 1 .. Len(threadIds) + 1
        /\ threadIds'[Len(threadIds) + 1] = made
        /\ \A i \in 1 .. Len(threadIds) : threadIds'[i] = threadIds[i]
        /\ DOMAIN threadIds = 1 .. Len(threadIds) /\ Len(threadIds) \in Nat
    BY <2>1, <2>4
  <2>6. \A i \in 1 .. Len(threadIds) : threadIds[i] # made
    BY <2>1, <2>5 DEF Noted
  <2>7. \A i, k \in DOMAIN threadIds' : threadIds'[i] = threadIds'[k] => i = k
    BY <2>5, <2>6 DEF IdsAreKnown
  <2>8. \A i \in DOMAIN threadIds' : threadIds'[i] \in Workers
    BY <2>1, <2>5 DEF IdsAreKnown
  <2>9. QED
    BY <2>2, <2>3, <2>7, <2>8 DEF IdsAreKnown
<1>5. CASE Unlock
  BY <1>5 DEF Unlock, Handshake, IdsAreKnown, Noted
<1>6. ASSUME NEW w \in Workers, BirthStep(w) PROVE Goal
  <2>1. UNCHANGED <<threadIds, start, made>>
    BY <1>6 DEF BirthStep, StoreId, Notify, EnterRun, startVars
  <2>2. \A v \in Workers : Noted(v)' <=> Noted(v)
    BY <2>1 DEF Noted
  <2>3. Handshake'
    BY <1>6, <2>1, <2>2
       DEF BirthStep, StoreId, Notify, EnterRun, startVars, Handshake, StartTypeOK
  <2>4. QED
    BY <2>1, <2>2, <2>3 DEF IdsAreKnown
<1>7. CASE UNCHANGED startVars
  <2>1. UNCHANGED <<threadIds, birth, sem, made>> /\ start' = start
    BY <1>7 DEF startVars
  <2>2. QED
    BY <1>1, <2>1
<1>8. QED
  BY <1>2, <1>3, <1>4, <1>5, <1>6, <1>7
     DEF StartNext, allVars, StartStep, ThreadStep, StopThreads

(***************************************************************************)
(* The invariant.                                                          *)
(***************************************************************************)
\* A thread that takes a step has entered run(), and does not leave it for "off".
LEMMA Moves ==
  ASSUME NEW t \in Threads, RunStep(t) \/ JobStep(t)
  PROVE  \/ UNCHANGED pc
         \/ pc[t] # "off" /\ \E l \in Places \ {"off"} : pc' = [pc EXCEPT ![t] = l]
<1>1. CASE RunStep(t)
  BY <1>1 DEF RunStep, Take, TakeNone, Resume, YieldSwap, Return, IdleEnter, Idle,
              IdleLeave, Tickle, At, GoTo, Places
<1>2. CASE JobStep(t)
  BY <1>2 DEF JobStep, Spawn, Reschedule, YieldReady, Finish, At, GoTo, Places
<1>3. QED
  BY <1>1, <1>2

LEMMA StartTyping ==
  ASSUME TypeOK, [StartNext]_allVars
  PROVE  TypeOK'
<1>1. CASE UNCHANGED vars
  BY <1>1, NextType
<1>2. CASE Next
  BY <1>2, NextType
<1>3. ASSUME NEW w \in Workers, EnterRun(w) PROVE TypeOK'
  <2>1. pc' = [pc EXCEPT ![w] = "loop"] /\ pc[w] = "off" /\ w \in Threads
    BY <1>3 DEF EnterRun, GoTo, Threads
  <2>2. UNCHANGED <<tasks, stopping, active, idleCount, fiber, cur, idleFiber,
                    owe, ctl, fault>>
    BY <1>3 DEF EnterRun
  <2>3. pc' \in [Threads -> Places]
    BY <2>1 DEF TypeOK, Places
  <2>4. \A t \in Threads : Busy(t)' <=> Busy(t)
    BY <2>1 DEF TypeOK, Busy
  <2>5. QED
    BY <2>2, <2>3, <2>4 DEF TypeOK
<1>4. ASSUME NEW w \in Workers, BirthStep(w) PROVE TypeOK'
  BY <1>1, <1>3, <1>4 DEF BirthStep, StoreId, Notify
<1>5. CASE StartStep
  BY <1>1, <1>5 DEF StartStep, Begin, Create, CreateFails, Await, Unlock
<1>6. ASSUME StartNext, NEW t \in Threads, ThreadStep(t) PROVE TypeOK'
  BY <1>2, <1>6 DEF StartNext, ThreadStep, Next
<1>7. CASE StartNext /\ StopThreads
  BY <1>2, <1>7 DEF StartNext, StopThreads, JoinThreads, StopStep, Next
<1>8. CASE StartNext /\ (StopCall(Quiet) \/ \E j \in Jobs, p \in Pins : Submit(j, p))
  BY <1>2, <1>8 DEF StartNext, Next
<1>9. CASE UNCHANGED allVars
  BY <1>1, <1>9 DEF allVars
<1>10. QED
  BY <1>4, <1>5, <1>6, <1>7, <1>8, <1>9 DEF StartNext

LEMMA BirthInvStep ==
  ASSUME StartInv, [StartNext]_allVars
  PROVE  BirthInv' /\ LockInv'
<1> DEFINE Goal == BirthInv' /\ LockInv'
<1> USE DEF StartInv
<1>1. Caller \notin Workers /\ Workers \subseteq Threads
  BY ConstantsAssumption DEF Threads
<1>2. CASE StartStep
  <2>1. CASE Begin
    <3>1. \A w \in Workers : birth[w] = "none" /\ pc[w] = "off"
      BY <2>1 DEF Begin, BirthInv
    <3>2. QED
      BY <2>1, <3>1 DEF Begin, BirthInv, LockInv, vars
  <2>2. CASE Create
    BY <2>2 DEF Create, BirthInv, LockInv, StartTypeOK, vars
  <2>3. CASE CreateFails
    BY <2>3 DEF CreateFails, BirthInv, LockInv, vars
  <2>4. CASE Await
    BY <2>4 DEF Await, BirthInv, LockInv, vars
  <2>5. CASE Unlock
    BY <2>5 DEF Unlock, BirthInv, LockInv, vars
  <2>6. QED
    BY <1>2, <2>1, <2>2, <2>3, <2>4, <2>5 DEF StartStep
<1>3. ASSUME NEW w \in Workers, BirthStep(w) PROVE Goal
  <2>1. CASE StoreId(w)
    BY <2>1 DEF StoreId, BirthInv, LockInv, StartTypeOK, vars
  <2>2. CASE Notify(w)
    BY <2>2 DEF Notify, BirthInv, LockInv, StartTypeOK, vars
  <2>3. CASE EnterRun(w)
    BY <2>3, <1>1 DEF EnterRun, GoTo, BirthInv, LockInv, TypeOK, startVars
  <2>4. QED
    BY <1>3, <2>1, <2>2, <2>3 DEF BirthStep
<1>4. ASSUME NEW t \in Threads, ThreadStep(t) PROVE Goal
  <2>1. ~locked /\ UNCHANGED startVars
    BY <1>4 DEF ThreadStep
  <2>2. \A w \in Workers : pc'[w] # "off" => pc[w] # "off"
    <3>1. \/ UNCHANGED pc
          \/ pc[t] # "off" /\ \E l \in Places \ {"off"} : pc' = [pc EXCEPT ![t] = l]
      BY <1>4, Moves DEF ThreadStep
    <3>2. QED
      BY <3>1, <1>1 DEF TypeOK
  <2>3. QED
    BY <2>1, <2>2 DEF BirthInv, LockInv, startVars
<1>5. CASE StopThreads
  <2>1. UNCHANGED startVars /\ ~locked
    BY <1>5 DEF StopThreads, StopRoot, RootDone, JoinThreads, Join, LockInv
  <2>2. \A w \in Workers : pc'[w] = pc[w]
    BY <1>5, <1>1 DEF StopThreads, StopRoot, RootDone, JoinThreads, Join, GoTo, TypeOK
  <2>3. QED
    BY <2>1, <2>2 DEF BirthInv, LockInv, startVars
<1>6. ASSUME Free, UNCHANGED startVars,
             StopCall(Quiet) \/ \E j \in Jobs, p \in Pins : Submit(j, p)
      PROVE  Goal
  <2>1. UNCHANGED pc /\ ~locked
    BY <1>6 DEF Free, StopCall, Submit
  <2>2. QED
    BY <1>6, <2>1 DEF BirthInv, LockInv, startVars
<1>7. CASE UNCHANGED allVars
  BY <1>7 DEF allVars, vars, startVars, BirthInv, LockInv
<1>8. QED
  BY <1>2, <1>3, <1>4, <1>5, <1>6, <1>7 DEF StartNext

LEMMA StartInvariance == StartSpec => []StartInv
<1>1. StartInit => StartInv
  <2> SUFFICES ASSUME StartInit PROVE StartInv
    OBVIOUS
  <2>1. TypeOK
    BY InitType DEF StartInit
  <2>2. \A w \in Workers : pc[w] = "off" /\ birth[w] = "none"
    BY DEF StartInit, Init, Threads
  <2>3. StartTypeOK
    <3>1. threadIds \in Seq(Workers \cup {NoId})
      BY DEF StartInit
    <3>2. QED
      BY <3>1 DEF StartInit, StartTypeOK
  <2>4. BirthInv /\ LockInv
    BY <2>2 DEF StartInit, BirthInv, LockInv
  <2>5. Handshake /\ IdsAreKnown
    BY DEF StartInit, Handshake, IdsAreKnown, Noted
  <2>6. QED
    BY <2>1, <2>3, <2>4, <2>5 DEF StartInv
<1>2. StartInv /\ [StartNext]_allVars => StartInv'
  BY StartTyping, StartTypeStep, HandshakeStep, BirthInvStep DEF StartInv
<1>3. QED
  BY <1>1, <1>2, PTL DEF StartSpec

\* start() notes the ids of its threads and no others, each of them once.
THEOREM IdsKnown == StartSpec => []IdsAreKnown
<1>1. StartInv => IdsAreKnown
  BY DEF StartInv
<1>2. QED
  BY <1>1, StartInvariance, PTL

\* Every semaphore is posted once and consumed once.
THEOREM HandshakeHolds == StartSpec => []Handshake
<1>1. StartInv => Handshake
  BY DEF StartInv
<1>2. QED
  BY <1>1, StartInvariance, PTL

(***************************************************************************)
(* The refinement: to Scheduler, start() is one step.                      *)
(***************************************************************************)
\* While the scheduler can be called, a thread is where Scheduler sees it, or
\* was created and has not come to its first scan.
LEMMA Seen ==
  ASSUME StartInv, ~locked, start # "threw"
  PROVE  /\ start \in {"before", "done"}
         /\ \A t \in Threads : \/ startedPc[t] = pc[t]
                               \/ pc[t] = "off" /\ startedPc[t] = "loop" /\ t \in Workers
         /\ \A t \in Threads : pc[t] # "off" => startedPc[t] = pc[t]
         /\ startedPc[Caller] = pc[Caller]
<1> USE ConstantsAssumption DEF Threads
<1>1. start \in {"before", "done"}
  BY DEF StartInv, StartTypeOK, LockInv
<1>2. start = "before" => \A w \in Workers : pc[w] = "off"
  BY DEF StartInv, BirthInv
<1>3. QED
  BY <1>1, <1>2 DEF startedPc

LEMMA SeenMove ==
  ASSUME StartInv, ~locked, start' = start, NEW t \in Threads, NEW l \in Places \ {"off"},
         pc[t] # "off" \/ t \notin Workers,
         pc' = [pc EXCEPT ![t] = l]
  PROVE  startedPc' = [startedPc EXCEPT ![t] = l]
<1>1. start \in {"before", "done", "threw"} /\ pc \in [Threads -> Places]
  BY DEF StartInv, StartTypeOK, LockInv, TypeOK
<1>2. t \in Workers => start = "done"
  BY <1>1 DEF StartInv, BirthInv, LockInv
<1>3. \A v \in Threads : startedPc'[v] = IF v = t THEN l ELSE startedPc[v]
  BY <1>1, <1>2 DEF startedPc
<1>4. QED
  BY <1>3 DEF startedPc

LEMMA SeenStay ==
  ASSUME start' = start, UNCHANGED pc
  PROVE  startedPc' = startedPc
BY DEF startedPc

\* A step of a thread is the step that Scheduler sees.
LEMMA SeenRunStep ==
  ASSUME StartInv, ~locked, start' = start, NEW t \in Threads, RunStep(t)
  PROVE  Begun!RunStep(t)
<1> start # "threw"
  BY DEF StartInv, LockInv
<1> DEFINE Moved(l) == pc[t] # "off" /\ pc' = [pc EXCEPT ![t] = l]
<1>1. pc[t] # "off" => startedPc[t] = pc[t]
  BY Seen
<1>2. ASSUME NEW l \in Places \ {"off"}, Moved(l)
      PROVE  startedPc' = [startedPc EXCEPT ![t] = l]
  BY <1>2, SeenMove
<1> HIDE DEF Moved
<1>3. CASE Take(t)
  <2>1. UNCHANGED pc \/ Moved("exec")
    BY <1>3 DEF Take, At, GoTo, Moved
  <2>2. UNCHANGED pc => startedPc' = startedPc
    BY SeenStay
  <2>3. Moved("exec") => startedPc' = [startedPc EXCEPT ![t] = "exec"]
    BY <1>2 DEF Places
  <2>4. PICK i \in DOMAIN tasks :
          /\ FirstEligible(t, i)
          /\ IF fiber[tasks[i].job] = "READY"
             THEN /\ TakeOut(i)
                  /\ cur' = [cur EXCEPT ![t] = tasks[i].job]
                  /\ active' = active + 1
                  /\ owe' = [owe EXCEPT ![t] = 1]
                  /\ GoTo(t, "exec")
                  /\ UNCHANGED fault
             ELSE /\ fault' = "assert_ready"
                  /\ UNCHANGED <<tasks, cur, active, owe, pc>>
    BY <1>3 DEF Take
  <2>5. Begun!FirstEligible(t, i) /\ (TakeOut(i) => Begun!TakeOut(i))
    BY <2>4 DEF FirstEligible, Begun!FirstEligible, Eligible, Begun!Eligible,
                TakeOut, Begun!TakeOut, RemoveAt, Begun!RemoveAt
  <2>6. GoTo(t, "exec") => Begun!GoTo(t, "exec")
    BY <1>3, <2>3 DEF Take, At, GoTo, Begun!GoTo, Moved
  <2>7. Begun!At(t, "loop")
    BY <1>1, <1>3 DEF Take, At, Begun!At
  <2>8. Begun!Take(t)
    BY <1>3, <2>2, <2>4, <2>5, <2>6, <2>7 DEF Take, Begun!Take
  <2>9. QED
    BY <2>8 DEF Begun!RunStep
<1>4. CASE TakeNone(t)
  <2>1. Moved("idle")
    BY <1>4 DEF TakeNone, At, GoTo, Moved
  <2>2. startedPc' = [startedPc EXCEPT ![t] = "idle"]
    BY <1>2, <2>1 DEF Places
  <2>3. Begun!TakeNone(t)
    BY <1>1, <1>4, <2>2 DEF TakeNone, Begun!TakeNone, At, Begun!At, Begun!GoTo,
                            Eligible, Begun!Eligible
  <2>4. QED
    BY <2>3 DEF Begun!RunStep
<1>5. CASE Resume(t)
  <2>1. UNCHANGED pc \/ Moved("body")
    BY <1>5 DEF Resume, At, GoTo, Moved
  <2>2. UNCHANGED pc => startedPc' = startedPc
    BY SeenStay
  <2>3. Moved("body") => startedPc' = [startedPc EXCEPT ![t] = "body"]
    BY <1>2 DEF Places
  <2>4. \A v \in Threads : startedPc[v] = "swap" <=> pc[v] = "swap"
    BY Seen
  <2>5. Begun!Resume(t)
    BY <1>1, <1>5, <2>2, <2>3, <2>4
       DEF Resume, Begun!Resume, At, Begun!At, GoTo, Begun!GoTo, Moved,
           Threads, Begun!Threads
  <2>6. QED
    BY <2>5 DEF Begun!RunStep
<1>6. CASE YieldSwap(t)
  <2>1. Moved("ret")
    BY <1>6 DEF YieldSwap, At, GoTo, Moved
  <2>2. startedPc' = [startedPc EXCEPT ![t] = "ret"]
    BY <1>2, <2>1 DEF Places
  <2>3. Begun!YieldSwap(t)
    BY <1>1, <1>6, <2>2 DEF YieldSwap, Begun!YieldSwap, At, Begun!At, Begun!GoTo
  <2>4. QED
    BY <2>3 DEF Begun!RunStep
<1>7. CASE Return(t) \/ IdleLeave(t)
  <2>1. Moved("loop")
    BY <1>7 DEF Return, IdleLeave, At, GoTo, Moved
  <2>2. startedPc' = [startedPc EXCEPT ![t] = "loop"]
    BY <1>2, <2>1 DEF Places
  <2>3. Begun!Return(t) \/ Begun!IdleLeave(t)
    BY <1>1, <1>7, <2>2 DEF Return, IdleLeave, Begun!Return, Begun!IdleLeave, At,
                            Begun!At, Begun!GoTo
  <2>4. QED
    BY <2>3 DEF Begun!RunStep
<1>8. CASE IdleEnter(t)
  <2>1. Moved("exit") \/ Moved("inIdle")
    BY <1>8 DEF IdleEnter, At, GoTo, Moved
  <2>2. /\ Moved("exit") => startedPc' = [startedPc EXCEPT ![t] = "exit"]
        /\ Moved("inIdle") => startedPc' = [startedPc EXCEPT ![t] = "inIdle"]
    BY <1>2 DEF Places
  <2>3. Begun!IdleEnter(t)
    BY <1>1, <1>8, <2>2 DEF IdleEnter, Begun!IdleEnter, At, Begun!At, GoTo,
                            Begun!GoTo, Moved
  <2>4. QED
    BY <2>3 DEF Begun!RunStep
<1>9. CASE Idle(t)
  <2>1. Moved("outIdle")
    BY <1>9 DEF Idle, At, GoTo, Moved
  <2>2. startedPc' = [startedPc EXCEPT ![t] = "outIdle"]
    BY <1>2, <2>1 DEF Places
  <2>3. Begun!Idle(t)
    BY <1>1, <1>9, <2>2 DEF Idle, Begun!Idle, At, Begun!At, Begun!GoTo
  <2>4. QED
    BY <2>3 DEF Begun!RunStep
<1>10. CASE Tickle(t)
  <2>1. startedPc' = startedPc
    BY <1>10, SeenStay DEF Tickle
  <2>2. Begun!Tickle(t)
    BY <1>10, <2>1 DEF Tickle, Begun!Tickle
  <2>3. QED
    BY <2>2 DEF Begun!RunStep
<1>11. QED
  BY <1>3, <1>4, <1>5, <1>6, <1>7, <1>8, <1>9, <1>10 DEF RunStep

LEMMA SeenJobStep ==
  ASSUME StartInv, ~locked, start' = start, NEW t \in Threads, JobStep(t)
  PROVE  Begun!JobStep(t)
<1> start # "threw"
  BY DEF StartInv, LockInv
<1>1. pc[t] # "off" => startedPc[t] = pc[t]
  BY Seen
<1>2. ASSUME NEW l \in Places \ {"off"}, pc[t] # "off", pc' = [pc EXCEPT ![t] = l]
      PROVE  startedPc' = [startedPc EXCEPT ![t] = l]
  BY <1>2, SeenMove
<1> USE DEF At, Begun!At, Push, Begun!Push, Queued, Begun!Queued
<1>3. ASSUME NEW j \in Jobs, NEW p \in Pins, Spawn(t, j, p) PROVE Begun!JobStep(t)
  <2>1. startedPc' = startedPc
    BY <1>3, SeenStay DEF Spawn
  <2>2. Begun!Spawn(t, j, p)
    BY <1>1, <1>3, <2>1 DEF Spawn, Begun!Spawn
  <2>3. QED
    BY <2>2 DEF Begun!JobStep
<1>4. CASE Reschedule(t)
  <2>1. startedPc' = startedPc
    BY <1>4, SeenStay DEF Reschedule
  <2>2. Begun!Reschedule(t)
    BY <1>1, <1>4, <2>1 DEF Reschedule, Begun!Reschedule
  <2>3. QED
    BY <2>2 DEF Begun!JobStep
<1>5. CASE Queued(cur[t]) /\ YieldReady(t)
  <2>1. startedPc' = [startedPc EXCEPT ![t] = "swap"]
    BY <1>2, <1>5 DEF YieldReady, GoTo, Places
  <2>2. Begun!Queued(cur[t]) /\ Begun!YieldReady(t)
    BY <1>1, <1>5, <2>1 DEF YieldReady, Begun!YieldReady, Begun!GoTo
  <2>3. QED
    BY <2>2 DEF Begun!JobStep
<1>6. CASE ~Queued(cur[t]) /\ Finish(t)
  <2>1. startedPc' = [startedPc EXCEPT ![t] = "ret"]
    BY <1>2, <1>6 DEF Finish, GoTo, Places
  <2>2. ~Begun!Queued(cur[t]) /\ Begun!Finish(t)
    BY <1>1, <1>6, <2>1 DEF Finish, Begun!Finish, Begun!GoTo
  <2>3. QED
    BY <2>2 DEF Begun!JobStep
<1>7. QED
  BY <1>3, <1>4, <1>5, <1>6 DEF JobStep

\* The steps of the owner, other than those of start().
LEMMA SeenOwnerStep ==
  ASSUME StartInv, ~locked, start' = start
  PROVE  /\ StopCall(Quiet) => Begun!StopCall(Begun!Quiet)
         /\ \A j \in Jobs, p \in Pins : Submit(j, p) => Begun!Submit(j, p)
         /\ StopRoot \/ RootDone \/ JoinThreads => Begun!StopStep
<1> start # "threw"
  BY DEF StartInv, LockInv
<1>1. StopCall(Quiet) => Begun!StopCall(Begun!Quiet)
  <2>1. Begun!Cardinality(Runners) = Cardinality(Runners)
    BY DEF Cardinality, Begun!Cardinality
  <2>2. Begun!Runners = Runners /\ (Begun!Quiet <=> Quiet)
    BY DEF Runners, Begun!Runners, Quiet, Begun!Quiet
  <2>3. QED
    BY <2>1, <2>2, SeenStay DEF StopCall, Begun!StopCall
<1>2. \A j \in Jobs, p \in Pins : Submit(j, p) => Begun!Submit(j, p)
  BY SeenStay DEF Submit, Begun!Submit, Push, Begun!Push
<1>3. ASSUME StopRoot PROVE Begun!StopStep
  <2>1. startedPc[Caller] = pc[Caller] /\ Caller \in Threads \ Workers
    BY Seen, ConstantsAssumption DEF Threads
  <2>2. UNCHANGED pc => startedPc' = startedPc
    BY SeenStay
  <2>3. pc' = [pc EXCEPT ![Caller] = "loop"]
          => startedPc' = [startedPc EXCEPT ![Caller] = "loop"]
    BY <2>1, SeenMove DEF Places
  <2>4. Begun!StopRoot
    BY <1>3, <2>1, <2>2, <2>3 DEF StopRoot, Begun!StopRoot, GoTo, Begun!GoTo
  <2>5. QED
    BY <2>4 DEF Begun!StopStep
<1>4. ASSUME RootDone PROVE Begun!StopStep
  <2>1. startedPc[Caller] = pc[Caller] /\ startedPc' = startedPc
    BY <1>4, Seen, SeenStay DEF RootDone
  <2>2. QED
    BY <1>4, <2>1 DEF RootDone, Begun!RootDone, Begun!StopStep
<1>5. ASSUME JoinThreads PROVE Begun!StopStep
  <2>1. startedPc' = startedPc
    BY <1>5, SeenStay DEF JoinThreads, Join
  <2>2. \A w \in Workers : startedPc[w] \in {"off", "exit"}
    <3>1. start = "done" => \A w \in Workers : birth[w] # "none"
      BY DEF StartInv, IdsAreKnown, Handshake
    <3>2. start = "done" => \A w \in Workers : pc[w] = "exit"
      BY <1>5, <3>1 DEF JoinThreads
    <3>3. QED
      BY <3>2 DEF startedPc, Threads
  <2>3. QED
    BY <1>5, <2>1, <2>2 DEF JoinThreads, Join, Begun!Join, Begun!StopStep
<1>6. QED
  BY <1>1, <1>2, <1>3, <1>4, <1>5

\* The return of start() is the step in which all workers start.
LEMMA UnlockIsStart ==
  ASSUME StartInv, Unlock
  PROVE  Begun!Start
<1>1. start = "next" /\ start' = "done" /\ UNCHANGED vars
  BY DEF Unlock
<1>2. ctl = "user" /\ ~stopping /\ \A w \in Workers : pc[w] \in {"off", "loop"}
  BY <1>1 DEF StartInv, LockInv
<1>3. \A w \in Workers : startedPc[w] = "off"
  BY <1>1 DEF startedPc, Threads
<1>4. startedPc' = [t \in Threads |-> IF t \in Workers THEN "loop" ELSE startedPc[t]]
  BY <1>1, <1>2 DEF startedPc, vars
<1>5. QED
  BY <1>1, <1>2, <1>3, <1>4 DEF Begun!Start, Begun!Threads, Threads, vars

LEMMA SeenStep ==
  ASSUME StartInv, [StartNext]_allVars
  PROVE  Begun!Next \/ UNCHANGED Begun!vars
<1> DEFINE Goal == Begun!Next \/ UNCHANGED Begun!vars
<1>1. UNCHANGED <<vars, startedPc>> => UNCHANGED Begun!vars
  BY DEF vars, Begun!vars
<1>2. CASE StartStep /\ fault = "none"
  <2>1. CASE Unlock
    BY <1>2, <2>1, UnlockIsStart DEF Begun!Next
  <2>2. CASE Begin \/ Create \/ CreateFails \/ Await
    <3>1. UNCHANGED vars /\ start # "done" /\ start' # "done"
      BY <2>2 DEF Begin, Create, CreateFails, Await
    <3>2. startedPc' = startedPc
      BY <3>1 DEF startedPc, vars
    <3>3. QED
      BY <1>1, <3>1, <3>2
  <2>3. QED
    BY <1>2, <2>1, <2>2 DEF StartStep
<1>3. ASSUME NEW w \in Workers, BirthStep(w) PROVE Goal
  <2>1. CASE StoreId(w) \/ Notify(w)
    BY <1>1, <2>1, SeenStay DEF StoreId, Notify, vars
  <2>2. CASE EnterRun(w)
    <3>1. startedPc' = startedPc
      BY <2>2 DEF EnterRun, GoTo, startedPc, startVars, StartInv, TypeOK
    <3>2. QED
      BY <2>2, <3>1 DEF EnterRun, Begun!vars
  <2>3. QED
    BY <1>3, <2>1, <2>2 DEF BirthStep
<1>4. ASSUME NEW t \in Threads, ThreadStep(t), fault = "none" PROVE Goal
  BY <1>4, SeenRunStep, SeenJobStep DEF ThreadStep, startVars, Begun!Next,
     Threads, Begun!Threads
<1>5. CASE fault = "none" /\ StopThreads
  <2>1. ~locked /\ start' = start
    BY <1>5 DEF StopThreads, StopRoot, RootDone, JoinThreads, Join, StartInv,
                LockInv, startVars
  <2>2. QED
    BY <1>5, <2>1, SeenOwnerStep DEF StopThreads, Begun!Next
<1>6. ASSUME Free, UNCHANGED startVars, fault = "none",
             StopCall(Quiet) \/ \E j \in Jobs, p \in Pins : Submit(j, p)
      PROVE  Goal
  BY <1>6, SeenOwnerStep DEF Free, startVars, Begun!Next
<1>7. CASE UNCHANGED allVars
  BY <1>1, <1>7, SeenStay DEF allVars, vars, startVars
<1>8. QED
  BY <1>2, <1>3, <1>4, <1>5, <1>6, <1>7 DEF StartNext

\* To Scheduler, start() is one step: m_mutex keeps every thread from its first
\* scan until all threads exist, and for ever if one cannot be created.
THEOREM StartIsAtomic == StartSpec => StartsAtOnce
<1>1. StartInit => Begun!Init
  <2>1. StartInit => startedPc = [t \in Threads |-> "off"]
    BY DEF StartInit, Init, startedPc
  <2>2. QED
    BY <2>1 DEF StartInit, Init, Begun!Init, Threads, Begun!Threads
<1>2. StartInv /\ [StartNext]_allVars => [Begun!Next]_Begun!vars
  BY SeenStep
<1>3. QED
  BY <1>1, <1>2, StartInvariance, PTL DEF StartSpec, StartsAtOnce, Begun!Spec

(***************************************************************************)
(* The pool whose threads start one by one keeps what Scheduler promises.  *)
(***************************************************************************)
\* Once stop() has joined the threads that exist, no thread is left that could
\* still enter run().
Joined == ctl = "done" => \A w \in Workers : birth[w] = "none" \/ pc[w] = "exit"

\* What a step does to the scheduler: nothing, a step of Scheduler, or it lets
\* a new thread enter run().
LEMMA StepKinds ==
  ASSUME [StartNext]_allVars
  PROVE  \/ UNCHANGED vars
         \/ Next
         \/ \E w \in Workers : EnterRun(w)
<1>1. CASE StartStep
  BY <1>1 DEF StartStep, Begin, Create, CreateFails, Await, Unlock
<1>2. ASSUME NEW w \in Workers, BirthStep(w)
      PROVE  UNCHANGED vars \/ EnterRun(w)
  BY <1>2 DEF BirthStep, StoreId, Notify
<1>3. ASSUME fault = "none", NEW t \in Threads, ThreadStep(t) PROVE Next
  BY <1>3 DEF ThreadStep, Next
<1>4. CASE fault = "none" /\ StopThreads
  BY <1>4 DEF StopThreads, JoinThreads, StopStep, Next
<1>5. CASE /\ fault = "none"
           /\ StopCall(Quiet) \/ \E j \in Jobs, p \in Pins : Submit(j, p)
  BY <1>5 DEF Next
<1>6. CASE UNCHANGED allVars
  BY <1>6 DEF allVars
<1>7. QED
  BY <1>1, <1>2, <1>3, <1>4, <1>5, <1>6 DEF StartNext

LEMMA JoinedStep ==
  ASSUME StartInv, Joined, [StartNext]_allVars
  PROVE  Joined'
<1>1. Caller \notin Workers /\ Workers \subseteq Threads
  BY ConstantsAssumption DEF Threads
<1>2. CASE StartStep
  <2>1. ctl = "user" /\ UNCHANGED vars
    BY <1>2 DEF StartStep, Begin, Create, CreateFails, Await, Unlock, StartInv,
                LockInv
  <2>2. QED
    BY <2>1 DEF Joined, vars
<1>3. ASSUME NEW w \in Workers, BirthStep(w) PROVE Joined'
  <2>1. ctl' = ctl /\ pc[w] # "exit" /\ birth[w] # "none"
    BY <1>3 DEF BirthStep, StoreId, Notify, EnterRun, vars, StartInv, BirthInv
  <2>2. QED
    BY <1>3, <2>1 DEF Joined
<1>4. ASSUME NEW t \in Threads, ThreadStep(t) PROVE Joined'
  <2>1. ctl' = ctl /\ UNCHANGED birth
    BY <1>4 DEF ThreadStep, startVars, RunStep, Take, TakeNone, Resume, YieldSwap,
                Return, IdleEnter, Idle, IdleLeave, Tickle, JobStep, Spawn,
                Reschedule, YieldReady, Finish
  <2>2. \A v \in Threads : pc[v] = "exit" => pc'[v] = "exit"
    BY <1>4 DEF ThreadStep, RunStep, Take, TakeNone, Resume, YieldSwap, Return,
                IdleEnter, Idle, IdleLeave, Tickle, JobStep, Spawn, Reschedule,
                YieldReady, Finish, At, GoTo, StartInv, TypeOK
  <2>3. QED
    BY <1>1, <2>1, <2>2 DEF Joined
<1>5. CASE StopThreads
  BY <1>5 DEF StopThreads, StopRoot, RootDone, JoinThreads, Join, startVars, Joined
<1>6. CASE /\ UNCHANGED startVars
           /\ StopCall(Quiet) \/ \E j \in Jobs, p \in Pins : Submit(j, p)
  BY <1>6 DEF StopCall, Submit, Joined
<1>7. CASE UNCHANGED allVars
  BY <1>7 DEF allVars, vars, startVars, Joined
<1>8. QED
  BY <1>2, <1>3, <1>4, <1>5, <1>6, <1>7 DEF StartNext

\* A thread that enters run() has taken nothing and counts nowhere.
LEMMA EnterKeeps ==
  ASSUME StartInv, Joined, NEW w \in Workers, EnterRun(w)
  PROVE  /\ NothingLost => NothingLost'
         /\ ActiveExact => ActiveExact'
         /\ OwnerInv => OwnerInv'
         /\ QueueIsServed => QueueIsServed'
         /\ MapInv => MapInv'
         /\ UNCHANGED Pool!vars
<1>1. /\ pc[w] = "off" /\ pc' = [pc EXCEPT ![w] = "loop"] /\ birth[w] = "notified"
      /\ UNCHANGED <<tasks, stopping, active, idleCount, fiber, cur, idleFiber,
                     owe, ctl, fault>>
  BY DEF EnterRun, GoTo
<1>2. /\ pc'[w] = "loop" /\ w \in Threads /\ w # Caller /\ Caller \in Threads
      /\ \A v \in Threads \ {w} : pc'[v] = pc[v]
  BY <1>1, ConstantsAssumption DEF StartInv, TypeOK, Threads
<1>3. NothingLost => NothingLost'
  BY <1>1, <1>2, HandsUntouched
<1>4. ActiveExact => ActiveExact'
  <2>1. \A v \in Threads : Busy(v)' <=> Busy(v)
    BY <1>1, <1>2 DEF Busy
  <2>2. {v \in Threads : Busy(v)}' = {v \in Threads : Busy(v)}
    BY <2>1
  <2>3. QED
    BY <1>1, <2>2 DEF ActiveExact
<1>5. OwnerInv => OwnerInv'
  <2>1. ctl # "done"
    BY <1>1 DEF Joined
  <2>2. pc'[Caller] = pc[Caller] /\ ctl' = ctl
    BY <1>1, <1>2
  <2>3. QED
    BY <2>1, <2>2, Zenon DEF OwnerInv
<1>6. QueueIsServed => QueueIsServed'
  <2>1. \A v \in Threads : WillScan(v) => WillScan(v)'
    BY <1>1, <1>2 DEF WillScan
  <2>2. QED
    BY <1>1, <2>1 DEF QueueIsServed
<1>7. \A v \in Threads : pc'[v] \in {"exec", "body", "swap"} \/
                         pc[v] \in {"exec", "body", "swap"} =>
        pc'[v] = pc[v] /\ cur'[v] = cur[v]
  BY <1>1, <1>2
<1>8. MapInv => MapInv'
  <2> SUFFICES ASSUME MapInv PROVE MapInv'
    OBVIOUS
  <2>1. Unique' /\ CallerOut'
    BY <1>1, <1>2 DEF MapInv, Unique, CallerOut
  <2>2. Fits'
    BY <1>1, <1>7, <2>1, FitsElsewhere DEF Fits, MapInv, StartInv
  <2>3. QED
    BY <2>1, <2>2 DEF Fits, MapInv
<1>9. UNCHANGED Pool!vars
  BY <1>1, <1>7, PoolStutters DEF StartInv, Ended, Stopped
<1>10. QED
  BY <1>3, <1>4, <1>5, <1>6, <1>8, <1>9

\* What the pool keeps while its threads are born, work and are joined.
PoolInv ==
  /\ StartInv /\ Joined
  /\ NothingLost /\ ActiveExact /\ OwnerInv /\ QueueIsServed /\ MapInv

LEMMA PoolInvariance == StartSpec => []PoolInv
<1>1. StartInit => Joined /\ NothingLost /\ ActiveExact /\ OwnerInv
                   /\ QueueIsServed /\ MapInv
  <2>1. Init => NothingLost
    BY DEF Init, NothingLost
  <2>2. StartInit => Init /\ Joined
    BY DEF StartInit, Init, Joined
  <2>3. QED
    BY <2>1, <2>2, InitActive, InitOwner, InitMapInv
<1>2. PoolInv /\ StartInv' /\ [StartNext]_allVars => PoolInv'
  <2> SUFFICES ASSUME PoolInv, StartInv', [StartNext]_allVars PROVE PoolInv'
    OBVIOUS
  <2> USE DEF PoolInv
  <2>1. Joined'
    BY JoinedStep
  <2>2. TypeOK
    BY DEF StartInv
  <2>3. CASE [Next]_vars
    BY <2>1, <2>2, <2>3, NothingLostStep, ActiveStep, OwnerStep, ServedStep,
       MapInvStep
  <2>4. ASSUME NEW w \in Workers, EnterRun(w) PROVE PoolInv'
    BY <2>1, <2>4, EnterKeeps
  <2>5. QED
    BY <2>3, <2>4, StepKinds
<1>3. QED
  BY <1>1, <1>2, StartInvariance, PTL DEF StartSpec, PoolInv

\* No task is lost, and m_activeThreadCount is exact, while threads are created
\* one by one and when one of them cannot be created.
THEOREM StartLosesNothing == StartSpec => [](NothingLost /\ ActiveExact)
<1>1. PoolInv => NothingLost /\ ActiveExact
  BY DEF PoolInv
<1>2. QED
  BY <1>1, PoolInvariance, PTL

\* With use_caller, the queue is served, and stop() drains it, however far the
\* workers have come in Thread::run() when stop() is called.
THEOREM StartServes == StartSpec => [](QueueIsServed /\ StopDrains)
<1>1. PoolInv => QueueIsServed /\ StopDrains
  BY DrainedWhenDone DEF PoolInv, StartInv
<1>2. QED
  BY <1>1, PoolInvariance, PTL

LEMMA StartPoolStep ==
  ASSUME PoolInv, OwnerInv', [StartNext]_allVars
  PROVE  Pool!Next \/ UNCHANGED Pool!vars
<1> USE DEF PoolInv, StartInv
<1>1. CASE UNCHANGED vars
  BY <1>1, PoolStutters DEF vars, Ended, Stopped
<1>2. CASE Next
  BY <1>2, NextIsPoolStep
<1>3. ASSUME NEW w \in Workers, EnterRun(w) PROVE UNCHANGED Pool!vars
  BY <1>3, EnterKeeps
<1>4. QED
  BY <1>1, <1>2, <1>3, StepKinds

\* The pool with the threads of the operating system, created, announced and
\* joined one by one, implements TaskPool: no job runs twice for one schedule(),
\* on two threads or after its end, and stop() returns only when, with
\* use_caller, nothing waits but tasks for threads that are gone.
THEOREM StartRefinement == StartSpec => ImplementsPool
<1>1. StartInit => Pool!Init
  BY InitIsPoolInit DEF StartInit
<1>2. PoolInv /\ PoolInv' /\ [StartNext]_allVars => [Pool!Next]_(Pool!vars)
  <2>1. PoolInv' => OwnerInv'
    BY DEF PoolInv
  <2>2. QED
    BY <2>1, StartPoolStep
<1>3. QED
  BY <1>1, <1>2, PoolInvariance, PTL DEF StartSpec, ImplementsPool, Pool!Spec

=============================================================================
