--------------------------- MODULE HookedIOProofs ---------------------------
(* Theorems about HookedIO, for any number of fibers on one number, however *)
(* often it is closed and opened again.                                     *)
EXTENDS HookedIO, TLAPS

(***************************************************************************)
(* The inductive invariant.                                                *)
(***************************************************************************)
\* Only calls with a timeout have a timer and callbacks; and a timer belongs to
\* the wait that goes on.
TimerFits(f) ==
  /\ timer[f] = "armed" => f \in timed /\ place[f] \in {"add", "failed", "wait"}
  /\ timer[f] \in {"nap", "wake"} => At(f, "asleep")
  /\ ~(callbacks[f] \subseteq {"late"}) => f \in timed
  /\ place[f] \in {"out", "asleep"} => callbacks[f] \subseteq {"late"}

\* A fiber that its timeout has woken was told so before, and has not yet looked.
OverdueIsTold(f) == f \in overdue => f \in told /\ place[f] \in {"wait", "check"}

\* The fiber that a timeout is about to wake was told.
TellsFirst(f) == "told" \in callbacks[f] => f \in told

IInv ==
  /\ TypeOK
  /\ WaitsForOne
  /\ \A f \in Fibers : TimerFits(f) /\ OverdueIsTold(f) /\ TellsFirst(f)

LEMMA InitIInv == Init => IInv
<1> SUFFICES ASSUME Init PROVE IInv
  OBVIOUS
<1>1. NumberTypeOK
  <2>1. user \in BOOLEAN
    BY Zenon DEF Init, NumberInit
  <2>2. opens \in 0 .. MaxOpens /\ entry \in 0 .. opens
    BY OpensAssumption DEF Init, NumberInit
  <2>3. QED
    BY <2>1, <2>2 DEF Init, NumberInit, NumberTypeOK
<1>2. QED
  BY <1>1, HookConstants
     DEF Init, IInv, TypeOK, Places, WaitsForOne, Waits, TimerFits, At,
         OverdueIsTold, TellsFirst

(***************************************************************************)
(* Types.                                                                  *)
(***************************************************************************)
\* Triggering keeps what is watched registered, and what is registered used.
LEMMA TriggerType ==
  ASSUME TypeOK, NEW fs \in SUBSET Fibers, Trigger(fs)
  PROVE  watched' \subseteq events' /\ events' \subseteq used
         /\ queued' \in [Fibers -> Nat]
BY DEF Trigger, TypeOK

LEMMA CancelEventType ==
  ASSUME TypeOK, NEW f \in Fibers, CancelEvent(f)
  PROVE  /\ watched' \subseteq events' /\ events' \subseteq used
         /\ queued' \in [Fibers -> Nat]
         /\ events \ events' \subseteq {f}
BY TriggerType DEF CancelEvent, Trigger, TypeOK

LEMMA EndType ==
  ASSUME TypeOK, NEW f \in Fibers, End(f)
  PROVE  /\ place' \in [Fibers -> Places]
         /\ told' \subseteq timed' /\ timed' \subseteq Fibers
         /\ missed' \subseteq Fibers
         /\ callbacks' \in
              [Fibers -> SUBSET {"collected", "locked", "told", "late"}]
BY DEF End, GoTo, TypeOK, Places

\* A callback that goes on to a point is at a point again.
LEMMA CallbacksType ==
  ASSUME TypeOK, NEW f \in Fibers, NEW from,
         \/ Leaves(f, from)
         \/ Moves(f, from, "locked") \/ Moves(f, from, "told")
  PROVE  callbacks' \in [Fibers -> SUBSET {"collected", "locked", "told", "late"}]
BY DEF Leaves, Moves, TypeOK

\* What concerns the number alone.
LEMMA NumberKeeps == NumberTypeOK /\ UNCHANGED number => NumberTypeOK'
BY DEF NumberTypeOK, number

LEMMA NumberType ==
  ASSUME NumberTypeOK,
         Opening \/ Delete \/ Settings \/ StartClose \/ CloseNumber
  PROVE  NumberTypeOK'
<1>1. CASE Open
  BY <1>1, OpensAssumption DEF NumberTypeOK, Open
<1>2. CASE Register
  <2>1. user' \in BOOLEAN
    BY <1>2, Zenon DEF NumberTypeOK, Register
  <2>2. QED
    BY <1>2, <2>1, OpensAssumption DEF NumberTypeOK, Register
<1>3. CASE Delete \/ StartClose \/ CloseNumber
  <2>1. user' \in BOOLEAN
    BY <1>3, Zenon DEF NumberTypeOK, Delete, StartClose, CloseNumber
  <2>2. opens' \in 0 .. MaxOpens /\ entry' \in 0 .. opens'
    BY <1>3, OpensAssumption DEF NumberTypeOK, Delete, StartClose, CloseNumber
  <2>3. QED
    BY <1>3, <2>1, <2>2 DEF NumberTypeOK, Delete, StartClose, CloseNumber
<1>4. ASSUME NEW nonblock \in BOOLEAN,
             SetFlags(nonblock) \/ SetFionbio(nonblock)
      PROVE  NumberTypeOK'
  BY <1>4 DEF NumberTypeOK, SetFlags, SetFionbio
<1>5. ASSUME NEW d \in Directions, SetTimeout(d) PROVE NumberTypeOK'
  <2>1. user' \in BOOLEAN
    BY <1>5, Zenon DEF NumberTypeOK, SetTimeout
  <2>2. QED
    BY <1>5, <2>1 DEF NumberTypeOK, SetTimeout
<1>6. QED
  BY <1>1, <1>2, <1>3, <1>4, <1>5 DEF Opening, Settings

LEMMA StepType ==
  ASSUME IInv, NEW f \in Fibers, Step(f)
  PROVE  TypeOK'
<1> USE HookConstants, NumberKeeps
<1> TimerFits(f) /\ TypeOK
  BY DEF IInv
<1>1. CASE Try(f)
  BY <1>1, EndType
     DEF Try, Arm, Return, GoTo, TypeOK, Places, context, outside
<1>2. CASE Add(f)
  BY <1>2 DEF Add, GoTo, TypeOK, Places, context
<1>3. CASE Resume(f)
  BY <1>3 DEF Resume, CancelTimer, GoTo, TypeOK, Places, context, outside
<1>4. CASE Check(f)
  BY <1>4, EndType DEF Check, Return, GoTo, TypeOK, Places, context, outside
<1>5. CASE ConnectDone(f)
  BY <1>5, EndType DEF ConnectDone, Return, TypeOK, context, outside
<1>6. CASE Refused(f)
  BY <1>6, EndType DEF Refused, CancelTimer, TypeOK, context, outside
<1>7. CASE Direct(f)
  BY <1>7, EndType DEF Direct, Return, GoTo, TypeOK, Places, context, outside
<1>8. QED
  BY <1>1, <1>2, <1>3, <1>4, <1>5, <1>6, <1>7 DEF Step

LEMMA TimerStepType ==
  ASSUME IInv, NEW f \in Fibers, TimerStep(f)
  PROVE  TypeOK'
<1> USE HookConstants, NumberKeeps
<1> TimerFits(f) /\ TypeOK
  BY DEF IInv
<1>1. CASE Expire(f)
  BY <1>1 DEF Expire, TypeOK, context, outside
<1>2. CASE WakeUp(f)
  BY <1>2 DEF WakeUp, TypeOK, context, outside
<1>3. CASE Lock(f)
  BY <1>3, CallbacksType DEF Lock, TypeOK, context, outside
<1>4. CASE Tell(f)
  <2>1. f \in timed
    BY <1>4 DEF Tell, Moves, TimerFits
  <2>2. QED
    BY <1>4, <2>1, CallbacksType DEF Tell, TypeOK, context, outside
<1>5. CASE TimeOut(f)
  BY <1>5, CancelEventType, CallbacksType DEF TimeOut, TypeOK, outside
<1>6. CASE TimeOutLate(f)
  BY <1>6, CancelEventType, CallbacksType DEF TimeOutLate, TypeOK, outside
<1>7. QED
  BY <1>1, <1>2, <1>3, <1>4, <1>5, <1>6 DEF TimerStep, Answer

LEMMA NextType == IInv /\ [Next]_vars => TypeOK'
<1> SUFFICES ASSUME IInv, [Next]_vars PROVE TypeOK'
  OBVIOUS
<1> USE NumberKeeps
<1> TypeOK
  BY DEF IInv
<1>1. CASE UNCHANGED vars
  BY <1>1 DEF TypeOK, vars, context, outside
<1>2. ASSUME NEW f \in Fibers, Call(f) \/ Connect(f) PROVE TypeOK'
  BY <1>2 DEF Call, Connect, GoTo, TypeOK, Places, context, outside
<1>3. ASSUME NEW f \in Fibers, Sleep(f) PROVE TypeOK'
  BY <1>3 DEF Sleep, GoTo, TypeOK, Places, context, outside
<1>4. ASSUME NEW f \in Fibers, Report(f) PROVE TypeOK'
  BY <1>4, TriggerType DEF Report, TypeOK, outside
<1>5. ASSUME NEW f \in Fibers, Unblock(f) PROVE TypeOK'
  BY <1>5, EndType DEF Unblock, Return, TypeOK, context, outside
<1>6. ASSUME Opening \/ Delete \/ Settings,
             UNCHANGED <<place, timed, told, timer, callbacks, context, queued,
                         overdue, missed, fault>>
      PROVE  TypeOK'
  BY <1>6, NumberType DEF TypeOK, context
<1>7. CASE CloseCancel
  BY <1>7, TriggerType, NumberType DEF CloseCancel, TypeOK
<1>8. CASE Close
  BY <1>8, NumberType DEF Close, TypeOK
<1>9. QED
  BY <1>1, <1>2, <1>3, <1>4, <1>5, <1>6, <1>7, <1>8, StepType, TimerStepType
     DEF Next

(***************************************************************************)
(* The rest of the invariant, fiber by fiber.                              *)
(***************************************************************************)
One(f) ==
  queued[f] + (IF f \in events THEN 1 ELSE 0)
    + (IF timer[f] \in {"nap", "wake"} THEN 1 ELSE 0)
  = IF Waits(f) THEN 1 ELSE 0

Local(f) == One(f) /\ TimerFits(f) /\ OverdueIsTold(f) /\ TellsFirst(f)

LEMMA IInvIsLocal == IInv <=> TypeOK /\ \A f \in Fibers : Local(f)
BY DEF IInv, WaitsForOne, One, Local

\* A step that changes nothing of a fiber.
LEMMA Elsewhere ==
  ASSUME NEW f \in Fibers, Local(f),
         place'[f] = place[f], timer'[f] = timer[f], queued'[f] = queued[f],
         callbacks'[f] = callbacks[f],
         f \in events' <=> f \in events, f \in overdue' <=> f \in overdue,
         f \in told' <=> f \in told, f \in timed' <=> f \in timed
  PROVE  Local(f)'
BY DEF Local, One, Waits, TimerFits, At, OverdueIsTold, TellsFirst

\* A step that takes the event of a fiber into the queue, or leaves it alone.
Moved(f) ==
  \/ f \in events /\ f \notin events' /\ queued'[f] = queued[f] + 1
  \/ (f \in events' <=> f \in events) /\ queued'[f] = queued[f]

LEMMA MovedIsLocal ==
  ASSUME IInv, NEW f \in Fibers, Moved(f),
         UNCHANGED <<place, timed, timer, told, overdue>>,
         callbacks'[f] \subseteq callbacks[f]
  PROVE  Local(f)'
<1>1. TypeOK /\ Local(f)
  BY IInvIsLocal
<1>2. queued[f] \in Nat
  BY <1>1 DEF TypeOK
<1>3. One(f)'
  BY <1>1, <1>2 DEF Moved, Local, One, Waits
<1>4. QED
  BY <1>1, <1>3
     DEF Local, TimerFits, At, OverdueIsTold, TellsFirst

LEMMA StepLocal ==
  ASSUME IInv, NEW f \in Fibers, Step(f), NEW g \in Fibers
  PROVE  Local(g)'
<1> USE DEF Local, One, Waits, TimerFits, At, OverdueIsTold, TellsFirst
<1> TypeOK /\ Local(g) /\ Local(f)
  BY IInvIsLocal
<1>1. CASE Try(f)
  BY <1>1 DEF Try, Arm, GoTo, Return, End, TypeOK, Places, context, outside
<1>2. CASE Add(f)
  BY <1>2 DEF Add, GoTo, TypeOK, Places, context
<1>3. CASE Resume(f)
  <2>1. g # f => UNCHANGED <<place[g], timer[g], queued[g], callbacks[g]>>
    BY <1>3 DEF Resume, CancelTimer, GoTo, TypeOK
  <2>2. UNCHANGED <<events, overdue, told, timed, callbacks>>
    BY <1>3 DEF Resume, context
  <2>3. CASE g = f
    <3>1. queued[f] \in Nat /\ queued[f] > 0 /\ queued'[f] = queued[f] - 1
      BY <1>3 DEF Resume, TypeOK
    <3>2. f \notin events /\ timer[f] \notin {"nap", "wake"}
      BY <3>1
    <3>3. /\ place'[f] \in {"check", "out"} /\ timer'[f] = "none"
          /\ At(f, "asleep") <=> place'[f] = "out"
          /\ At(f, "wait") <=> place'[f] = "check"
      BY <1>3, <3>2 DEF Resume, CancelTimer, GoTo, TypeOK
    <3>4. One(f)'
      BY <1>3, <2>2, <3>1, <3>2, <3>3 DEF Resume
    <3>5. QED
      BY <2>2, <2>3, <3>3, <3>4
  <2>4. QED
    BY <2>1, <2>2, <2>3, Elsewhere
<1>4. CASE Check(f)
  BY <1>4 DEF Check, GoTo, Return, End, TypeOK, Places, context, outside
<1>5. CASE ConnectDone(f)
  BY <1>5 DEF ConnectDone, GoTo, Return, End, TypeOK, Places, context, outside
<1>6. CASE Refused(f)
  BY <1>6
     DEF Refused, CancelTimer, GoTo, End, TypeOK, Places, context, outside
<1>7. CASE Direct(f)
  BY <1>7 DEF Direct, GoTo, Return, End, TypeOK, Places, context, outside
<1>8. QED
  BY <1>1, <1>2, <1>3, <1>4, <1>5, <1>6, <1>7 DEF Step

\* The callback of a timeout wakes a fiber only if the fiber waits, and has told
\* it before.
LEMMA TimeOutLocal ==
  ASSUME IInv, NEW f \in Fibers, TimeOut(f), NEW g \in Fibers
  PROVE  Local(g)'
<1>1. TypeOK /\ Local(g) /\ Local(f)
  BY IInvIsLocal
<1>2. /\ "told" \in callbacks[f]
      /\ callbacks' = [callbacks EXCEPT ![f] = @ \ {"told"}]
      /\ UNCHANGED <<place, timed, told, timer>>
  BY <1>1 DEF TimeOut, Leaves
<1>3. CASE f \in watched
  <2>1. Trigger({f}) /\ f \in events
    BY <1>1, <1>3 DEF TimeOut, CancelEvent, TypeOK
  <2>2. f \in told /\ At(f, "wait")
    <3>1. queued[f] \in Nat
      BY <1>1 DEF TypeOK
    <3>2. Waits(f)
      BY <1>1, <1>2, <2>1, <3>1 DEF Local, One
    <3>3. ~At(f, "asleep")
      BY <1>1, <1>2 DEF Local, TimerFits, At
    <3>4. QED
      BY <1>1, <1>2, <3>2, <3>3 DEF Local, TellsFirst, Waits, At
  <2>3. overdue' = overdue \cup {f}
    BY <2>1 DEF TimeOut, Trigger
  <2>4. CASE g = f
    <3>1. queued'[g] = queued[g] + 1 /\ g \notin events'
          /\ callbacks'[g] \subseteq callbacks[g] /\ queued[g] \in Nat
      BY <1>1, <1>2, <2>1, <2>4 DEF Trigger, TypeOK
    <3>2. One(g)'
      BY <1>1, <1>2, <2>1, <2>4, <3>1 DEF Local, One, Waits
    <3>3. QED
      BY <1>1, <1>2, <2>2, <2>4, <3>1, <3>2
         DEF Local, TimerFits, At, OverdueIsTold, TellsFirst
  <2>5. CASE g # f
    <3>1. queued'[g] = queued[g] /\ callbacks'[g] = callbacks[g]
          /\ (g \in events' <=> g \in events)
      BY <1>1, <1>2, <2>1, <2>5 DEF Trigger, TypeOK
    <3>2. QED
      BY <1>1, <1>2, <2>3, <2>5, <3>1, Elsewhere
  <2>6. QED
    BY <2>4, <2>5
<1>4. CASE f \notin watched
  <2>1. UNCHANGED <<events, queued, overdue>>
    BY <1>4 DEF TimeOut, CancelEvent
  <2>2. QED
    BY <1>1, <1>2, <2>1
       DEF Local, One, Waits, TimerFits, At, OverdueIsTold, TellsFirst, TypeOK
<1>5. QED
  BY <1>3, <1>4

LEMMA TimerStepLocal ==
  ASSUME IInv, NEW f \in Fibers, TimerStep(f), NEW g \in Fibers
  PROVE  Local(g)'
<1> TypeOK /\ Local(g) /\ Local(f)
  BY IInvIsLocal
<1>1. ASSUME Expire(f) \/ WakeUp(f) \/ Lock(f) \/ Tell(f) PROVE Local(g)'
  BY <1>1 DEF Expire, WakeUp, Lock, Tell, Leaves, Moves, Local, One, Waits,
              TimerFits, At, OverdueIsTold, TellsFirst, TypeOK, context, outside
<1>2. CASE TimeOut(f)
  BY <1>2, TimeOutLocal
<1>3. CASE TimeOutLate(f)
  <2>1. UNCHANGED <<place, timed, timer, told, overdue>>
        /\ callbacks'[g] \subseteq callbacks[g]
    BY <1>3 DEF TimeOutLate, Leaves, TypeOK
  <2>2. Moved(g)
    BY <1>3 DEF TimeOutLate, CancelEvent, Trigger, Moved, TypeOK
  <2>3. QED
    BY <2>1, <2>2, MovedIsLocal
<1>4. QED
  BY <1>1, <1>2, <1>3 DEF TimerStep, Answer

LEMMA NextIInv == IInv /\ [Next]_vars => IInv'
<1> SUFFICES ASSUME IInv, [Next]_vars, NEW g \in Fibers PROVE Local(g)'
  BY NextType DEF IInv, WaitsForOne, One, Local
<1> TypeOK /\ \A f \in Fibers : Local(f)
  BY IInvIsLocal
<1>1. ASSUME UNCHANGED <<place, timed, timer, callbacks, queued, events, overdue,
                         told>>
      PROVE  Local(g)'
  BY <1>1, Elsewhere
<1>2. CASE UNCHANGED vars
  BY <1>1, <1>2 DEF vars, context
<1>3. ASSUME NEW f \in Fibers, Call(f) \/ Connect(f) \/ Sleep(f) PROVE Local(g)'
  BY <1>3 DEF Call, Connect, Sleep, GoTo, Local, One, Waits, TimerFits, At,
              OverdueIsTold, TellsFirst, TypeOK, Places, context, outside
<1>4. ASSUME NEW f \in Fibers, Report(f) PROVE Local(g)'
  <2>1. Moved(g)
    BY <1>4 DEF Report, Trigger, Moved, TypeOK
  <2>2. UNCHANGED <<place, timed, timer, callbacks, told, overdue>>
    BY <1>4 DEF Report
  <2>3. QED
    BY <2>1, <2>2, MovedIsLocal
<1>5. CASE CloseCancel
  <2>1. Moved(g)
    BY <1>5 DEF CloseCancel, Trigger, Moved, TypeOK
  <2>2. UNCHANGED <<place, timed, timer, callbacks, told, overdue>>
    BY <1>5 DEF CloseCancel
  <2>3. QED
    BY <2>1, <2>2, MovedIsLocal
<1>6. ASSUME \/ UNCHANGED <<place, timed, told, timer, callbacks, context,
                            queued, overdue, missed, fault>>
             \/ Close
      PROVE  Local(g)'
  BY <1>1, <1>6 DEF Close, context
<1>7. ASSUME NEW f \in Fibers, Unblock(f) PROVE Local(g)'
  BY <1>7 DEF Unblock, GoTo, Return, End, Local, One, Waits, TimerFits, At,
              OverdueIsTold, TellsFirst, TypeOK, Places, context, outside
<1>8. QED
  BY <1>2, <1>3, <1>4, <1>5, <1>6, <1>7, StepLocal, TimerStepLocal DEF Next

LEMMA Invariance == Spec => []IInv
BY InitIInv, NextIInv, PTL DEF Spec

(***************************************************************************)
(* The theorems.                                                           *)
(***************************************************************************)
\* The type invariant of HookedIO, in particular: what epoll watches is
\* registered, and what is registered has a waiter in its EventContext.
THEOREM Typing == Spec => []TypeOK
BY Invariance, PTL DEF IInv

\* A fiber that waits is scheduled by exactly one of its event, its timer and
\* the queue, and nothing schedules a fiber that does not wait, for any number of
\* fibers and any order of readiness, timeouts and close().
THEOREM OneWake == Spec => []WaitsForOne
BY Invariance, PTL DEF IInv

\* No timer outlives its wait, and the callbacks of a call that has returned are
\* gone, but for those that had locked tinfo before.
THEOREM TimersEnd == Spec => []NoTimerLeft
<1>1. IInv => NoTimerLeft
  BY DEF IInv, TimerFits, NoTimerLeft
<1>2. QED
  BY <1>1, Invariance, PTL

\* A call that its own timeout has woken does not try again.
THEOREM Reported == Spec => TimeoutIsReported
<1>1. ASSUME IInv, [Next]_vars, NEW f \in overdue, place'[f] # place[f]
      PROVE  place'[f] # "try"
  <2>1. f \in Fibers /\ f \in told /\ place[f] \in {"wait", "check"}
    BY <1>1, HookConstants DEF IInv, TypeOK, OverdueIsTold
  <2>2. place \in [Fibers -> Places]
    BY <1>1 DEF IInv, TypeOK
  <2>3. ASSUME NEW g \in Fibers, Call(g) \/ Connect(g) \/ Sleep(g)
        PROVE  place'[f] = place[f]
    BY <2>1, <2>2, <2>3 DEF Call, Connect, Sleep, GoTo, At
  <2>4. ASSUME NEW g \in Fibers, Step(g), g # f PROVE place'[f] = place[f]
    BY <2>1, <2>2, <2>4
       DEF Step, Try, Direct, Add, Resume, Check, ConnectDone, Refused, Return,
           End, GoTo
  <2>5. CASE Step(f)
    BY <2>1, <2>2, <2>5
       DEF Step, Try, Direct, Add, Resume, Check, ConnectDone, Refused, Return,
           End, GoTo, At
  <2>6. ASSUME NEW g \in Fibers, TimerStep(g) \/ Report(g)
        PROVE  place' = place
    BY <2>6 DEF TimerStep, Answer, Expire, WakeUp, Lock, Tell, TimeOut,
                TimeOutLate, Report
  <2>7. ASSUME UNCHANGED place \/ CloseCancel \/ Close \/ UNCHANGED vars
        PROVE  place' = place
    BY <2>7 DEF CloseCancel, Close, vars
  <2>8. ASSUME NEW g \in Fibers, Unblock(g) PROVE place'[f] = place[f]
    BY <2>1, <2>2, <2>8 DEF Unblock, Return, End, GoTo, At
  <2>9. QED
    BY <1>1, <2>3, <2>4, <2>5, <2>6, <2>7, <2>8 DEF Next
<1>2. IInv /\ [Next]_vars =>
        [\A f \in overdue : place'[f] # place[f] => place'[f] # "try"]_vars
  BY <1>1
<1>3. QED
  BY <1>2, Invariance, PTL DEF Spec, TimeoutIsReported

(***************************************************************************)
(* Threads are not blocked.                                                *)
(***************************************************************************)
\* A descriptor that has its own FdCtx does not block, unless ioctl() made it
\* block; and an FdCtx that was there before the number was opened is another's.
OwnDoesNotBlock ==
  /\ fd # "free" => opens > 0
  /\ fd = "opening" => entry < opens
  /\ fd # "free" /\ entry = opens => blocks # "yes"

LEMMA OwnNumberStep ==
  ASSUME NumberTypeOK, OwnDoesNotBlock,
         Opening \/ Delete \/ Settings \/ StartClose \/ CloseNumber
  PROVE  OwnDoesNotBlock'
BY OpensAssumption
   DEF NumberTypeOK, OwnDoesNotBlock, Opening, Settings, Open, Register, Delete,
       StartClose, CloseNumber, SetFlags, SetFionbio, SetTimeout

\* Every step either leaves the number alone or is one of those.
LEMMA OwnStep == TypeOK /\ OwnDoesNotBlock /\ [Next]_vars => OwnDoesNotBlock'
<1> SUFFICES ASSUME TypeOK, OwnDoesNotBlock, [Next]_vars PROVE OwnDoesNotBlock'
  OBVIOUS
<1>1. CASE UNCHANGED number
  BY <1>1 DEF OwnDoesNotBlock, number
<1>2. CASE Opening \/ Delete \/ Settings \/ CloseCancel \/ Close
  BY <1>2, OwnNumberStep DEF TypeOK, CloseCancel, Close
<1>3. ASSUME NEW f \in Fibers,
             \/ Call(f) \/ Connect(f) \/ Sleep(f) \/ Step(f) \/ TimerStep(f)
             \/ Report(f) \/ Unblock(f)
      PROVE  UNCHANGED number
  BY <1>3
     DEF Call, Connect, Sleep, Step, Try, Direct, Add, Resume, Check, ConnectDone,
         Refused, TimerStep, Answer, Expire, WakeUp, Lock, Tell, TimeOut,
         TimeOutLate, Report, Unblock, outside
<1>4. CASE UNCHANGED vars
  BY <1>1, <1>4 DEF vars, outside
<1>5. QED
  BY <1>1, <1>2, <1>3, <1>4 DEF Next

\* A system call of the hooks blocks its thread only if ioctl(FIONBIO) has made
\* the descriptor block, or the table has no FdCtx of this descriptor.
THEOREM ThreadsGoOn == Spec => KeepsThreads
<1>1. Init => OwnDoesNotBlock
  BY DEF Init, NumberInit, OwnDoesNotBlock
<1>2. ASSUME TypeOK, OwnDoesNotBlock, [Next]_vars, NEW f \in Fibers,
             place'[f] = "stuck", place[f] # "stuck"
      PROVE  blocks = "ioctl" \/ entry # opens
  <2>1. place \in [Fibers -> Places] /\ blocks \in {"no", "yes", "ioctl"}
    BY <1>2 DEF TypeOK, NumberTypeOK
  <2>2. ASSUME NEW g \in Fibers, Try(g) \/ Direct(g)
        PROVE  fd # "free" /\ blocks # "no"
    BY <1>2, <2>1, <2>2 DEF Try, Direct, Return, End, GoTo
  <2>3. ASSUME NEW g \in Fibers,
               \/ Call(g) \/ Connect(g) \/ Sleep(g) \/ Add(g) \/ Resume(g)
               \/ Check(g) \/ ConnectDone(g) \/ Refused(g) \/ Unblock(g)
        PROVE  FALSE
    BY <1>2, <2>1, <2>3
       DEF Call, Connect, Sleep, Add, Resume, Check, ConnectDone, Refused,
           Unblock, Return, End, GoTo
  <2>4. ASSUME \/ UNCHANGED place \/ CloseCancel \/ Close \/ UNCHANGED vars
               \/ \E g \in Fibers : TimerStep(g) \/ Report(g)
        PROVE  FALSE
    BY <1>2, <2>4
       DEF CloseCancel, Close, vars, TimerStep, Answer, Expire, WakeUp, Lock,
           Tell, TimeOut, TimeOutLate, Report
  <2>5. fd # "free" /\ blocks # "no"
    BY <1>2, <2>2, <2>3, <2>4 DEF Next, Step
  <2>6. QED
    BY <1>2, <2>1, <2>5 DEF OwnDoesNotBlock
<1>3. TypeOK /\ OwnDoesNotBlock /\ [Next]_vars =>
        [\A f \in Fibers : place'[f] = "stuck" /\ place[f] # "stuck" =>
           blocks = "ioctl" \/ entry # opens]_vars
  BY <1>2
<1>4. QED
  BY <1>1, <1>3, OwnStep, Typing, PTL DEF Spec, KeepsThreads

=============================================================================
