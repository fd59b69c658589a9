---------------------------- MODULE TimersProofs ----------------------------
(* Theorems about Timers, for every number of timers and of idle threads.   *)
EXTENDS Timers, TLAPS

(***************************************************************************)
(* Types.                                                                  *)
(***************************************************************************)
\* The int that is passed to epoll_wait() is never above MAX_TIMEOUT.
LEMMA TimeoutCapped ==
  ASSUME NEW ms \in Nat
  PROVE  Timeout(ms) \in Int /\ Timeout(ms) <= MaxTimeout
<1>1. IntSpan \in Nat /\ IntSpan > 0 /\ MaxTimeout \in Nat
  BY TimerConstants
<1>2. ms % IntSpan \in Int
  BY <1>1
<1>3. ToInt(ms) \in Int
  BY <1>1, <1>2 DEF ToInt
<1>4. QED
  BY <1>1, <1>3 DEF Timeout

LEMMA InitType == Init => TypeOK
<1> SUFFICES ASSUME Init PROVE TypeOK
  OBVIOUS
<1> USE TimerConstants
<1>1. timer \in [TimerIds -> TimerType]
  BY DEF Init, TimerType
<1>2. /\ pc \in [Idlers -> IdlePlaces]
      /\ cbs \in [Idlers -> SUBSET TimerIds]
      /\ seen \in [Idlers -> Nat]
      /\ until \in [Idlers -> Nat \cup {Never}]
  BY DEF Init, IdlePlaces
<1>3. wait \in [Idlers -> {w \in Int : w <= MaxTimeout}]
  BY DEF Init
<1>4. runs \in [TimerIds -> 0 .. MaxRuns] /\ since \in [TimerIds -> Nat]
  BY DEF Init
<1>5. now \in Nat /\ previous \in Nat
  BY DEF Init
<1>6. timers \subseteq TimerIds /\ cancelled \subseteq TimerIds
  BY DEF Init
<1>7. tickled \in BOOLEAN /\ owe \in BOOLEAN /\ pipe \in BOOLEAN
  BY DEF Init
<1>8. QED
  BY <1>1, <1>2, <1>3, <1>4, <1>5, <1>6, <1>7 DEF TypeOK

LEMMA InsertType ==
  ASSUME TypeOK, NEW t \in TimerIds, NEW fields \in TimerType, Insert(t, fields)
  PROVE  /\ timers' \subseteq TimerIds
         /\ timer' \in [TimerIds -> TimerType]
         /\ tickled' \in BOOLEAN /\ owe' \in BOOLEAN
         /\ since' \in [TimerIds -> Nat]
<1>1. timers' \subseteq TimerIds /\ timer' \in [TimerIds -> TimerType]
  BY DEF Insert, TypeOK
<1>2. tickled' \in BOOLEAN /\ owe' \in BOOLEAN
  BY Zenon DEF Insert, TypeOK
<1>3. since' \in [TimerIds -> Nat]
  BY DEF Insert, TypeOK
<1>4. QED
  BY <1>1, <1>2, <1>3

LEMMA NextType == TypeOK /\ [Next]_vars => TypeOK'
<1> USE TimerConstants
<1> SUFFICES ASSUME TypeOK, [Next]_vars PROVE TypeOK'
  OBVIOUS
<1>1. CASE UNCHANGED vars
  BY <1>1 DEF TypeOK, vars, manager, idling, history
<1>2. ASSUME NEW t \in TimerIds, NEW ms \in Periods, NEW b \in BOOLEAN,
             Create(t, ms, b)
      PROVE  TypeOK'
  <2>1. [phase |-> "made", next |-> now + ms, ms |-> ms, recurring |-> b,
         cb |-> TRUE] \in TimerType
    BY DEF TypeOK, TimerType
  <2>2. QED
    BY <1>2, <2>1 DEF Create, TypeOK, idling, history
<1>3. ASSUME NEW t \in TimerIds, NEW ms \in Periods, NEW b \in BOOLEAN,
             Reset(t, ms, b)
      PROVE  TypeOK'
  <2> DEFINE start == IF b THEN now ELSE timer[t].next - timer[t].ms
             fields == [timer[t] EXCEPT !.ms = ms, !.next = start + ms]
  <2>1. timer[t] \in TimerType /\ now \in Nat /\ ms \in Nat
    BY DEF TypeOK
  <2>2. start + ms \in Int
    BY <2>1 DEF TimerType
  <2>3. fields \in TimerType
    BY <2>1, <2>2 DEF TimerType
  <2>4. Insert(t, fields)
    BY <1>3 DEF Reset
  <2> HIDE DEF fields
  <2>5. QED
    BY <1>3, <2>3, <2>4, InsertType DEF Reset, TypeOK, idling
<1>4. ASSUME NEW t \in TimerIds, Add(t) PROVE TypeOK'
  <2> DEFINE fields == [timer[t] EXCEPT !.phase = "known"]
  <2>1. fields \in TimerType
    BY DEF TypeOK, TimerType
  <2>2. Insert(t, fields)
    BY <1>4 DEF Add
  <2> HIDE DEF fields
  <2>3. QED
    BY <1>4, <2>1, <2>2, InsertType DEF Add, TypeOK, idling
<1>5. ASSUME NEW t \in TimerIds, Cancel(t) PROVE TypeOK'
  <2>1. [timer[t] EXCEPT !.cb = FALSE] \in TimerType
    <3>1. timer[t] \in TimerType
      BY DEF TypeOK
    <3>2. QED
      BY <3>1 DEF TimerType
  <2>2. timer' = [timer EXCEPT ![t] = [timer[t] EXCEPT !.cb = FALSE]]
    BY <1>5 DEF Cancel
  <2>3. timer' \in [TimerIds -> TimerType]
    BY <2>1, <2>2 DEF TypeOK
  <2>4. QED
    BY <1>5, <2>3 DEF Cancel, TypeOK, idling
<1>6. ASSUME NEW t \in TimerIds, Refresh(t) PROVE TypeOK'
  <2>1. [timer[t] EXCEPT !.next = now] \in TimerType
    BY DEF TypeOK, TimerType
  <2>2. timer' = [timer EXCEPT ![t] = [timer[t] EXCEPT !.next = now]]
    BY <1>6 DEF Refresh
  <2>3. timer' \in [TimerIds -> TimerType]
    BY <2>1, <2>2 DEF TypeOK
  <2>4. QED
    BY <1>6, <2>3 DEF Refresh, TypeOK, idling, history
<1>7. CASE Notify
  <2>1. pipe' \in BOOLEAN /\ owe' \in BOOLEAN
    BY <1>7, Zenon DEF Notify, TypeOK
  <2>2. QED
    BY <1>7, <2>1 DEF Notify, TypeOK, idling, history
<1>8. ASSUME NEW i \in Idlers, EnterIdle(i) PROVE TypeOK'
  BY <1>8 DEF EnterIdle, GoTo, TypeOK, IdlePlaces, manager, history
<1>9. ASSUME NEW i \in Idlers, NextTimer(i) PROVE TypeOK'
  <2>1. ASSUME NEW t \in timers PROVE Remaining(t) \in Nat
    <3>1. timer[t].next \in Int /\ now \in Nat
      BY DEF TypeOK, TimerType
    <3>2. QED
      BY <3>1 DEF Remaining
  <2>2. wait' \in [Idlers -> {w \in Int : w <= MaxTimeout}]
    BY <1>9, <2>1, TimeoutCapped DEF NextTimer, NoTimer, TypeOK
  <2>3. QED
    BY <1>9, <2>2 DEF NextTimer, GoTo, TypeOK, IdlePlaces, manager, history
<1>10. ASSUME NEW i \in Idlers, Poll(i) PROVE TypeOK'
  <2>1. until' \in [Idlers -> Nat \cup {Never}]
    BY <1>10 DEF Poll, TypeOK
  <2>2. QED
    BY <1>10, <2>1 DEF Poll, GoTo, TypeOK, IdlePlaces, manager, history
<1>11. ASSUME NEW i \in Idlers, Interrupted(i) \/ Wake(i) PROVE TypeOK'
  <2>1. until' \in [Idlers -> Nat \cup {Never}]
    BY <1>11 DEF Interrupted, Wake, TypeOK
  <2>2. wait' \in [Idlers -> {w \in Int : w <= MaxTimeout}]
    BY <1>11 DEF Interrupted, Wake, NoTimer, TypeOK
  <2>3. QED
    BY <1>11, <2>1, <2>2
       DEF Interrupted, Wake, GoTo, TypeOK, IdlePlaces, manager, history
<1>12. ASSUME NEW i \in Idlers, ReadClock(i) PROVE TypeOK'
  BY <1>12 DEF ReadClock, GoTo, TypeOK, IdlePlaces, manager, history
<1>13. ASSUME NEW i \in Idlers, Collect(i) PROVE TypeOK'
  <2> DEFINE expired == Expired(seen[i])
  <2>1. expired \subseteq timers
    BY DEF Expired
  <2>2. seen[i] \in Nat /\ now \in Nat
    BY DEF TypeOK
  <2> HIDE DEF expired
  <2>3. timer' \in [TimerIds -> TimerType]
    <3>1. ASSUME NEW t \in TimerIds
          PROVE  /\ [timer[t] EXCEPT !.next = seen[i] + timer[t].ms] \in TimerType
                 /\ [timer[t] EXCEPT !.cb = FALSE] \in TimerType
                 /\ timer[t] \in TimerType
      <4>1. timer[t] \in TimerType
        BY DEF TypeOK
      <4>2. seen[i] + timer[t].ms \in Int
        BY <2>2, <4>1 DEF TimerType
      <4>3. QED
        BY <4>1, <4>2 DEF TimerType
    <3>2. timer' = [t \in TimerIds |->
            IF t \notin expired THEN timer[t]
            ELSE IF timer[t].recurring
                 THEN [timer[t] EXCEPT !.next = seen[i] + timer[t].ms]
                 ELSE [timer[t] EXCEPT !.cb = FALSE]]
      BY <1>13 DEF Collect, expired
    <3>3. QED
      BY <3>1, <3>2
  <2>4. cbs' \in [Idlers -> SUBSET TimerIds]
    BY <1>13, <2>1 DEF Collect, TypeOK, expired
  <2>5. since' \in [TimerIds -> Nat]
    <3>1. since' = [t \in TimerIds |->
            IF t \in expired THEN IF timer'[t].next < now THEN now ELSE 0
            ELSE since[t]]
      BY <1>13 DEF Collect, expired
    <3>2. QED
      BY <2>2, <3>1 DEF TypeOK
  <2>6. /\ previous' \in Nat /\ timers' \subseteq TimerIds
        /\ seen' \in [Idlers -> Nat]
        /\ pc' \in [Idlers -> IdlePlaces]
    BY <1>13, <2>2 DEF Collect, GoTo, TypeOK, IdlePlaces
  <2>7. QED
    BY <1>13, <2>3, <2>4, <2>5, <2>6 DEF Collect, TypeOK
<1>14. ASSUME NEW i \in Idlers, ScheduleCb(i) PROVE TypeOK'
  <2>1. PICK t \in cbs[i] :
          /\ runs' = [runs EXCEPT ![t] = IF @ < MaxRuns THEN @ + 1 ELSE @]
          /\ cbs' = [cbs EXCEPT ![i] = @ \ {t}]
          /\ GoTo(i, IF cbs[i] = {t} THEN "run" ELSE "sched")
    BY <1>14 DEF ScheduleCb
  <2>2. t \in TimerIds
    BY DEF TypeOK
  <2>3. runs' \in [TimerIds -> 0 .. MaxRuns]
    BY <2>1, <2>2 DEF TypeOK
  <2>4. cbs' \in [Idlers -> SUBSET TimerIds] /\ pc' \in [Idlers -> IdlePlaces]
    BY <2>1 DEF TypeOK, GoTo, IdlePlaces
  <2>5. QED
    BY <1>14, <2>3, <2>4 DEF ScheduleCb, TypeOK, manager
<1>15. CASE Tick
  BY <1>15 DEF Tick, TypeOK, manager, idling, history
<1>16. ASSUME NEW k \in Jumps, SetBack(k) PROVE TypeOK'
  <2>1. now' \in Nat
    BY <1>16 DEF SetBack, TypeOK
  <2>2. until' \in [Idlers -> Nat \cup {Never}]
    <3>1. k \in Nat /\ \A i \in Idlers : until[i] = Never \/ until[i] \in Nat
      BY DEF TypeOK
    <3>2. QED
      BY <1>16, <3>1 DEF SetBack
  <2>3. QED
    BY <1>16, <2>1, <2>2 DEF SetBack, TypeOK, manager, history
<1>17. QED
  BY <1>1, <1>2, <1>3, <1>4, <1>5, <1>6, <1>7, <1>8, <1>9, <1>10, <1>11,
     <1>12, <1>13, <1>14, <1>15, <1>16 DEF Next, Program, IdleStep

\* The type invariant of Timers, in particular: no thread ever asks epoll_wait()
\* to sleep longer than MAX_TIMEOUT.
THEOREM Typing == Spec => []TypeOK
BY InitType, NextType, PTL DEF Spec

(***************************************************************************)
(* A timer is in m_timers exactly while it has its callback.               *)
(***************************************************************************)
\* What the two theorems below need: m_timers holds only timers whose addTimer()
\* has inserted them, a timer that was not inserted has no history, and a
\* cancelled timer keeps no callback.
Inv ==
  /\ Registered
  /\ FiresOnce
  /\ \A t \in timers : timer[t].phase = "known"
  /\ \A t \in cancelled : timer[t].phase = "known" /\ ~timer[t].cb
  /\ \A t \in TimerIds : timer[t].phase # "known" =>
       runs[t] = 0 /\ \A i \in Idlers : t \notin cbs[i]
  /\ \A t \in TimerIds : timer[t].phase = "made" => timer[t].cb

LEMMA InitInv == Init => Inv
BY DEF Init, Inv, Registered, FiresOnce

\* A step that changes neither m_timers nor the callbacks.
LEMMA InvUnchanged ==
  ASSUME Inv, UNCHANGED <<timers, timer, cbs, runs, cancelled>>
  PROVE  Inv'
BY DEF Inv, Registered, FiresOnce

\* A step that moves timers in time only.
LEMMA InvInTime ==
  ASSUME TypeOK, Inv, UNCHANGED <<timers, cbs, runs, cancelled>>,
         \A u \in TimerIds : /\ timer'[u].phase = timer[u].phase
                            /\ timer'[u].cb = timer[u].cb
                            /\ timer'[u].recurring = timer[u].recurring
  PROVE  Inv'
<1>1. timers \subseteq TimerIds /\ cancelled \subseteq TimerIds
  BY DEF TypeOK
<1>2. Registered'
  BY DEF Inv, Registered
<1>3. FiresOnce'
  BY DEF Inv, FiresOnce
<1>4. /\ \A t \in timers' : timer'[t].phase = "known"
      /\ \A t \in cancelled' : timer'[t].phase = "known" /\ ~timer'[t].cb
  BY <1>1 DEF Inv
<1>5. /\ \A t \in TimerIds : timer'[t].phase # "known" =>
           runs'[t] = 0 /\ \A i \in Idlers : t \notin cbs'[i]
      /\ \A t \in TimerIds : timer'[t].phase = "made" => timer'[t].cb
  BY DEF Inv
<1>6. QED
  BY <1>2, <1>3, <1>4, <1>5 DEF Inv

LEMMA NextInv == TypeOK /\ Inv /\ [Next]_vars => Inv'
<1> SUFFICES ASSUME TypeOK, Inv, [Next]_vars PROVE Inv'
  OBVIOUS
<1>1. CASE UNCHANGED vars
  BY <1>1, InvUnchanged DEF vars, manager, idling, history
<1>2. ASSUME NEW t \in TimerIds, NEW ms \in Periods, NEW b \in BOOLEAN,
             Create(t, ms, b)
      PROVE  Inv'
  <2>1. /\ timer[t].phase = "new"
        /\ timer'[t].phase = "made" /\ timer'[t].cb
        /\ \A u \in TimerIds : u # t => timer'[u] = timer[u]
        /\ UNCHANGED <<timers, cbs, runs, cancelled>>
    BY <1>2 DEF Create, TypeOK, idling, history
  <2>2. t \notin timers /\ t \notin cancelled
    BY <2>1 DEF Inv
  <2>3. runs[t] = 0 /\ \A i \in Idlers : t \notin cbs[i]
    BY <2>1 DEF Inv
  <2>4. Registered'
    BY <2>1 DEF Inv, Registered
  <2>5. FiresOnce'
    BY <2>1, <2>2, <2>3 DEF Inv, FiresOnce
  <2>6. /\ \A u \in timers' : timer'[u].phase = "known"
        /\ \A u \in cancelled' : timer'[u].phase = "known" /\ ~timer'[u].cb
    BY <2>1, <2>2 DEF Inv, TypeOK
  <2>7. /\ \A u \in TimerIds : timer'[u].phase # "known" =>
             runs[u] = 0 /\ \A i \in Idlers : u \notin cbs[i]
        /\ \A u \in TimerIds : timer'[u].phase = "made" => timer'[u].cb
    BY <2>1, <2>3 DEF Inv
  <2>8. QED
    BY <2>1, <2>4, <2>5, <2>6, <2>7 DEF Inv
<1>3. ASSUME NEW t \in TimerIds, NEW ms \in Periods, NEW b \in BOOLEAN,
             Reset(t, ms, b)
      PROVE  Inv'
  <2>1. /\ timers' = timers
        /\ \A u \in TimerIds : /\ timer'[u].phase = timer[u].phase
                               /\ timer'[u].cb = timer[u].cb
                               /\ timer'[u].recurring = timer[u].recurring
        /\ UNCHANGED <<cbs, runs, cancelled>>
    BY <1>3 DEF Reset, Insert, TypeOK, TimerType, idling
  <2>2. QED
    BY <2>1, InvInTime
<1>4. ASSUME NEW t \in TimerIds, Add(t) PROVE Inv'
  <2>1. /\ timers' = timers \cup {t}
        /\ timer[t].phase = "made"
        /\ timer'[t].phase = "known"
        /\ \A u \in TimerIds : /\ u # t => timer'[u].phase = timer[u].phase
                               /\ timer'[u].cb = timer[u].cb
                               /\ timer'[u].recurring = timer[u].recurring
        /\ UNCHANGED <<cbs, runs, cancelled>>
    <3>1. /\ timers' = timers \cup {t} /\ timer[t].phase = "made"
          /\ timer' = [timer EXCEPT ![t] = [timer[t] EXCEPT !.phase = "known"]]
          /\ UNCHANGED <<cbs, runs, cancelled>>
      BY <1>4 DEF Add, Insert, idling
    <3>2. timer \in [TimerIds -> TimerType]
      BY DEF TypeOK
    <3>3. QED
      BY <3>1, <3>2 DEF TimerType
  <2>2. timer[t].cb /\ t \notin cancelled /\ t \notin timers
    BY <2>1 DEF Inv
  <2>3. runs[t] = 0 /\ \A i \in Idlers : t \notin cbs[i]
    BY <2>1 DEF Inv
  <2>4. Registered'
    BY <2>1, <2>2 DEF Inv, Registered
  <2>5. FiresOnce'
    <3> SUFFICES ASSUME NEW u \in TimerIds, ~timer[u].recurring
                 PROVE  /\ runs[u] <= 1
                        /\ \A i, k \in Idlers : u \in cbs[i] /\ u \in cbs[k] => i = k
                        /\ (\E i \in Idlers : u \in cbs[i]) => runs[u] = 0
                        /\ u \in timers' \cup cancelled =>
                             runs[u] = 0 /\ \A i \in Idlers : u \notin cbs[i]
      BY <2>1 DEF FiresOnce
    <3>1. CASE u = t
      BY <2>3, <3>1
    <3>2. CASE u # t
      BY <2>1, <3>2 DEF Inv, FiresOnce
    <3>3. QED
      BY <3>1, <3>2
  <2>6. \A u \in TimerIds : timer'[u].phase # "known" =>
          u # t /\ timer'[u].phase = timer[u].phase
    BY <2>1
  <2>7. /\ \A u \in timers' : timer'[u].phase = "known"
        /\ \A u \in cancelled : timer'[u].phase = "known" /\ ~timer'[u].cb
    BY <2>1, <2>2 DEF Inv, TypeOK
  <2>8. QED
    BY <2>1, <2>4, <2>5, <2>6, <2>7 DEF Inv
<1>5. ASSUME NEW t \in TimerIds, Cancel(t) PROVE Inv'
  <2>1. /\ timers' = timers \ {t} /\ cancelled' = cancelled \cup {t}
        /\ timer[t].phase = "known" /\ timer[t].cb
        /\ ~timer'[t].cb
        /\ \A u \in TimerIds : /\ timer'[u].phase = timer[u].phase
                               /\ u # t => timer'[u].cb = timer[u].cb
                               /\ timer'[u].recurring = timer[u].recurring
        /\ UNCHANGED <<cbs, runs>>
    <3>1. /\ timers' = timers \ {t} /\ cancelled' = cancelled \cup {t}
          /\ timer[t].phase = "known" /\ timer[t].cb
          /\ timer' = [timer EXCEPT ![t] = [timer[t] EXCEPT !.cb = FALSE]]
          /\ UNCHANGED <<cbs, runs>>
      BY <1>5 DEF Cancel, idling
    <3>2. timer \in [TimerIds -> TimerType]
      BY DEF TypeOK
    <3>3. QED
      BY <3>1, <3>2 DEF TimerType
  <2>2. t \in timers
    BY <2>1 DEF Inv, Registered
  <2>3. Registered'
    BY <2>1 DEF Inv, Registered
  <2>4. FiresOnce'
    <3>1. \A u \in TimerIds : u \in timers' \cup cancelled' <=> u \in timers \cup cancelled
      BY <2>1, <2>2
    <3>2. QED
      BY <2>1, <3>1 DEF Inv, FiresOnce
  <2>5. /\ \A u \in timers' : timer'[u].phase = "known"
        /\ \A u \in cancelled' : timer'[u].phase = "known" /\ ~timer'[u].cb
    BY <2>1 DEF Inv, TypeOK
  <2>6. \A u \in TimerIds : timer'[u].phase = "made" => timer'[u].cb
    BY <2>1 DEF Inv
  <2>7. QED
    BY <2>1, <2>3, <2>4, <2>5, <2>6 DEF Inv
<1>6. ASSUME NEW t \in TimerIds, Refresh(t) PROVE Inv'
  <2>1. /\ timers' = timers
        /\ \A u \in TimerIds : /\ timer'[u].phase = timer[u].phase
                               /\ timer'[u].cb = timer[u].cb
                               /\ timer'[u].recurring = timer[u].recurring
        /\ UNCHANGED <<cbs, runs, cancelled>>
    <3>1. /\ timer' = [timer EXCEPT ![t] = [timer[t] EXCEPT !.next = now]]
          /\ UNCHANGED <<timers, cbs, runs, cancelled>>
      BY <1>6 DEF Refresh, idling
    <3>2. timer \in [TimerIds -> TimerType]
      BY DEF TypeOK
    <3>3. QED
      BY <3>1, <3>2 DEF TimerType
  <2>2. QED
    BY <2>1, InvInTime
<1>7. ASSUME NEW i \in Idlers, Collect(i) PROVE Inv'
  <2> DEFINE expired == Expired(seen[i])
  <2>1. expired \subseteq timers
    BY DEF Expired
  <2>2. /\ timers' = timers \ {t \in expired : ~timer[t].recurring}
        /\ cbs' = [cbs EXCEPT ![i] = expired]
        /\ timer' = [t \in TimerIds |->
             IF t \notin expired THEN timer[t]
             ELSE IF timer[t].recurring
                  THEN [timer[t] EXCEPT !.next = seen[i] + timer[t].ms]
                  ELSE [timer[t] EXCEPT !.cb = FALSE]]
        /\ UNCHANGED <<runs, cancelled>>
    BY <1>7 DEF Collect
  <2> HIDE DEF expired
  <2>3. \A t \in TimerIds :
          /\ timer'[t].phase = timer[t].phase
          /\ timer'[t].recurring = timer[t].recurring
          /\ timer'[t].cb = IF t \in expired /\ ~timer[t].recurring
                            THEN FALSE ELSE timer[t].cb
    BY <2>2 DEF TypeOK, TimerType
  <2>4. \A k \in Idlers : cbs'[k] = IF k = i THEN expired ELSE cbs[k]
    BY <2>2 DEF TypeOK
  <2>5. \A t \in TimerIds : t \in expired =>
          timer[t].phase = "known" /\ timer[t].cb /\ t \notin cancelled
    BY <2>1 DEF Inv, Registered
  <2>6. Registered'
    BY <2>1, <2>2, <2>3 DEF Inv, Registered
  <2>7. FiresOnce'
    BY <2>1, <2>2, <2>3, <2>4, <2>5 DEF Inv, FiresOnce
  <2>8. QED
    BY <2>1, <2>2, <2>3, <2>4, <2>5, <2>6, <2>7 DEF Inv, TypeOK
<1>8. ASSUME NEW i \in Idlers, ScheduleCb(i) PROVE Inv'
  <2>1. PICK t \in cbs[i] :
          /\ runs' = [runs EXCEPT ![t] = IF @ < MaxRuns THEN @ + 1 ELSE @]
          /\ cbs' = [cbs EXCEPT ![i] = @ \ {t}]
    BY <1>8 DEF ScheduleCb
  <2>2. UNCHANGED <<timers, timer, cancelled>>
    BY <1>8 DEF ScheduleCb, manager
  <2>3. t \in TimerIds
    BY DEF TypeOK
  <2>4. \A k \in Idlers : cbs'[k] = IF k = i THEN cbs[k] \ {t} ELSE cbs[k]
    BY <2>1 DEF TypeOK
  <2>5. /\ \A u \in TimerIds : u # t => runs'[u] = runs[u]
        /\ runs[t] = 0 => runs'[t] <= 1
    BY <2>1, <2>3, TimerConstants DEF TypeOK
  <2>6. FiresOnce'
    <3> SUFFICES ASSUME NEW u \in TimerIds, ~timer[u].recurring
                 PROVE
                   /\ runs'[u] <= 1
                   /\ \A j, k \in Idlers : u \in cbs'[j] /\ u \in cbs'[k] => j = k
                   /\ (\E j \in Idlers : u \in cbs'[j]) => runs'[u] = 0
                   /\ u \in timers \cup cancelled =>
                        runs'[u] = 0 /\ \A j \in Idlers : u \notin cbs'[j]
      BY <2>2 DEF FiresOnce
    <3>1. CASE u = t
      <4>1. /\ runs[t] = 0 /\ t \notin timers \cup cancelled
            /\ \A k \in Idlers : t \in cbs[k] => k = i
        BY <2>1, <2>3, <3>1 DEF Inv, FiresOnce
      <4>2. \A k \in Idlers : t \notin cbs'[k]
        BY <2>4, <4>1
      <4>3. QED
        BY <2>5, <3>1, <4>1, <4>2
    <3>2. CASE u # t
      <4>1. runs'[u] = runs[u] /\ \A k \in Idlers : u \in cbs'[k] => u \in cbs[k]
        BY <2>4, <2>5, <3>2
      <4>2. QED
        BY <4>1 DEF Inv, FiresOnce
    <3>3. QED
      BY <3>1, <3>2
  <2>7. timer[t].phase = "known"
    BY <2>3 DEF Inv
  <2>8. QED
    BY <2>2, <2>3, <2>4, <2>5, <2>6, <2>7 DEF Inv, Registered, TypeOK
<1>9. ASSUME NEW i \in Idlers,
             EnterIdle(i) \/ NextTimer(i) \/ Poll(i) \/ Interrupted(i)
               \/ Wake(i) \/ ReadClock(i)
      PROVE  Inv'
  BY <1>9, InvUnchanged
     DEF EnterIdle, NextTimer, Poll, Interrupted, Wake, ReadClock, manager,
         history
<1>10. ASSUME Notify \/ Tick \/ \E k \in Jumps : SetBack(k) PROVE Inv'
  BY <1>10, InvUnchanged DEF Notify, Tick, SetBack, manager, idling, history
<1>11. QED
  BY <1>1, <1>2, <1>3, <1>4, <1>5, <1>6, <1>7, <1>8, <1>9, <1>10
     DEF Next, Program, IdleStep

\* cancel() always finds the timer whose callback it saw in m_timers, however
\* many threads collect, cancel and reset timers.
THEOREM AlwaysRegistered == Spec => []Registered
BY InitInv, NextInv, Typing, PTL DEF Spec, Inv

\* No one-shot timer runs twice, or after it was cancelled.
THEOREM OneShotFiresOnce == Spec => []FiresOnce
BY InitInv, NextInv, Typing, PTL DEF Spec, Inv

(***************************************************************************)
(* No timer is collected before it is due.                                 *)
(***************************************************************************)
\* The program leaves the clock and the idle threads alone.
LEMMA ProgramAlone == Program => UNCHANGED <<now, previous, idling>>
<1>1. ASSUME NEW t \in TimerIds, NEW ms \in Periods, NEW b \in BOOLEAN,
             Create(t, ms, b) \/ Reset(t, ms, b)
      PROVE  UNCHANGED <<now, previous, idling>>
  BY <1>1 DEF Create, Reset
<1>2. ASSUME NEW t \in TimerIds, Add(t) \/ Cancel(t) \/ Refresh(t)
      PROVE  UNCHANGED <<now, previous, idling>>
  BY <1>2 DEF Add, Cancel, Refresh
<1>3. CASE Notify
  BY <1>3 DEF Notify
<1>4. QED
  BY <1>1, <1>2, <1>3 DEF Program

\* What a thread newly holds it has just collected.
LEMMA NewlyHeld ==
  ASSUME TypeOK, [Next]_vars, NEW i \in Idlers, NEW t \in cbs'[i] \ cbs[i]
  PROVE  Collect(i) /\ t \in Expired(seen[i])
<1>1. ASSUME NEW k \in Idlers, Collect(k)
      PROVE  Collect(i) /\ t \in Expired(seen[i])
  <2>1. cbs' = [cbs EXCEPT ![k] = Expired(seen[k])]
    BY <1>1 DEF Collect
  <2>2. k = i /\ t \in Expired(seen[i])
    BY <2>1 DEF TypeOK
  <2>3. QED
    BY <1>1, <2>2
<1>2. ASSUME NEW k \in Idlers, ScheduleCb(k) PROVE FALSE
  BY <1>2 DEF ScheduleCb, TypeOK
<1>3. ASSUME NEW k \in Idlers,
             EnterIdle(k) \/ NextTimer(k) \/ Poll(k) \/ Interrupted(k) \/ Wake(k)
               \/ ReadClock(k)
      PROVE  cbs' = cbs
  BY <1>3 DEF EnterIdle, NextTimer, Poll, Interrupted, Wake, ReadClock
<1>4. ASSUME \/ UNCHANGED vars \/ Program \/ Tick
             \/ \E k \in Jumps : SetBack(k)
      PROVE  cbs' = cbs
  BY <1>4, ProgramAlone DEF vars, Tick, SetBack, idling
<1>5. QED
  BY <1>1, <1>2, <1>3, <1>4 DEF Next, IdleStep

\* A timer is collected before it is due only if the clock was set back after the
\* thread had read it, or if the reading is taken for a clock set back: whatever
\* the clock does and however long the reading is kept.
THEOREM NeverEarly == Spec => NotEarly
<1>1. ASSUME TypeOK, [Next]_vars, NEW i \in Idlers, NEW t \in cbs'[i] \ cbs[i]
      PROVE  timer[t].next <= now \/ now < seen[i] \/ seen[i] + Hour < previous
  <2>1. t \in Expired(seen[i])
    BY <1>1, NewlyHeld
  <2>2. /\ now \in Nat /\ previous \in Nat /\ seen[i] \in Nat /\ Hour \in Nat
        /\ timer[t].next \in Int
    <3>1. t \in TimerIds
      BY <1>1, <2>1 DEF Expired, TypeOK
    <3>2. timer[t].next \in Int
      BY <1>1, <3>1 DEF TypeOK, TimerType
    <3>3. QED
      BY <1>1, <3>2, TimerConstants DEF TypeOK
  <2>3. CASE Rollover(seen[i])
    BY <2>2, <2>3 DEF Rollover
  <2>4. CASE ~Rollover(seen[i])
    <3>1. timer[t].next <= seen[i]
      BY <2>1, <2>4 DEF Expired
    <3>2. QED
      BY <2>2, <3>1
  <2>5. QED
    BY <2>3, <2>4
<1>2. TypeOK /\ [Next]_vars =>
        [\A i \in Idlers : \A t \in cbs'[i] \ cbs[i] :
           \/ timer[t].next <= now
           \/ now < seen[i]
           \/ seen[i] + Hour < previous]_vars
  BY <1>1
<1>3. QED
  BY <1>2, Typing, PTL DEF Spec, NotEarly

\* The clock is never set back, ...
ClockForward == [][now <= now']_vars

\* ... and no thread keeps a reading of it for more than an hour.
ReadingsFresh == \A i \in Idlers : At(i, "list") => now <= seen[i] + Hour

\* No reading, and no m_previouseTime, is of the future.
PastInv ==
  /\ previous <= now
  /\ \A i \in Idlers : At(i, "list") => seen[i] <= now

LEMMA PastStep ==
  ASSUME TypeOK, PastInv, [Next]_vars, [now <= now']_vars
  PROVE  PastInv'
<1> USE DEF PastInv, At, TypeOK
<1>1. CASE UNCHANGED vars \/ Program
  <2>1. UNCHANGED <<now, previous, idling>>
    BY <1>1, ProgramAlone DEF vars, manager
  <2>2. QED
    BY <2>1 DEF idling
<1>2. ASSUME NEW i \in Idlers,
             EnterIdle(i) \/ NextTimer(i) \/ Poll(i) \/ Interrupted(i) \/ Wake(i)
               \/ ScheduleCb(i)
      PROVE  PastInv'
  <2>1. UNCHANGED <<now, previous, seen>>
        /\ \A k \in Idlers : pc'[k] = "list" => pc[k] = "list"
    BY <1>2
       DEF EnterIdle, NextTimer, Poll, Interrupted, Wake, ScheduleCb, GoTo,
           manager, history
  <2>2. QED
    BY <2>1
<1>3. ASSUME NEW i \in Idlers, ReadClock(i) PROVE PastInv'
  BY <1>3 DEF ReadClock, GoTo, manager
<1>4. ASSUME NEW i \in Idlers, Collect(i) PROVE PastInv'
  <2>1. /\ previous' \in {previous, seen[i]} /\ now' = now /\ pc[i] = "list"
        /\ \A k \in Idlers : pc'[k] = "list" => k # i /\ pc[k] = "list"
        /\ \A k \in Idlers : k # i => seen'[k] = seen[k]
    BY <1>4 DEF Collect, GoTo
  <2>2. QED
    BY <2>1
<1>5. CASE Tick \/ \E k \in Jumps : SetBack(k)
  <2>1. UNCHANGED <<previous, pc, seen>> /\ now' \in Nat
    <3>1. TypeOK'
      BY NextType
    <3>2. QED
      BY <1>5, <3>1 DEF Tick, SetBack, manager, idling
  <2>2. now <= now'
    BY <2>1 DEF vars
  <2>3. QED
    BY <2>1, <2>2
<1>6. QED
  BY <1>1, <1>2, <1>3, <1>4, <1>5 DEF Next, IdleStep

\* As long as the clock is not set back and no thread keeps its reading for more
\* than an hour, no timer is collected before it is due: the clock and all other
\* threads may go on between the reading and the lock.
THEOREM ForwardNeverEarly ==
  Spec /\ ClockForward /\ []ReadingsFresh =>
    [][\A i \in Idlers : \A t \in cbs'[i] \ cbs[i] : timer[t].next <= now]_vars
<1>1. ASSUME TypeOK, PastInv, ReadingsFresh, [Next]_vars,
             NEW i \in Idlers, NEW t \in cbs'[i] \ cbs[i]
      PROVE  timer[t].next <= now
  <2>1. t \in Expired(seen[i]) /\ At(i, "list")
    BY <1>1, NewlyHeld DEF Collect
  <2>2. /\ now \in Nat /\ previous \in Nat /\ seen[i] \in Nat /\ Hour \in Nat
        /\ timer[t].next \in Int
    <3>1. t \in TimerIds
      BY <1>1, <2>1 DEF Expired, TypeOK
    <3>2. timer[t].next \in Int
      BY <1>1, <3>1 DEF TypeOK, TimerType
    <3>3. QED
      BY <1>1, <3>2, TimerConstants DEF TypeOK
  <2>3. previous <= now /\ seen[i] <= now /\ now <= seen[i] + Hour
    BY <1>1, <2>1 DEF PastInv, ReadingsFresh
  <2>4. ~Rollover(seen[i])
    BY <2>2, <2>3 DEF Rollover
  <2>5. timer[t].next <= seen[i]
    BY <2>1, <2>4 DEF Expired
  <2>6. QED
    BY <2>2, <2>3, <2>5
<1>2. TypeOK /\ PastInv /\ ReadingsFresh /\ [Next]_vars =>
        [\A i \in Idlers : \A t \in cbs'[i] \ cbs[i] : timer[t].next <= now]_vars
  BY <1>1
<1>3. Init => PastInv
  BY TimerConstants DEF Init, PastInv, At
<1>4. QED
  BY <1>2, <1>3, PastStep, Typing, PTL DEF Spec, ClockForward

(***************************************************************************)
(* Punctuality, when the threads have nothing else to do (TimelySpec).     *)
(***************************************************************************)
\* A time that is read is the time at which it is used: the clock stands still
\* while a thread is between epoll_wait() and the next one.
ClockInv ==
  /\ previous <= now
  /\ \A i \in Idlers : At(i, "list") => seen[i] = now

\* Whatever a thread reads of the clock, it does not mistake it for a rollover.
LEMMA NoRollover ==
  ASSUME TypeOK, ClockInv, NEW i \in Idlers, At(i, "list")
  PROVE  Expired(seen[i]) = {t \in timers : timer[t].next <= now}
BY TimerConstants DEF ClockInv, TypeOK, Expired, Rollover

LEMMA TimelyIsNext == [TimelyNext]_vars => [Next]_vars
BY DEF TimelyNext, Next

LEMMA ClockStep == TypeOK /\ ClockInv /\ [TimelyNext]_vars => ClockInv'
<1> SUFFICES ASSUME TypeOK, ClockInv, [TimelyNext]_vars PROVE ClockInv'
  OBVIOUS
<1> USE DEF ClockInv, At, TypeOK
<1>1. CASE UNCHANGED vars \/ Program
  <2>1. UNCHANGED <<now, previous, idling>>
    BY <1>1, ProgramAlone DEF vars, manager
  <2>2. QED
    BY <2>1 DEF idling
<1>2. ASSUME NEW i \in Idlers,
             EnterIdle(i) \/ NextTimer(i) \/ Poll(i) \/ Wake(i) \/ ScheduleCb(i)
      PROVE  ClockInv'
  <2>1. UNCHANGED <<now, previous, seen>>
        /\ \A k \in Idlers : pc'[k] = "list" => pc[k] = "list"
    BY <1>2
       DEF EnterIdle, NextTimer, Poll, Wake, ScheduleCb, GoTo, manager, history
  <2>2. QED
    BY <2>1
<1>3. ASSUME NEW i \in Idlers, ReadClock(i) PROVE ClockInv'
  BY <1>3 DEF ReadClock, GoTo, manager
<1>4. ASSUME NEW i \in Idlers, Collect(i) PROVE ClockInv'
  <2>1. /\ previous' \in {previous, now} /\ now' = now
        /\ \A k \in Idlers : pc'[k] = "list" => k # i /\ pc[k] = "list"
        /\ \A k \in Idlers : k # i => seen'[k] = seen[k]
    BY <1>4 DEF Collect, GoTo
  <2>2. QED
    BY <2>1
<1>5. CASE AllAsleep /\ Tick
  BY <1>5 DEF AllAsleep, Tick, manager, idling
<1>6. QED
  BY <1>1, <1>2, <1>3, <1>4, <1>5 DEF TimelyNext, IdleStep

LEMMA TimelyClock == TimelySpec => [](TypeOK /\ Inv /\ ClockInv)
<1>1. Init => ClockInv
  BY TimerConstants DEF Init, ClockInv, At
<1>2. QED
  BY <1>1, InitType, NextType, InitInv, NextInv, ClockStep, TimelyIsNext, PTL
     DEF TimelySpec

\* No period of the program is as long as 2^31 milliseconds.
ShortPeriods == \A ms \in Periods : ms < IntSpan \div 2

\* When a timer has to be collected.
Deadline(t) == Later(timer[t].next, since[t]) + MaxTimeout

\* A timer is never farther away than its period, ...
NearInv ==
  \A t \in TimerIds :
    /\ timer[t].next <= now + timer[t].ms
    /\ timer[t].phase # "new" => timer[t].ms \in Periods

\* ... and no thread is about to sleep, or sleeps, beyond the deadline of a timer.
SleepInv ==
  \A i \in Idlers :
    /\ At(i, "poll") =>
         wait[i] >= 0 /\ \A t \in timers : now + wait[i] <= Deadline(t)
    /\ At(i, "wait") =>
         /\ until[i] # Never /\ until[i] <= now + MaxTimeout
         /\ \A t \in timers : until[i] <= Deadline(t)

LEMMA ShortTimeout ==
  ASSUME NEW ms \in Nat, ms < IntSpan \div 2
  PROVE  Timeout(ms) = IF ms < MaxTimeout THEN ms ELSE MaxTimeout
<1>1. IntSpan \in Nat \ {0}
  BY TimerConstants
<1>2. ms % IntSpan = ms
  BY <1>1
<1>3. QED
  BY <1>1, <1>2, TimerConstants DEF Timeout, ToInt

\* What addTimer() and reset() put into m_timers has its deadline at least
\* MAX_TIMEOUT from now.
LEMMA InsertDeadline ==
  ASSUME TypeOK, NEW t \in TimerIds, NEW fields \in TimerType, Insert(t, fields)
  PROVE  /\ timers' = timers \cup {t}
         /\ timer'[t] = fields
         /\ now + MaxTimeout <= Deadline(t)'
         /\ \A u \in TimerIds \ {t} :
              timer'[u] = timer[u] /\ Deadline(u)' = Deadline(u)
<1>1. /\ timers' = timers \cup {t} /\ timer'[t] = fields
      /\ since'[t] = IF fields.next < now THEN now ELSE 0
      /\ \A u \in TimerIds \ {t} : timer'[u] = timer[u] /\ since'[u] = since[u]
  BY DEF Insert, TypeOK
<1>2. now \in Nat /\ fields.next \in Int
  BY DEF TypeOK, TimerType
<1>3. now + MaxTimeout <= Deadline(t)'
  BY <1>1, <1>2, TimerConstants DEF Deadline, Later
<1>4. QED
  BY <1>1, <1>3 DEF Deadline

\* OnTime with what makes it inductive.
LateInv == NearInv /\ SleepInv /\ OnTime

\* A step that leaves the clock and the idle threads alone keeps every deadline,
\* or sets it anew.
LEMMA DeadlinesKept ==
  ASSUME TypeOK, SleepInv, OnTime, UNCHANGED <<now, idling>>,
         \A t \in timers' : t \in TimerIds /\ Deadline(t)' \in Int /\
           \/ t \in timers /\ Deadline(t)' = Deadline(t)
           \/ now + MaxTimeout <= Deadline(t)'
  PROVE  SleepInv' /\ OnTime'
<1>1. now \in Nat /\ MaxTimeout \in Nat
      /\ \A i \in Idlers : wait[i] \in Int /\ wait[i] <= MaxTimeout
                           /\ (until[i] \in Nat \/ until[i] = Never)
  BY TimerConstants DEF TypeOK
<1>2. UNCHANGED <<pc, wait, until>>
  BY DEF idling
<1>3. ASSUME NEW i \in Idlers, At(i, "poll")', NEW t \in timers'
      PROVE  wait'[i] >= 0 /\ now' + wait'[i] <= Deadline(t)'
  BY <1>1, <1>2, <1>3 DEF SleepInv, At
<1>4. ASSUME NEW i \in Idlers, At(i, "wait")'
      PROVE  /\ until'[i] # Never /\ until'[i] <= now' + MaxTimeout
             /\ \A t \in timers' : until'[i] <= Deadline(t)'
  BY <1>1, <1>2, <1>4 DEF SleepInv, At
<1>5. SleepInv'
  BY <1>2, <1>3, <1>4 DEF SleepInv, At
<1>6. OnTime'
  BY <1>1 DEF OnTime, Deadline
<1>7. QED
  BY <1>5, <1>6

\* Whatever the program does to a timer, no thread sleeps beyond its deadline.
LEMMA ProgramKeepsLate ==
  ASSUME TypeOK, Inv, LateInv, Program
  PROVE  LateInv'
<1>1. UNCHANGED <<now, idling>> /\ now \in Nat /\ Periods \subseteq Nat
  BY ProgramAlone, TimerConstants DEF TypeOK
<1>2. \A t \in TimerIds :
        /\ timer[t] \in TimerType /\ since[t] \in Nat /\ Deadline(t) \in Int
        /\ timer[t].next \in Int /\ timer[t].ms \in Nat
  BY TimerConstants DEF TypeOK, TimerType, Deadline, Later
<1>3. TypeOK'
  <2>1. [Next]_vars
    BY DEF Next
  <2>2. QED
    BY <2>1, NextType
<1>4. \A t \in TimerIds : Deadline(t)' \in Int
  BY <1>3, TimerConstants DEF TypeOK, TimerType, Deadline, Later
<1>5. timers \subseteq TimerIds /\ timers' \subseteq TimerIds
      /\ \A t \in timers : timer[t].phase = "known"
  BY <1>3 DEF TypeOK, Inv
<1>6. ASSUME NEW t \in TimerIds, NEW ms \in Periods, NEW b \in BOOLEAN,
             Create(t, ms, b)
      PROVE  LateInv'
  <2>1. /\ UNCHANGED <<timers, since>>
        /\ timer'[t].next = now + ms /\ timer'[t].ms = ms
        /\ \A u \in TimerIds \ {t} : timer'[u] = timer[u]
        /\ t \notin timers
    BY <1>5, <1>6 DEF Create, history, TypeOK
  <2>2. NearInv'
    BY <1>1, <2>1 DEF LateInv, NearInv
  <2>3. \A u \in timers' : u \in timers /\ Deadline(u)' = Deadline(u)
    BY <1>5, <2>1 DEF Deadline
  <2>4. QED
    BY <1>1, <1>4, <1>5, <2>2, <2>3, DeadlinesKept DEF LateInv
<1>7. ASSUME NEW t \in TimerIds, NEW ms \in Periods, NEW b \in BOOLEAN,
             Reset(t, ms, b)
      PROVE  LateInv'
  <2> DEFINE start == IF b THEN now ELSE timer[t].next - timer[t].ms
             fields == [timer[t] EXCEPT !.ms = ms, !.next = start + ms]
  <2>1. start \in Int /\ start <= now /\ ms \in Nat
    BY <1>1, <1>2 DEF LateInv, NearInv
  <2>2. Insert(t, fields)
    BY <1>7 DEF Reset
  <2> HIDE DEF start
  <2>3. fields \in TimerType /\ fields.next = start + ms /\ fields.ms = ms
        /\ fields.phase = timer[t].phase
    <3>1. timer[t] \in TimerType /\ start + ms \in Int
      BY <1>2, <2>1
    <3>2. fields \in TimerType
      BY <2>1, <3>1 DEF TimerType
    <3>3. QED
      BY <3>1, <3>2 DEF TimerType
  <2> HIDE DEF fields
  <2>4. /\ timers' = timers \cup {t} /\ timer'[t] = fields
        /\ now + MaxTimeout <= Deadline(t)'
        /\ \A u \in TimerIds \ {t} :
             timer'[u] = timer[u] /\ Deadline(u)' = Deadline(u)
    BY <2>2, <2>3, InsertDeadline
  <2>5. NearInv'
    BY <1>1, <2>1, <2>3, <2>4 DEF LateInv, NearInv
  <2>6. QED
    BY <1>1, <1>4, <1>5, <2>4, <2>5, DeadlinesKept DEF LateInv
<1>8. ASSUME NEW t \in TimerIds, Add(t) PROVE LateInv'
  <2> DEFINE fields == [timer[t] EXCEPT !.phase = "known"]
  <2>1. fields \in TimerType /\ fields.next = timer[t].next
        /\ fields.ms = timer[t].ms /\ timer[t].phase = "made"
    BY <1>2, <1>8 DEF TimerType, Add
  <2>2. Insert(t, fields)
    BY <1>8 DEF Add
  <2> HIDE DEF fields
  <2>3. /\ timers' = timers \cup {t} /\ timer'[t] = fields
        /\ now + MaxTimeout <= Deadline(t)'
        /\ \A u \in TimerIds \ {t} :
             timer'[u] = timer[u] /\ Deadline(u)' = Deadline(u)
    BY <2>1, <2>2, InsertDeadline
  <2>4. NearInv'
    BY <1>1, <2>1, <2>3 DEF LateInv, NearInv
  <2>5. QED
    BY <1>1, <1>4, <1>5, <2>3, <2>4, DeadlinesKept DEF LateInv
<1>9. ASSUME NEW t \in TimerIds, Cancel(t) PROVE LateInv'
  <2>1. /\ timers' = timers \ {t} /\ UNCHANGED since
        /\ \A u \in TimerIds : /\ timer'[u].next = timer[u].next
                               /\ timer'[u].ms = timer[u].ms
                               /\ timer'[u].phase = timer[u].phase
    BY <1>9 DEF Cancel, TypeOK, TimerType
  <2>2. NearInv'
    BY <1>1, <2>1 DEF LateInv, NearInv
  <2>3. \A u \in timers' : u \in timers /\ Deadline(u)' = Deadline(u)
    BY <1>5, <2>1 DEF Deadline
  <2>4. QED
    BY <1>1, <1>4, <1>5, <2>2, <2>3, DeadlinesKept DEF LateInv
<1>10. ASSUME NEW t \in TimerIds, Refresh(t) PROVE LateInv'
  <2>1. /\ timers' = timers /\ timer'[t].next = now
        /\ timer'[t].ms = timer[t].ms /\ timer'[t].phase = timer[t].phase
        /\ \A u \in TimerIds \ {t} : timer'[u] = timer[u] /\ since'[u] = since[u]
        /\ since'[t] = 0
    BY <1>10 DEF Refresh, TypeOK, TimerType
  <2>2. NearInv'
    BY <1>1, <1>2, <2>1 DEF LateInv, NearInv
  <2>3. now + MaxTimeout <= Deadline(t)'
    BY <1>1, <2>1, TimerConstants DEF Deadline, Later
  <2>4. \A u \in timers' \ {t} : u \in timers /\ Deadline(u)' = Deadline(u)
    BY <1>5, <2>1 DEF Deadline
  <2>5. QED
    BY <1>1, <1>4, <1>5, <2>2, <2>3, <2>4, DeadlinesKept DEF LateInv
<1>11. CASE Notify
  <2>1. UNCHANGED <<timers, timer, since>>
    BY <1>11 DEF Notify, history
  <2>2. NearInv'
    BY <1>1, <2>1 DEF LateInv, NearInv
  <2>3. \A u \in timers' : u \in timers /\ Deadline(u)' = Deadline(u)
    BY <2>1 DEF Deadline
  <2>4. QED
    BY <1>1, <1>4, <1>5, <2>2, <2>3, DeadlinesKept DEF LateInv
<1>12. QED
  BY <1>6, <1>7, <1>8, <1>9, <1>10, <1>11 DEF Program

\* A thread that asks for the first timer will not sleep beyond any deadline.
LEMMA NextTimerKeepsLate ==
  ASSUME ShortPeriods, TypeOK, Inv, LateInv, NEW i \in Idlers, NextTimer(i)
  PROVE  LateInv'
<1>1. /\ UNCHANGED <<now, timers, timer, since, until>>
      /\ pc' = [pc EXCEPT ![i] = "poll"]
      /\ \A k \in Idlers : k # i => wait'[k] = wait[k]
      /\ now \in Nat /\ MaxTimeout \in Nat
      /\ OnTime
  BY TimerConstants
     DEF NextTimer, GoTo, manager, history, LateInv, TypeOK
<1>2. \A t \in TimerIds :
        /\ timer[t].next \in Int /\ timer[t].ms \in Nat /\ since[t] \in Nat
        /\ timer[t].next <= now + timer[t].ms
        /\ timer[t].phase # "new" => timer[t].ms \in Periods
        /\ Deadline(t) \in Int /\ Deadline(t)' = Deadline(t)
        /\ timer[t].next + MaxTimeout <= Deadline(t)
  BY <1>1 DEF TypeOK, TimerType, LateInv, NearInv, Deadline, Later
<1>3. \A t \in timers : t \in TimerIds /\ timer[t].phase # "new"
  BY DEF TypeOK, Inv
<1>4. wait'[i] >= 0 /\ \A u \in timers : now + wait'[i] <= Deadline(u)
  <2>1. CASE timers = {} /\ wait' = [wait EXCEPT ![i] = NoTimer]
    BY <1>1, <2>1 DEF NoTimer, TypeOK
  <2>2. ASSUME NEW t \in timers,
               \A u \in timers : timer[t].next <= timer[u].next,
               wait' = [wait EXCEPT ![i] = Timeout(Remaining(t))]
        PROVE  wait'[i] >= 0 /\ \A u \in timers : now + wait'[i] <= Deadline(u)
    <3>1. Remaining(t) \in Nat /\ Remaining(t) < IntSpan \div 2
      <4>1. timer[t].ms < IntSpan \div 2 /\ timer[t].ms \in Nat
            /\ IntSpan \div 2 \in Int
        BY <1>2, <1>3, TimerConstants DEF ShortPeriods
      <4>2. QED
        BY <1>1, <1>2, <1>3, <4>1 DEF Remaining
    <3>2. wait'[i] = IF Remaining(t) < MaxTimeout THEN Remaining(t) ELSE MaxTimeout
      BY <2>2, <3>1, ShortTimeout DEF TypeOK
    <3>3. ASSUME NEW u \in timers PROVE now + wait'[i] <= Deadline(u)
      <4>1. CASE now >= timer[t].next
        <5>1. wait'[i] = 0
          BY <1>1, <3>2, <4>1 DEF Remaining
        <5>2. now <= Deadline(u)
          BY <1>1 DEF OnTime, Deadline
        <5>3. QED
          BY <1>1, <5>1, <5>2
      <4>2. CASE ~(now >= timer[t].next)
        <5>1. wait'[i] <= timer[t].next - now /\ wait'[i] \in Int
          BY <1>1, <1>2, <1>3, <3>2, <4>2 DEF Remaining
        <5>2. timer[t].next <= timer[u].next
              /\ timer[u].next + MaxTimeout <= Deadline(u)
              /\ timer[u].next \in Int /\ timer[t].next \in Int
              /\ Deadline(u) \in Int
          BY <1>2, <1>3, <2>2
        <5>3. QED
          BY <1>1, <5>1, <5>2
      <4>3. QED
        BY <4>1, <4>2
    <3>4. QED
      BY <1>1, <3>1, <3>2, <3>3
  <2>3. QED
    BY <2>1, <2>2 DEF NextTimer
<1>5. SleepInv'
  BY <1>1, <1>2, <1>3, <1>4 DEF LateInv, SleepInv, At, TypeOK
<1>6. NearInv' /\ OnTime'
  BY <1>1 DEF LateInv, NearInv, OnTime
<1>7. QED
  BY <1>5, <1>6 DEF LateInv

\* Steps that leave the timers alone.
LEMMA LateUnchanged ==
  ASSUME LateInv, UNCHANGED <<now, timers, timer, since>>
  PROVE  NearInv' /\ OnTime' /\ \A t : Deadline(t)' = Deadline(t)
BY DEF LateInv, NearInv, OnTime, Deadline

\* A recurring timer that is collected gets a new deadline, the others are gone.
LEMMA CollectKeepsLate ==
  ASSUME TypeOK, ClockInv, LateInv, NEW i \in Idlers, Collect(i)
  PROVE  LateInv'
<1> DEFINE expired == Expired(seen[i])
<1>1. /\ timers' = timers \ {t \in expired : ~timer[t].recurring}
      /\ timer' = [t \in TimerIds |->
             IF t \notin expired THEN timer[t]
             ELSE IF timer[t].recurring
                  THEN [timer[t] EXCEPT !.next = seen[i] + timer[t].ms]
                  ELSE [timer[t] EXCEPT !.cb = FALSE]]
      /\ since' = [t \in TimerIds |->
             IF t \in expired THEN IF timer'[t].next < now THEN now ELSE 0
             ELSE since[t]]
      /\ UNCHANGED <<now, wait, until>>
      /\ \A k \in Idlers : pc'[k] \in {"poll", "wait"} => pc[k] = pc'[k]
  BY DEF Collect, GoTo, TypeOK
<1>2. seen[i] = now /\ now \in Nat /\ expired \subseteq timers
      /\ timers \subseteq TimerIds /\ MaxTimeout \in Nat
  BY TimerConstants DEF Collect, ClockInv, TypeOK, Expired
<1> HIDE DEF expired
<1>3. \A t \in TimerIds : timer[t].ms \in Nat /\ timer[t].next \in Int
        /\ timer[t] \in TimerType
  BY DEF TypeOK, TimerType
<1>4. \A t \in TimerIds :
        /\ timer'[t].ms = timer[t].ms /\ timer'[t].phase = timer[t].phase
        /\ timer'[t].next = IF t \in expired /\ timer[t].recurring
                            THEN now + timer[t].ms ELSE timer[t].next
  BY <1>1, <1>2, <1>3 DEF TimerType
<1>5. NearInv'
  BY <1>1, <1>2, <1>3, <1>4 DEF LateInv, NearInv
<1>6. \A t \in timers' :
        \/ t \in timers /\ Deadline(t)' = Deadline(t)
        \/ now + MaxTimeout <= Deadline(t)'
  <2> SUFFICES ASSUME NEW t \in timers'
               PROVE  \/ t \in timers /\ Deadline(t)' = Deadline(t)
                      \/ now + MaxTimeout <= Deadline(t)'
    OBVIOUS
  <2>1. t \in timers /\ t \in TimerIds
    BY <1>1, <1>2
  <2>2. CASE t \notin expired
    BY <1>1, <1>4, <2>1, <2>2 DEF Deadline
  <2>3. CASE t \in expired
    <3>1. timer'[t].next = now + timer[t].ms
          /\ since'[t] = IF timer'[t].next < now THEN now ELSE 0
      BY <1>1, <1>4, <2>1, <2>3
    <3>2. QED
      BY <1>2, <1>3, <2>1, <3>1 DEF Deadline, Later
  <2>4. QED
    BY <2>2, <2>3
<1>7. \A t \in timers : Deadline(t) \in Int
  BY <1>2, <1>3 DEF Deadline, Later, TypeOK
<1>8. \A k \in Idlers : wait[k] \in Int /\ wait[k] <= MaxTimeout
                        /\ (until[k] \in Nat \/ until[k] = Never)
  BY DEF TypeOK
<1>9. SleepInv'
  <2>1. ASSUME NEW k \in Idlers, At(k, "poll")'
        PROVE  /\ wait'[k] >= 0
               /\ \A t \in timers' : now' + wait'[k] <= Deadline(t)'
    <3>1. wait'[k] = wait[k] /\ now' = now /\ wait[k] >= 0
          /\ \A t \in timers : now + wait[k] <= Deadline(t)
      BY <1>1, <2>1 DEF LateInv, SleepInv, At
    <3>2. now + wait[k] <= now + MaxTimeout
      BY <1>2, <1>8
    <3>3. \A t \in timers' : Deadline(t)' \in Int
      BY <1>2, <1>3, <1>4, <1>1 DEF Deadline, Later, TypeOK
    <3>4. QED
      BY <1>2, <1>6, <1>8, <3>1, <3>2, <3>3
  <2>2. ASSUME NEW k \in Idlers, At(k, "wait")'
        PROVE  /\ until'[k] # Never /\ until'[k] <= now' + MaxTimeout
               /\ \A t \in timers' : until'[k] <= Deadline(t)'
    <3>1. until'[k] = until[k] /\ now' = now /\ until[k] # Never
          /\ until[k] <= now + MaxTimeout
          /\ \A t \in timers : until[k] <= Deadline(t)
      BY <1>1, <2>2 DEF LateInv, SleepInv, At
    <3>2. \A t \in timers' : Deadline(t)' \in Int
      BY <1>2, <1>3, <1>4, <1>1 DEF Deadline, Later, TypeOK
    <3>3. QED
      BY <1>2, <1>6, <1>8, <3>1, <3>2
  <2>3. QED
    BY <2>1, <2>2 DEF SleepInv
<1>10. OnTime'
  BY <1>1, <1>2, <1>3, <1>4, <1>6 DEF LateInv, OnTime, Deadline, Later, TypeOK
<1>11. QED
  BY <1>5, <1>9, <1>10 DEF LateInv

LEMMA LateStep ==
  ASSUME ShortPeriods, TypeOK, Inv, ClockInv, LateInv, [TimelyNext]_vars
  PROVE  LateInv'
<1>1. CASE UNCHANGED vars
  BY <1>1
     DEF vars, manager, idling, history, LateInv, NearInv, SleepInv, OnTime,
         Deadline, At
<1>2. CASE Program
  BY <1>2, ProgramKeepsLate
<1>3. ASSUME NEW i \in Idlers, Poll(i) PROVE LateInv'
  <2>1. /\ UNCHANGED <<now, timers, timer, since, wait>>
        /\ pc[i] = "poll" /\ pc' = [pc EXCEPT ![i] = "wait"]
        /\ until' = [until EXCEPT ![i] = IF wait[i] < 0 THEN Never
                                         ELSE now + wait[i]]
    BY <1>3 DEF Poll, At, GoTo, manager, history
  <2>2. wait[i] \in Int /\ wait[i] >= 0 /\ wait[i] <= MaxTimeout /\ now \in Nat
        /\ \A t \in timers : now + wait[i] <= Deadline(t)
    BY <2>1 DEF LateInv, SleepInv, At, TypeOK
  <2>3. SleepInv'
    BY <2>1, <2>2, LateUnchanged, TimerConstants
       DEF LateInv, SleepInv, At, TypeOK, Never
  <2>4. QED
    BY <2>1, <2>3, LateUnchanged DEF LateInv
<1>4. ASSUME NEW i \in Idlers,
             EnterIdle(i) \/ Wake(i) \/ ReadClock(i) \/ ScheduleCb(i)
      PROVE  LateInv'
  <2>1. /\ UNCHANGED <<now, timers, timer, since>>
        /\ \A k \in Idlers : pc'[k] \in {"poll", "wait"} =>
             pc'[k] = pc[k] /\ wait'[k] = wait[k] /\ until'[k] = until[k]
    BY <1>4
       DEF EnterIdle, Wake, ReadClock, ScheduleCb, At, GoTo, TypeOK, manager,
           history
  <2>2. SleepInv'
    BY <2>1, LateUnchanged DEF LateInv, SleepInv, At
  <2>3. QED
    BY <2>1, <2>2, LateUnchanged DEF LateInv
<1>5. CASE AllAsleep /\ Tick
  <2>1. /\ now' = now + 1 /\ now \in Nat
        /\ UNCHANGED <<timers, timer, since, pc, wait, until>>
        /\ \A i \in Idlers :
             /\ pc[i] = "wait" /\ until[i] \in Nat /\ now < until[i]
             /\ until[i] <= now + MaxTimeout
             /\ \A t \in timers : until[i] <= Deadline(t)
    BY <1>5
       DEF AllAsleep, Tick, TimedOut, At, TypeOK, LateInv, SleepInv, manager,
           idling, history
  <2>2. \A t \in timers : Deadline(t) \in Int /\ Deadline(t)' = Deadline(t)
    BY <2>1, TimerConstants DEF Deadline, Later, TypeOK, TimerType
  <2>3. NearInv'
    BY <2>1 DEF LateInv, NearInv, TypeOK, TimerType
  <2>4. SleepInv'
    BY <2>1, <2>2, TimerConstants DEF SleepInv, At, Never
  <2>5. OnTime'
    <3> SUFFICES ASSUME NEW i \in Idlers, NEW t \in timers
                 PROVE  now' <= Deadline(t)'
      BY <2>1 DEF OnTime, Deadline
    <3>1. QED
      BY <2>1, <2>2
  <2>6. QED
    BY <2>3, <2>4, <2>5 DEF LateInv
<1>6. QED
  BY <1>1, <1>2, <1>3, <1>4, <1>5, NextTimerKeepsLate, CollectKeepsLate
     DEF TimelyNext, IdleStep

\* Although m_tickled is never reset, so that only the first insertion at the
\* front wakes anybody, no timer stays in m_timers longer than MAX_TIMEOUT beyond
\* its time, for any number of timers and threads -- as long as no period is 2^31
\* milliseconds or more, which run through an int.
THEOREM Punctual ==
  ASSUME ShortPeriods
  PROVE  TimelySpec => []OnTime
<1>1. Init => LateInv
  BY TimerConstants DEF Init, LateInv, NearInv, SleepInv, OnTime, At
<1>2. TypeOK /\ Inv /\ ClockInv /\ LateInv /\ [TimelyNext]_vars => LateInv'
  BY LateStep
<1>3. LateInv => OnTime
  BY DEF LateInv
<1>4. QED
  BY <1>1, <1>2, <1>3, TimelyClock, PTL DEF TimelySpec

(***************************************************************************)
(* One-shot timers implement Promises.                                     *)
(***************************************************************************)
Pending == timers \cap OneShot
Held == OneShot \cap UNION {cbs[i] : i \in Idlers}
Fires == [t \in TimerIds |-> IF t \in OneShot THEN runs[t] ELSE 0]
Revoked == cancelled \cap OneShot

\* The runs of a timer can be counted: MaxRuns bounds the model, not the code.
RunsCount == MaxRuns # 0

LEMMA SameOneShot ==
  ASSUME \A u \in TimerIds : /\ timer'[u].phase = "known" <=> timer[u].phase = "known"
                             /\ timer'[u].recurring = timer[u].recurring
                                  \/ timer[u].phase # "known"
  PROVE  OneShot' = OneShot
BY DEF OneShot

\* A step that neither begins, nor ends, nor moves a promise.
LEMMA PromiseStutters ==
  ASSUME OneShot' = OneShot, Pending' = Pending, UNCHANGED <<cbs, runs, cancelled>>
  PROVE  UNCHANGED Promise!vars
<1>1. Held' = Held /\ Fires' = Fires /\ Revoked' = Revoked
  BY DEF Held, Fires, Revoked
<1>2. QED
  BY <1>1 DEF Pending, Held, Fires, Revoked, Promise!vars

LEMMA PromiseInit == Init => Promise!Init
<1> SUFFICES ASSUME Init PROVE Promise!Init
  OBVIOUS
<1>1. timers = {} /\ cancelled = {}
  BY DEF Init
<1>2. \A t \in TimerIds : runs[t] = 0
  BY DEF Init
<1>3. UNION {cbs[i] : i \in Idlers} = {}
  BY DEF Init
<1>4. QED
  BY <1>1, <1>2, <1>3 DEF Promise!Init

\* The insertion of a one-shot timer is the promise of it.
LEMMA AddPromises ==
  ASSUME TypeOK, Inv, NEW t \in TimerIds, Add(t)
  PROVE  [Promise!Next]_(Promise!vars)
<1>1. /\ timers' = timers \cup {t}
      /\ timer[t].phase = "made"
      /\ timer'[t].phase = "known" /\ timer'[t].recurring = timer[t].recurring
      /\ \A u \in TimerIds : u # t => timer'[u] = timer[u]
      /\ UNCHANGED <<cbs, runs, cancelled>>
  <2>1. /\ timers' = timers \cup {t} /\ timer[t].phase = "made"
        /\ timer' = [timer EXCEPT ![t] = [timer[t] EXCEPT !.phase = "known"]]
        /\ UNCHANGED <<cbs, runs, cancelled>>
    BY DEF Add, Insert, idling
  <2>2. timer \in [TimerIds -> TimerType]
    BY DEF TypeOK
  <2>3. QED
    BY <2>1, <2>2 DEF TimerType
<1>2. /\ t \notin cancelled /\ runs[t] = 0 /\ \A i \in Idlers : t \notin cbs[i]
      /\ t \notin timers
  BY <1>1 DEF Inv
<1>3. CASE timer[t].recurring
  <2>1. OneShot' = OneShot /\ t \notin OneShot
    BY <1>1, <1>3 DEF OneShot
  <2>2. Pending' = Pending
    BY <1>1, <2>1 DEF Pending
  <2>3. QED
    BY <1>1, <2>1, <2>2, PromiseStutters
<1>4. CASE ~timer[t].recurring
  <2>1. OneShot' = OneShot \cup {t} /\ t \notin OneShot
    BY <1>1, <1>4 DEF OneShot
  <2>2. Pending' = Pending \cup {t} /\ t \notin Pending
    <3>1. timers' \cap OneShot' = (timers \cap OneShot) \cup {t}
      BY <1>1, <1>2, <2>1
    <3>2. QED
      BY <2>1, <3>1 DEF Pending
  <2>3. Held' = Held /\ t \notin Held
    BY <1>1, <1>2, <2>1 DEF Held
  <2>4. Revoked' = Revoked /\ t \notin Revoked
    BY <1>1, <1>2, <2>1 DEF Revoked
  <2>5. Fires' = Fires /\ Fires[t] = 0
    BY <1>1, <1>2, <2>1 DEF Fires
  <2>6. Promise!Register(t)
    BY <2>2, <2>3, <2>4, <2>5
       DEF Promise!Register, Pending, Held, Revoked, Fires
  <2>7. QED
    BY <2>6 DEF Promise!Next
<1>5. QED
  BY <1>3, <1>4

\* A cancel() that returns true takes the promise back, if it was one.
LEMMA CancelPromises ==
  ASSUME TypeOK, Inv, NEW t \in TimerIds, Cancel(t)
  PROVE  [Promise!Next]_(Promise!vars)
<1>1. /\ timers' = timers \ {t} /\ cancelled' = cancelled \cup {t}
      /\ timer[t].phase = "known" /\ timer[t].cb
      /\ timer' = [timer EXCEPT ![t].cb = FALSE]
      /\ UNCHANGED <<cbs, runs>>
  BY DEF Cancel, idling
<1>2. OneShot' = OneShot
  <2>1. \A u \in TimerIds : /\ timer'[u].phase = timer[u].phase
                            /\ timer'[u].recurring = timer[u].recurring
    BY <1>1 DEF TypeOK, TimerType
  <2>2. QED
    BY <2>1, SameOneShot
<1>3. t \in timers
  BY <1>1 DEF Inv, Registered
<1>4. Held' = Held /\ Fires' = Fires
  BY <1>1, <1>2 DEF Held, Fires
<1>5. CASE t \in OneShot
  <2>1. t \in Pending /\ Pending' = Pending \ {t}
    BY <1>1, <1>2, <1>3, <1>5 DEF Pending
  <2>2. Revoked' = Revoked \cup {t}
    BY <1>1, <1>2, <1>5 DEF Revoked
  <2>3. Promise!Revoke(t)
    BY <1>4, <2>1, <2>2 DEF Promise!Revoke, Pending, Held, Revoked, Fires
  <2>4. QED
    BY <2>3 DEF Promise!Next
<1>6. CASE t \notin OneShot
  <2>1. Pending' = Pending
    BY <1>1, <1>2, <1>6 DEF Pending
  <2>2. Revoked' = Revoked
    BY <1>1, <1>2, <1>6 DEF Revoked
  <2>3. QED
    BY <1>4, <2>1, <2>2 DEF Pending, Held, Revoked, Fires, Promise!vars
<1>7. QED
  BY <1>5, <1>6

\* listExpiredCb() moves the one-shot timers that have expired to its thread.
LEMMA CollectPromises ==
  ASSUME TypeOK, Inv, NEW i \in Idlers, Collect(i), cbs[i] = {}
  PROVE  [Promise!Next]_(Promise!vars)
<1> DEFINE expired == Expired(seen[i])
           S == expired \cap OneShot
<1>1. /\ timers' = timers \ {t \in expired : ~timer[t].recurring}
      /\ timer' = [t \in TimerIds |->
             IF t \notin expired THEN timer[t]
             ELSE IF timer[t].recurring
                  THEN [timer[t] EXCEPT !.next = seen[i] + timer[t].ms]
                  ELSE [timer[t] EXCEPT !.cb = FALSE]]
      /\ cbs' = [cbs EXCEPT ![i] = expired]
      /\ UNCHANGED <<runs, cancelled>>
  BY DEF Collect
<1>2. expired \subseteq timers /\ timers \subseteq TimerIds
  BY DEF Expired, TypeOK
<1> HIDE DEF expired
<1>3. OneShot' = OneShot
  <2>1. \A u \in TimerIds : /\ timer'[u].phase = timer[u].phase
                            /\ timer'[u].recurring = timer[u].recurring
    BY <1>1 DEF TypeOK, TimerType
  <2>2. QED
    BY <2>1, SameOneShot
<1>4. S \subseteq Pending /\ Pending' = Pending \ S
  <2>1. \A t \in expired : t \in S <=> ~timer[t].recurring
    BY <1>2 DEF OneShot, Inv
  <2>2. QED
    BY <1>1, <1>2, <1>3, <2>1 DEF Pending
<1>5. Held' = Held \cup S
  <2>1. \A k \in Idlers : cbs'[k] = IF k = i THEN expired ELSE cbs[k]
    BY <1>1 DEF TypeOK
  <2>2. UNION {cbs'[k] : k \in Idlers} = expired \cup UNION {cbs[k] : k \in Idlers}
    BY <2>1
  <2>3. QED
    BY <1>3, <2>2 DEF Held
<1>6. Fires' = Fires /\ Revoked' = Revoked
  BY <1>1, <1>3 DEF Fires, Revoked
<1>7. PICK Z \in SUBSET TimerIds : Z = S
  BY <1>2
<1>8. Promise!Collect(Z)
  BY <1>4, <1>5, <1>6, <1>7
     DEF Promise!Collect, Pending, Held, Revoked, Fires
<1>9. QED
  BY <1>8 DEF Promise!Next

\* schedule(cb) keeps the promise: no other thread has collected the timer.
LEMMA SchedulePromises ==
  ASSUME RunsCount, TypeOK, Inv, NEW i \in Idlers, ScheduleCb(i)
  PROVE  [Promise!Next]_(Promise!vars)
<1>1. PICK t \in cbs[i] :
        /\ runs' = [runs EXCEPT ![t] = IF @ < MaxRuns THEN @ + 1 ELSE @]
        /\ cbs' = [cbs EXCEPT ![i] = @ \ {t}]
  BY DEF ScheduleCb
<1>2. UNCHANGED <<timers, timer, cancelled>> /\ t \in TimerIds
  BY DEF ScheduleCb, manager, TypeOK
<1>3. OneShot' = OneShot
  BY <1>2 DEF OneShot
<1>4. Pending' = Pending /\ Revoked' = Revoked
  BY <1>2, <1>3 DEF Pending, Revoked
<1>5. \A k \in Idlers : cbs'[k] = IF k = i THEN cbs[k] \ {t} ELSE cbs[k]
  BY <1>1 DEF TypeOK
<1>6. \A u \in TimerIds : u # t => runs'[u] = runs[u]
  BY <1>1 DEF TypeOK
<1>7. CASE t \in OneShot
  <2>1. runs[t] = 0 /\ \A k \in Idlers : t \in cbs[k] => k = i
    BY <1>1, <1>2, <1>7 DEF Inv, FiresOnce, OneShot
  <2>2. runs'[t] = 1
    BY <1>1, <1>2, <2>1, TimerConstants DEF RunsCount, TypeOK
  <2>3. t \in Held /\ Held' = Held \ {t}
    <3>1. \A u : u \in UNION {cbs'[k] : k \in Idlers}
                    <=> u \in UNION {cbs[k] : k \in Idlers} /\ u # t
      <4>1. \A k \in Idlers : cbs'[k] = cbs[k] \ {t}
        BY <1>5, <2>1
      <4>2. QED
        BY <4>1
    <3>2. t \in UNION {cbs[k] : k \in Idlers}
      BY <1>1
    <3>3. QED
      BY <1>3, <1>7, <3>1, <3>2 DEF Held
  <2>4. Fires' = [Fires EXCEPT ![t] = @ + 1]
    <3>1. Fires' = [u \in TimerIds |-> IF u \in OneShot THEN runs'[u] ELSE 0]
      BY <1>3 DEF Fires
    <3>2. Fires'[t] = 1 /\ Fires[t] = 0
      BY <1>2, <1>7, <2>1, <2>2, <3>1 DEF Fires
    <3>3. \A u \in TimerIds : u # t => Fires'[u] = Fires[u]
      BY <1>6, <3>1 DEF Fires
    <3>4. Fires = [u \in TimerIds |-> Fires[u]]
          /\ Fires' = [u \in TimerIds |-> Fires'[u]]
      BY <3>1 DEF Fires
    <3>5. QED
      BY <3>2, <3>3, <3>4
  <2>5. Promise!Fire(t)
    BY <1>4, <2>3, <2>4 DEF Promise!Fire, Pending, Held, Revoked, Fires
  <2>6. QED
    BY <1>2, <2>5 DEF Promise!Next
<1>8. CASE t \notin OneShot
  <2>1. Held' = Held
    <3>1. \A u \in OneShot : u \in UNION {cbs'[k] : k \in Idlers}
                               <=> u \in UNION {cbs[k] : k \in Idlers}
      BY <1>5, <1>8
    <3>2. QED
      BY <1>3, <3>1 DEF Held
  <2>2. Fires' = Fires
    BY <1>3, <1>6, <1>8 DEF Fires
  <2>3. QED
    BY <1>4, <2>1, <2>2 DEF Pending, Held, Revoked, Fires, Promise!vars
<1>9. QED
  BY <1>7, <1>8

\* A thread has collected callbacks only while it schedules them.
HandsEmpty == \A i \in Idlers : cbs[i] # {} => pc[i] = "sched"

LEMMA HandsStep == TypeOK /\ HandsEmpty /\ [Next]_vars => HandsEmpty'
<1> SUFFICES ASSUME TypeOK, HandsEmpty, [Next]_vars PROVE HandsEmpty'
  OBVIOUS
<1>1. CASE UNCHANGED vars \/ Tick \/ (\E k \in Jumps : SetBack(k))
  BY <1>1 DEF vars, idling, Tick, SetBack, HandsEmpty
<1>2. CASE Program
  BY <1>2, ProgramAlone DEF idling, HandsEmpty
<1>3. ASSUME NEW i \in Idlers,
             EnterIdle(i) \/ NextTimer(i) \/ Poll(i) \/ Interrupted(i)
               \/ Wake(i) \/ ReadClock(i)
      PROVE  HandsEmpty'
  BY <1>3
     DEF EnterIdle, NextTimer, Poll, Interrupted, Wake, ReadClock, At, GoTo,
         HandsEmpty, TypeOK
<1>4. ASSUME NEW i \in Idlers, Collect(i) PROVE HandsEmpty'
  BY <1>4 DEF Collect, GoTo, HandsEmpty, TypeOK
<1>5. ASSUME NEW i \in Idlers, ScheduleCb(i) PROVE HandsEmpty'
  <2>1. PICK t \in cbs[i] : /\ cbs' = [cbs EXCEPT ![i] = @ \ {t}]
                            /\ GoTo(i, IF cbs[i] = {t} THEN "run" ELSE "sched")
    BY <1>5 DEF ScheduleCb
  <2>2. cbs[i] = {t} => cbs'[i] = {}
    BY <2>1 DEF TypeOK
  <2>3. QED
    BY <2>1, <2>2 DEF GoTo, HandsEmpty, TypeOK
<1>6. QED
  BY <1>1, <1>2, <1>3, <1>4, <1>5 DEF Next, IdleStep

LEMMA PromiseStep ==
  ASSUME RunsCount, TypeOK, Inv, HandsEmpty, [Next]_vars
  PROVE  [Promise!Next]_(Promise!vars)
<1>1. ASSUME UNCHANGED <<timers, timer, cbs, runs, cancelled>>
      PROVE  UNCHANGED Promise!vars
  BY <1>1, PromiseStutters DEF OneShot, Pending
<1>2. CASE \/ UNCHANGED vars \/ Notify \/ Tick \/ (\E k \in Jumps : SetBack(k))
           \/ \E i \in Idlers :
                EnterIdle(i) \/ NextTimer(i) \/ Poll(i) \/ Interrupted(i)
                  \/ Wake(i) \/ ReadClock(i)
  <2>1. UNCHANGED <<timers, timer, cbs, runs, cancelled>>
    BY <1>2
       DEF vars, Notify, Tick, SetBack, EnterIdle, NextTimer, Poll, Interrupted,
           Wake, ReadClock, manager, idling, history
  <2>2. QED
    BY <1>1, <2>1
<1>3. ASSUME NEW t \in TimerIds, NEW ms \in Periods, NEW b \in BOOLEAN,
             Create(t, ms, b)
      PROVE  UNCHANGED Promise!vars
  <2>1. /\ timer[t].phase = "new" /\ timer'[t].phase = "made"
        /\ \A u \in TimerIds : u # t => timer'[u] = timer[u]
        /\ UNCHANGED <<timers, cbs, runs, cancelled>>
    BY <1>3 DEF Create, TypeOK, idling, history
  <2>2. OneShot' = OneShot
    BY <2>1, SameOneShot
  <2>3. QED
    BY <2>1, <2>2, PromiseStutters DEF Pending
<1>4. ASSUME NEW t \in TimerIds,
             \/ Refresh(t)
             \/ \E ms \in Periods, b \in BOOLEAN : Reset(t, ms, b)
      PROVE  UNCHANGED Promise!vars
  <2>1. /\ timers' = timers
        /\ \A u \in TimerIds : /\ timer'[u].phase = timer[u].phase
                               /\ timer'[u].recurring = timer[u].recurring
        /\ UNCHANGED <<cbs, runs, cancelled>>
    <3>1. CASE Refresh(t)
      BY <3>1 DEF Refresh, TypeOK, TimerType, idling
    <3>2. ASSUME NEW ms \in Periods, NEW b \in BOOLEAN, Reset(t, ms, b)
          PROVE  /\ timers' = timers
                 /\ \A u \in TimerIds : /\ timer'[u].phase = timer[u].phase
                                        /\ timer'[u].recurring = timer[u].recurring
                 /\ UNCHANGED <<cbs, runs, cancelled>>
      BY <3>2 DEF Reset, Insert, TypeOK, TimerType, idling
    <3>3. QED
      BY <1>4, <3>1, <3>2
  <2>2. OneShot' = OneShot
    BY <2>1, SameOneShot
  <2>3. QED
    BY <2>1, <2>2, PromiseStutters DEF Pending
<1>5. ASSUME NEW i \in Idlers, Collect(i) PROVE [Promise!Next]_(Promise!vars)
  <2>1. cbs[i] = {}
    BY <1>5 DEF Collect, At, HandsEmpty
  <2>2. QED
    BY <1>5, <2>1, CollectPromises
<1>6. QED
  BY <1>2, <1>3, <1>4, <1>5, AddPromises, CancelPromises, SchedulePromises
     DEF Next, Program, IdleStep

\* The timer manager implements Promises for one-shot timers, with any number of
\* timers and threads and with a clock that is set back at any time.
THEOREM TimersKeepPromises ==
  ASSUME RunsCount
  PROVE  Spec => ImplementsPromises
<1>1. Init => HandsEmpty
  BY DEF Init, HandsEmpty
<1>2. Spec => [](TypeOK /\ Inv /\ HandsEmpty)
  BY <1>1, InitInv, NextInv, HandsStep, Typing, PTL DEF Spec
<1>3. TypeOK /\ Inv /\ HandsEmpty /\ [Next]_vars => [Promise!Next]_(Promise!vars)
  BY PromiseStep
<1>4. QED
  BY <1>2, <1>3, PromiseInit, PTL DEF Spec, ImplementsPromises, Promise!Spec

=============================================================================
