------------------------------- MODULE Timers -------------------------------
(***************************************************************************)
(* class TimerManager and class Timer, with the threads of an IOManager    *)
(* that sleep until the next timer is due and collect the timers that are  *)
(* (the timer part of IOManager::idle()).                                  *)
(*                                                                         *)
(* Every operation on m_timers holds m_mutex and is one action; the clock  *)
(* may advance between any two actions, so the times that the code reads   *)
(* before it takes the lock, or keeps after it released it, may be stale.  *)
(* Times are milliseconds of GetCurrentMS().                               *)
(***************************************************************************)
EXTENDS Integers, FiniteSets

CONSTANTS
  TimerIds,    \* the Timer objects the program creates
  Idlers,      \* the threads that run IOManager::idle()
  Periods,     \* the values of the argument ms of addTimer() and reset()
  Epoch,       \* the clock when the manager is created
  Horizon,     \* bound: the clock stops there
  MaxTimeout,  \* MAX_TIMEOUT of idle()
  IntSpan,     \* how many values an int has (2^32)
  Hour,        \* detectClockRollover()'s 60 * 60 * 1000
  Jumps,       \* by how much the system clock may be set back
  MaxRuns      \* bound: the runs of a timer are counted up to this

ASSUME TimerConstants ==
  /\ Periods \subseteq Nat
  /\ Epoch \in Nat /\ Hour \in Nat /\ Hour <= Epoch
  /\ Horizon \in Nat
  /\ MaxTimeout \in Nat \ {0}
  /\ IntSpan \in Nat \ {0}
  /\ Jumps \subseteq Nat
  /\ MaxRuns \in Nat

VARIABLES
  now,        \* GetCurrentMS()
  timers,     \* m_timers
  timer,      \* the fields of every Timer, and where its addTimer() is
  tickled,    \* m_tickled
  previous,   \* m_previouseTime
  owe,        \* a call of onTimerInsertedAtFront() decided on, not yet made
  pipe,       \* a byte is waiting in the tickle pipe
  pc,         \* idler -> where it is in idle()
  wait,       \* idler -> next_timeout, as passed to epoll_wait()
  until,      \* idler -> when its epoll_wait() times out
  seen,       \* idler -> now_ms of listExpiredCb(); these three are 0 or Never
              \* while the idler is where the code does not use them
  cbs,        \* idler -> the timers whose callbacks it has collected
  runs,       \* timer -> how often its callback was scheduled (at most MaxRuns)
  cancelled,  \* the timers for which cancel() returned true
  since       \* timer -> when it was put into m_timers, if it was due then

manager == <<timers, timer, tickled, previous, owe>>
idling == <<pc, wait, until, seen, cbs>>
history == <<runs, cancelled, since>>
vars == <<now, pipe, manager, idling, history>>

Never == -1   \* epoll_wait() without a timeout

Init ==
  /\ now = Epoch
  /\ timers = {}
  /\ timer = [t \in TimerIds |-> [phase |-> "new", next |-> 0, ms |-> 0,
                                  recurring |-> FALSE, cb |-> FALSE]]
  /\ tickled = FALSE
  /\ previous = Epoch
  /\ owe = FALSE
  /\ pipe = FALSE
  /\ pc = [i \in Idlers |-> "run"]
  /\ wait = [i \in Idlers |-> 0]
  /\ until = [i \in Idlers |-> Never]
  /\ seen = [i \in Idlers |-> 0]
  /\ cbs = [i \in Idlers |-> {}]
  /\ runs = [t \in TimerIds |-> 0]
  /\ cancelled = {}
  /\ since = [t \in TimerIds |-> 0]

(***************************************************************************)
(* The program: addTimer(), cancel(), refresh(), reset().                  *)
(***************************************************************************)
\* Timer::Timer() reads the clock before addTimer() takes the lock.
Create(t, ms, recurring) ==
  /\ timer[t].phase = "new"
  /\ timer' = [timer EXCEPT ![t] = [phase |-> "made", next |-> now + ms,
                 ms |-> ms, recurring |-> recurring, cb |-> TRUE]]
  /\ UNCHANGED <<now, timers, tickled, previous, owe, pipe, idling, history>>

\* m_timers.insert() with the test at_front; two timers due at the same time
\* are ordered by their addresses.
Insert(t, fields) ==
  LET rest == timers \ {t} IN
  /\ timers' = timers \cup {t}
  /\ timer' = [timer EXCEPT ![t] = fields]
  /\ \E atFront \in BOOLEAN :
       /\ (\A u \in rest : fields.next < timer[u].next) => atFront
       /\ (\E u \in rest : timer[u].next < fields.next) => ~atFront
       /\ tickled' = (tickled \/ atFront)
       /\ owe' = (owe \/ (atFront /\ ~tickled))
  /\ since' = [since EXCEPT ![t] = IF fields.next < now THEN now ELSE 0]

Add(t) ==
  /\ timer[t].phase = "made"
  /\ Insert(t, [timer[t] EXCEPT !.phase = "known"])
  /\ UNCHANGED <<now, previous, pipe, idling, runs, cancelled>>

\* onTimerInsertedAtFront() is tickle(): a byte, if a thread is idle.
Notify ==
  /\ owe
  /\ owe' = FALSE
  /\ pipe' = (pipe \/ \E i \in Idlers : pc[i] # "run")
  /\ UNCHANGED <<now, timers, timer, tickled, previous, idling, history>>

\* (mutant) cancel() forgets m_timers.erase(it)
CancelKeeps(t) ==
  /\ timer[t].phase = "known" /\ timer[t].cb
  /\ timer' = [timer EXCEPT ![t].cb = FALSE]
  /\ cancelled' = cancelled \cup {t}
  /\ UNCHANGED <<now, timers, tickled, previous, owe, pipe, idling, runs, since>>

\* Timer::cancel(), when it returns true.
Cancel(t) ==
  /\ timer[t].phase = "known" /\ timer[t].cb
  /\ timer' = [timer EXCEPT ![t].cb = FALSE]
  /\ timers' = timers \ {t}
  /\ cancelled' = cancelled \cup {t}
  /\ UNCHANGED <<now, tickled, previous, owe, pipe, idling, runs, since>>

\* Timer::refresh() makes the timer due at once, and tickles nobody.
Refresh(t) ==
  /\ timer[t].phase = "known" /\ timer[t].cb /\ t \in timers
  /\ timer' = [timer EXCEPT ![t].next = now]
  /\ since' = [since EXCEPT ![t] = 0]
  /\ UNCHANGED <<now, timers, tickled, previous, owe, pipe, idling, runs,
                 cancelled>>

\* Timer::reset()
Reset(t, ms, fromNow) ==
  /\ timer[t].phase = "known"
  /\ ms # timer[t].ms \/ fromNow
  /\ timer[t].cb /\ t \in timers
  /\ LET start == IF fromNow THEN now ELSE timer[t].next - timer[t].ms
     IN  Insert(t, [timer[t] EXCEPT !.ms = ms, !.next = start + ms])
  /\ UNCHANGED <<now, previous, pipe, idling, runs, cancelled>>

(***************************************************************************)
(* The threads in IOManager::idle().                                       *)
(***************************************************************************)
\* The conversion of a 64-bit value to int.
ToInt(x) ==
  LET low == x % IntSpan IN IF low < IntSpan \div 2 THEN low ELSE low - IntSpan

\* getNextTimer(), when t is the first timer.
Remaining(t) == IF now >= timer[t].next THEN 0 ELSE timer[t].next - now

\* (mutant) std::min is forgotten
TimeoutUncapped(ms) == ToInt(ms)

\* std::min((int)next_timeout, MAX_TIMEOUT)
Timeout(ms) == IF ToInt(ms) < MaxTimeout THEN ToInt(ms) ELSE MaxTimeout

\* (mutant) the branch for ~0ull is forgotten: (int)~0ull is -1
NoTimerForever == Never

\* next_timeout when there is no timer
NoTimer == MaxTimeout

At(i, l) == pc[i] = l
GoTo(i, l) == pc' = [pc EXCEPT ![i] = l]

\* run() resumes the idle fiber.
EnterIdle(i) ==
  /\ At(i, "run") /\ GoTo(i, "next")
  /\ UNCHANGED <<now, manager, pipe, wait, until, seen, cbs, history>>

\* stopping(next_timeout) asks for the time until the first timer.
NextTimer(i) ==
  /\ At(i, "next") /\ GoTo(i, "poll")
  /\ \/ timers = {} /\ wait' = [wait EXCEPT ![i] = NoTimer]
     \/ \E t \in timers :
          /\ \A u \in timers : timer[t].next <= timer[u].next
          /\ wait' = [wait EXCEPT ![i] = Timeout(Remaining(t))]
  /\ UNCHANGED <<now, manager, pipe, until, seen, cbs, history>>

\* epoll_wait() never times out when its timeout is negative.
Poll(i) ==
  /\ At(i, "poll") /\ GoTo(i, "wait")
  /\ until' = [until EXCEPT ![i] = IF wait[i] < 0 THEN Never ELSE now + wait[i]]
  /\ UNCHANGED <<now, manager, pipe, wait, seen, cbs, history>>

TimedOut(i) == until[i] # Never /\ until[i] <= now

\* A signal: epoll_wait() is called again with the whole timeout, which is
\* capped once more: a timeout of -1 reads as ~0ull, no timer, by now.
Interrupted(i) ==
  /\ At(i, "wait") /\ ~pipe /\ ~TimedOut(i) /\ GoTo(i, "poll")
  /\ until' = [until EXCEPT ![i] = Never]
  /\ wait' = [wait EXCEPT ![i] = IF @ = -1 THEN NoTimer ELSE @]
  /\ UNCHANGED <<now, manager, pipe, seen, cbs, history>>

Wake(i) ==
  /\ At(i, "wait") /\ GoTo(i, "clock")
  /\ pipe \/ TimedOut(i)
  /\ pipe' = FALSE
  /\ wait' = [wait EXCEPT ![i] = 0]
  /\ until' = [until EXCEPT ![i] = Never]
  /\ UNCHANGED <<now, manager, seen, cbs, history>>

\* listExpiredCb() reads the clock before it takes the lock.
ReadClock(i) ==
  /\ At(i, "clock") /\ GoTo(i, "list")
  /\ seen' = [seen EXCEPT ![i] = now]
  /\ UNCHANGED <<now, manager, pipe, wait, until, cbs, history>>

\* detectClockRollover()
Rollover(ms) == ms < previous /\ ms < previous - Hour

\* (mutant) every timer that is not later than the next millisecond
ExpiredEarly(ms) ==
  IF Rollover(ms) THEN timers ELSE {t \in timers : timer[t].next <= ms + 1}

Expired(ms) ==
  IF Rollover(ms) THEN timers ELSE {t \in timers : timer[t].next <= ms}

\* (mutant) the callbacks of one-shot timers are kept
CollectKeepsCb(i) ==
  LET expired == Expired(seen[i]) IN
  /\ At(i, "list")
  /\ GoTo(i, IF expired = {} THEN "run" ELSE "sched")
  /\ previous' = IF timers = {} THEN previous ELSE seen[i]
  /\ timers' = timers \ {t \in expired : ~timer[t].recurring}
  /\ timer' = [t \in TimerIds |->
                 IF t \in expired /\ timer[t].recurring
                 THEN [timer[t] EXCEPT !.next = seen[i] + timer[t].ms]
                 ELSE timer[t]]
  /\ cbs' = [cbs EXCEPT ![i] = expired]
  /\ seen' = [seen EXCEPT ![i] = 0]
  /\ since' = [t \in TimerIds |->
       IF t \in expired THEN IF timer'[t].next < now THEN now ELSE 0
       ELSE since[t]]
  /\ UNCHANGED <<now, tickled, owe, pipe, wait, until, runs, cancelled>>

\* listExpiredCb(), from the write lock on.
Collect(i) ==
  LET expired == Expired(seen[i]) IN
  /\ At(i, "list")
  /\ GoTo(i, IF expired = {} THEN "run" ELSE "sched")
  /\ previous' = IF timers = {} THEN previous ELSE seen[i]
  /\ timers' = timers \ {t \in expired : ~timer[t].recurring}
  /\ timer' = [t \in TimerIds |->
                 IF t \notin expired THEN timer[t]
                 ELSE IF timer[t].recurring
                      THEN [timer[t] EXCEPT !.next = seen[i] + timer[t].ms]
                      ELSE [timer[t] EXCEPT !.cb = FALSE]]
  /\ cbs' = [cbs EXCEPT ![i] = expired]
  /\ seen' = [seen EXCEPT ![i] = 0]
  /\ since' = [t \in TimerIds |->
       IF t \in expired THEN IF timer'[t].next < now THEN now ELSE 0
       ELSE since[t]]
  /\ UNCHANGED <<now, tickled, owe, pipe, wait, until, runs, cancelled>>

\* schedule(cb), for one callback after the other; then yield().
ScheduleCb(i) ==
  /\ At(i, "sched")
  /\ \E t \in cbs[i] :
       /\ runs' = [runs EXCEPT ![t] = IF @ < MaxRuns THEN @ + 1 ELSE @]
       /\ cbs' = [cbs EXCEPT ![i] = @ \ {t}]
       /\ GoTo(i, IF cbs[i] = {t} THEN "run" ELSE "sched")
  /\ UNCHANGED <<now, manager, pipe, wait, until, seen, cancelled, since>>

(***************************************************************************)
(* The clock.                                                              *)
(***************************************************************************)
Tick ==
  /\ now < Horizon
  /\ now' = now + 1
  /\ UNCHANGED <<manager, pipe, idling, history>>

\* The system time is set back; epoll_wait() counts on undisturbed.
SetBack(k) ==
  /\ now - k >= Hour
  /\ now' = now - k
  /\ until' = [i \in Idlers |-> IF until[i] = Never THEN Never ELSE
                                IF until[i] < k THEN 0 ELSE until[i] - k]
  /\ UNCHANGED <<manager, pipe, pc, wait, seen, cbs, history>>

(***************************************************************************)
(* The specifications.                                                     *)
(***************************************************************************)
Program ==
  \/ \E t \in TimerIds, ms \in Periods, b \in BOOLEAN :
       Create(t, ms, b) \/ Reset(t, ms, b)
  \/ \E t \in TimerIds : Add(t) \/ Cancel(t) \/ Refresh(t)
  \/ Notify

IdleStep(i) ==
  \/ EnterIdle(i) \/ NextTimer(i) \/ Poll(i) \/ Wake(i) \/ ReadClock(i)
  \/ Collect(i) \/ ScheduleCb(i)

Next ==
  \/ Program
  \/ \E i \in Idlers : IdleStep(i) \/ Interrupted(i)
  \/ Tick
  \/ \E k \in Jumps : SetBack(k)

Spec == Init /\ [][Next]_vars

\* The threads have nothing else to do and are fast: the clock advances only
\* while all of them sleep, and no signal wakes them.
AllAsleep == ~pipe /\ \A i \in Idlers : At(i, "wait") /\ ~TimedOut(i)

TimelyNext ==
  \/ Program
  \/ \E i \in Idlers : IdleStep(i)
  \/ AllAsleep /\ Tick

TimelySpec == Init /\ [][TimelyNext]_vars

(***************************************************************************)
(* Properties.                                                             *)
(***************************************************************************)
TimerType == [phase : {"new", "made", "known"}, next : Int, ms : Nat,
              recurring : BOOLEAN, cb : BOOLEAN]
IdlePlaces == {"run", "next", "poll", "wait", "clock", "list", "sched"}

\* The variables of the timer manager have the types of its declarations.
TypeOK ==
  /\ now \in Nat
  /\ timers \subseteq TimerIds
  /\ timer \in [TimerIds -> TimerType]
  /\ tickled \in BOOLEAN
  /\ previous \in Nat
  /\ owe \in BOOLEAN
  /\ pipe \in BOOLEAN
  /\ pc \in [Idlers -> IdlePlaces]
  /\ wait \in [Idlers -> {w \in Int : w <= MaxTimeout}]
  /\ until \in [Idlers -> Nat \cup {Never}]
  /\ seen \in [Idlers -> Nat]
  /\ cbs \in [Idlers -> SUBSET TimerIds]
  /\ runs \in [TimerIds -> 0 .. MaxRuns]
  /\ cancelled \subseteq TimerIds
  /\ since \in [TimerIds -> Nat]

\* A timer has its callback exactly while it is in m_timers: cancel() erases
\* the iterator it finds without looking at it, which only this makes defined.
Registered ==
  \A t \in TimerIds :
    timer[t].phase = "known" => (timer[t].cb <=> t \in timers)

\* However many threads collect timers, a one-shot timer runs at most once, and
\* never after a cancel() that returned true.
FiresOnce ==
  \A t \in TimerIds : ~timer[t].recurring =>
    /\ runs[t] <= 1
    /\ \A i, k \in Idlers : t \in cbs[i] /\ t \in cbs[k] => i = k
    /\ (\E i \in Idlers : t \in cbs[i]) => runs[t] = 0
    /\ t \in timers \cup cancelled =>
         runs[t] = 0 /\ \A i \in Idlers : t \notin cbs[i]

\* Although listExpiredCb() reads the clock before it takes the lock, and the
\* clock and other threads go on in between, a timer that a thread collects is
\* due at that moment; unless the clock has been set back since the reading, or
\* another thread has put m_previouseTime more than an hour beyond the reading
\* meanwhile, which detectClockRollover() takes for a clock that was set back.
NotEarly ==
  [][\A i \in Idlers : \A t \in cbs'[i] \ cbs[i] :
       \/ timer[t].next <= now
       \/ now < seen[i]
       \/ seen[i] + Hour < previous]_vars

\* A timer waits no longer than MAX_TIMEOUT after it was due, or after it was
\* put into m_timers if it was due by then: although only the first timer that
\* is inserted at the front wakes a sleeping thread.
Later(a, b) == IF a < b THEN b ELSE a
OnTime ==
  Idlers # {} => \A t \in timers :
    now <= Later(timer[t].next, since[t]) + MaxTimeout

(***************************************************************************)
(* The abstract specification.                                             *)
(***************************************************************************)
OneShot == {t \in TimerIds : timer[t].phase = "known" /\ ~timer[t].recurring}

Promise == INSTANCE Promises WITH
  Things <- TimerIds,
  pending <- timers \cap OneShot,
  held <- OneShot \cap UNION {cbs[i] : i \in Idlers},
  fires <- [t \in TimerIds |-> IF t \in OneShot THEN runs[t] ELSE 0],
  revoked <- cancelled \cap OneShot

\* One-shot timers implement Promises: with any number of threads in
\* listExpiredCb(), a cancel() that returns true and the run of a callback exclude
\* each other, refresh() and reset() make no second promise, and what a thread
\* has collected cannot be cancelled, collected again or lost.
ImplementsPromises == Promise!Spec

=============================================================================
