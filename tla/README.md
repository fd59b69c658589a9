# A TLA+ verification of fiberlib

fiberlib is a C++ coroutine library: fibers over `ucontext`, an M:N scheduler
that runs them on a pool of threads, timers, an epoll reactor, and hooks that
turn blocking calls of a socket program into waits of a fiber. These modules
model its scheduler, how it starts its threads, its timers, its event
registration, the event loop that joins the three, the descriptor table and the
hooks; TLC checks them on small instances, and TLAPS proves their invariants, that
the scheduler and the IOManager implement an abstract task pool, and that timers and
events implement abstract promises, for every value of the constants.

`PROJECT.json` lists the components, the runs, a mutant for each property (a
plausible bug of a mapped definition that the run must notice), the source lines
behind every definition, the disagreements found between the code and what it
says of itself, the hazards of the code, and the theorems.

## 1. The system

| component | source | state | operations | who calls it |
|---|---|---|---|---|
| Fiber | `Fiber.{h,cpp}` | `m_state` (READY, RUNNING, TERM), context, stack; thread-locals `t_fiber`, `t_thread_fiber`, `t_scheduler_fiber` | constructor, `resume`, `yield`, `reset`, `MainFunc` | `run()`, the program, hooks |
| Task scheduler | `threadPoll_fiber_scheduler.{h,cpp}` | `m_tasks` under `m_mutex`; `m_activeThreadCount`, `m_idleThreadCount` (atomic); `m_stopping` (plain bool); `m_rootFiber` | `start`, `schedule`, `run`, `idle`, `tickle`, `stopping`, `stop` | the program, timers, events |
| Timers | `Timer.{h,cpp}`, `TimerManager.{h,cpp}` | `m_timers`, a set ordered by due time, under an rwlock; `m_tickled`, `m_previouseTime` | `addTimer`, `cancel`, `refresh`, `reset`, `getNextTimer`, `listExpiredCb` | the program, `idle()`, hooks |
| I/O events | `IOManager.{h,cpp}` | `m_fdContexts` under an rwlock; for each descriptor `events` and two event contexts under its own mutex; `m_pendingEventCount`; the epoll instance | `addEvent`, `delEvent`, `cancelEvent`, `cancelAll`, `contextResize`, `triggerEvent` | the program, hooks, `idle()` |
| IOManager's loop | `IOManager.cpp` | the tickle pipe; each thread's `next_timeout`, `cbs`, `events` | `idle`, `tickle`, `stopping` (which override the scheduler's) | `run()` |
| Thread, Semaphore | `Thread.*`, `Semaphore.*` | `m_id`, `m_thread`, the count of `m_semaphore`: the handshake of the constructor with the new thread | constructor, `run`, `join`, `wait`, `notify` | `start()`, `stop()` |
| Descriptor table | `fd_manager.*` | `m_datas`, and for each number an `FdCtx`: socket, system and user non-blocking, closed, two timeouts | `get`, `del`, `FdCtx::init`, `setTimeout`, `setUserNonblock` | hooks |
| Hooks | `hook.*` | `t_hook_enable`; `timer_info` of one call | `do_io`, `connect_with_timeout`, `sleep`, `close`, ... | the program |

How they interact:

* Every pool thread executes `run()`: it scans `m_tasks` under the lock for the
  first task that is not pinned to another thread, switches to its fiber, and
  comes back when the fiber yields or ends. With no task it switches to its
  *idle fiber*. With `use_caller` the thread that owns the scheduler executes
  the same loop, but only inside `stop()`.
* In a plain `scheduler` the idle fiber yields once and then ends; in an
  `IOManager` it sleeps in `epoll_wait()` until a timer, an event or a byte in
  the tickle pipe, collects what is due, schedules it and yields.
* A timer or an event is a promise to call `schedule()` later. A fiber that
  waits has registered itself with one of them and yielded.
* `start()` constructs one Thread after the other and holds `m_mutex` meanwhile;
  the constructor waits for the semaphore that the new thread posts once it has
  stored its id. The new thread goes on into `run()` at once.
* A hooked call asks the descriptor table what the number is; the table is told
  by the hooks of `socket()`, `accept()` and `close()`, and is wrong as soon as
  somebody opens or closes a number behind them.
* `stop()` sets `m_stopping`, tickles, executes the root fiber, joins the pool.
  Every idle fiber ends when `stopping()` says that nothing is left.

### What is hard here

* **Concurrency without a common lock.** The queue, the timers, each
  descriptor's context and the counters have locks of their own;
  `stopping()` reads them one after the other, `tickle()` reads a counter
  before it decides to write a byte, `idle()` reads the clock before the lock
  and handles reported events after it was released.
* **A fiber is visible to others before it is ready**: it must schedule or
  register itself before it yields, and `yield()` sets READY before
  `swapcontext()` has saved the context.
* **Edges.** epoll is edge-triggered: what is reported once to one thread is
  not reported again unless the mask is set anew.
* **Time.** The clock may be set back; the distance to the next timer goes
  through an `int`.
* **Names that are used again.** A descriptor number is closed while calls on it
  go on, and opened again; the `FdCtx` and the `FdContext` that go with it outlive
  it, or do not.
* **Termination.** `stop()` returns only when all threads agree that nothing
  is left, while jobs, timers and events go on creating more.

What makes each component correct: no scheduled task is lost or executed
twice, and a fiber is resumed only when it is READY and its context saved; a
one-shot timer runs at most once, never after a successful `cancel()`, neither
early nor more than `MAX_TIMEOUT` late; a registered event wakes its waiter
exactly once, what epoll watches is what is registered, and the pending counter
counts it; an IOManager that stops has executed what was scheduled and does not
stop before; a fiber in a hooked call is woken exactly once, by its event, its
timeout or `close()`, reports a timeout if that was it, leaves no timer behind
and does not block its thread; a thread that `start()` creates has stored its id
before it is read, and does nothing before the last one is there.

## 2. The modules

### Scheduler

State: `tasks` is `m_tasks`, `active`, `idleCount` and `stopping` are the
members of that meaning, `fiber[j]` is the state of the fiber that executes job
`j`, and per thread `pc` (its place in `run()`), `cur` (the local variable
`task`), `idleFiber` (its idle fiber) and `owe` (calls of `tickle()` it has
decided on and not yet made). `ctl` is where the owner is in `stop()`.

What the code does in one critical section is one action: `Take` is the scan
that finds a task, erases it and increments the active count; `TakeNone` the
scan that does not; `Resume`, `YieldReady`, `YieldSwap` and `Finish` switch
fibers; `Return` is what `run()` does when a fiber comes back; `IdleEnter`,
`Idle`, `IdleLeave` the idle branch; `StopCall`, `StopRoot`, `RootDone`, `Join`
the four parts of `stop()`. A job may schedule others (`Spawn`), schedule itself
and yield (`Reschedule`, `YieldReady`), and end. A failed assertion ends the
behaviour: `fault` records which one. A callback is a fiber from the moment it
is scheduled: `run()` wraps it in one when it takes it, and between the two
nobody can tell them apart.

`ImplementsPool` says that all this implements TaskPool, under the mapping: a job
is *waiting* from the moment it is queued until its fiber is resumed, in the queue
or in the hands of a thread that has erased it; *bound* while it is queued for one
thread; *running* from then until its context is saved or its function has
returned; *ended* when its fiber is TERM. Every other action is a stutter.

### TaskPool

The abstract specification of what a scheduler promises to its program: a job is
executed once for every time it is scheduled, by one thread at a time, never after
its end; and if `Drains`, `stop()` returns only when nothing waits but jobs for
one certain thread. It knows no threads, no queue and no locks. `Claim` is where a
job stops to be bound because its thread has come.

### Promises

The abstract specification of what a timer or an event is to the program that
registers it: from `Register` on it is handed to the scheduler once (`Fire`,
`Trigger`) or taken back (`Revoke`), and the two exclude each other. `held` is what
a thread has collected and will schedule; it cannot be taken back any more. It knows
no clock, no descriptors, no table and no locks. `ImplementsPromises` of Timers maps
the one-shot timers to it: `pending` is what is in `m_timers`, `held` what
`listExpiredCb()` has handed to a thread that has not scheduled it yet, `fires` counts
the runs. `ImplementsPromises` of IOEvents maps the waiters: `pending` are those of a
registered event that has its `m_scheduler`, nothing is ever held, since
`triggerEvent()` takes an event off and schedules it under one lock, and `revoked` is
what `delEvent()` dropped.

### ThreadStart

Extends Scheduler, whose `Start` begins all workers in one step, with what
`start()` does: `Begin` takes `m_mutex`, `Create` is `pthread_create()` (which may
fail, `CreateFails`, and then the exception leaves `m_mutex` locked), `Await` the
`wait()` of the constructor and the note of the id in `m_threadIds`, `Unlock` the
end. Each new thread does `StoreId`, `Notify` and `EnterRun` and then the steps of
Scheduler, as soon as the lock is free; `sem[w]` counts the semaphore of Thread
`w`. `StartsAtOnce` is the refinement: with each worker's place read as `"off"`
until `start()` is done, every behaviour is one of Scheduler, and one in which no
worker starts if one cannot be created.

### Timers

State: the clock `now`, `timers` (`m_timers`), the fields of each Timer,
`tickled`, `previous`, and per idle thread its place in `idle()`, its
`next_timeout`, its local `now_ms` (`seen`) and the callbacks it has collected
(`cbs`). `runs`, `cancelled` and `since` are history for the properties.
`addTimer` is three actions (`Create` reads the clock, `Add` takes the lock,
`Notify` calls `tickle()` after it is released); `cancel`, `refresh` and `reset`
are one each; `idle()` is `NextTimer`, `Poll`, `Wake` or `Interrupted`,
`ReadClock`, `Collect`, `ScheduleCb`. The clock moves between any two of them.
The conversion to `int` is `ToInt`, with the width as a constant.

### IOEvents

State: the table (`table[fd]` is the generation of the `FdContext` that
`m_fdContexts` holds, 0 where it ends; `made` counts generations, since a
table that shrinks and grows again makes new contexts), each context's
`events`, `m_scheduler` and callbacks, `pending`, and epoll as an external component: the mask and
pointer of each descriptor (`interest`), the ready list, the level of
readiness. Every public operation is the lookup under the table's lock, then the
part under the context's mutex (`AddLocked`, `DelLocked`, `CancelLocked`,
`CancelAllLocked`), with `Grow` between the two if the table is too short.
`EpollWait` hands a batch to a thread, `Handle` treats one event of it. The
guard of `delEvent()` is modelled as the compiler reads it:
`!fd_ctx->events & event`. `pending` is unsigned as in the code: it counts modulo
`CounterSpan`.

### IOScheduler

Extends Scheduler and composes it with the timers and events of an IOManager:
the tasks, the pipe, the timers that are armed or due and the events that are
registered or ready, each reduced to the job it will schedule. `idle()` is now
`ReadTimers`, `ReadPending`, `ReadQueue` (the three reads of `stopping()`),
`Wake`, `Collect`, `ScheduleExpired`, `HandleEvent`, `CountDown`, `YieldIdle`;
`TickleIdle` writes into the pipe if a thread counts as idle; `stop()` uses
IOManager's `stopping()`. What Timers and IOEvents say of single timers and
events (punctuality, registration) is abstracted here; what they leave out (who
schedules, who executes, who ends) is here.

The same mapping as in Scheduler makes it implement TaskPool
(`IOImplementsPool`): a job that a timer or an event will schedule is not waiting
yet; it begins to wait when the thread that has collected it schedules it.

### Descriptor and HookedIO

Descriptor is one number: `fd` is what `socket()` and `close()` have done of it,
`opens` tells the descriptors apart that had the number, `entry` is the one the
table's `FdCtx` was made for, `user` its `m_userNonblock`, `limits` the timeouts it
holds, and `blocks` is O_NONBLOCK of the descriptor itself, with the memory of who
left it so. `Open` and `Register` are `socket()` and `accept()`: the system call,
and `get(fd, true)` with `FdCtx::init()`; an `FdCtx` that is still there is taken as
it is. `SetFlags` (`fcntl()`), `SetFionbio` (`ioctl()`) and `SetTimeout`
(`setsockopt()`) are the hooks that change it. `StartClose`, `Delete` and
`CloseNumber` are `close()`, `Opening` and `Settings` the two groups; since `del()`
copies the lock instead of taking it, its `reset()` may be lost.

HookedIO extends it with fibers that make calls on the number. `place[f]` is where
fiber `f` is in `do_io()`, `connect_with_timeout()` or `sleep()`; `timed` the fibers
whose call has a timeout, which is looked up when the call begins; `timer[f]` the
timer in `m_timers` that was armed for its wait, or that of `sleep()`; `callbacks[f]`
how far the callbacks of collected timers have come: collected and not yet begun,
with `tinfo` locked, after `t->cancelled = ETIMEDOUT`, or on its way to `cancelEvent()`
with its call returned (`"late"`); `told` the fibers whose `tinfo->cancelled` is set;
`events`, `watched` and `used` are the descriptor's context: registered, watched by
epoll, and with a fiber in the event context; `queued` counts a fiber in `m_tasks`.
`overdue`, `missed` are history.

`do_io()` is `Call`, `Try` (the system call, and `addConditionTimer()` if it would
block), `Add` (`addEvent()` and the yield), `Resume` (with `timer->cancel()`) and
`Check`, or `Refused`; `connect_with_timeout()` is `Connect`, the same steps, and
`ConnectDone`. Arming or cancelling a timer touches nothing that another thread
looks at but the timer itself, which is why it is one action with the access next to
it. The callback of the timer is `Expire`, `Lock` (the weak pointer and the test of
`cancelled`), `Tell`, `TimeOut`, and may run on another thread between any two steps
of the call; when a call returns (`End`) its `tinfo` dies, and with it every callback that
has not locked it; one that has goes on to `cancelEvent()` (`TimeOutLate`), whatever the
fiber does by then. A call that the hooks hand to the system as it is, for want of an
`FdCtx` or because the program asked for it, is `Direct`. A system call on a descriptor
that blocks takes its thread with it: the place `"stuck"`, which only the peer ends
(`Unblock`). `PoolSize` is the number of threads: when that many are stuck no fiber, no
timer and no report goes on (`FreeThread`). `close()` is `CloseCancel` (`cancelAll()`),
`Delete` and `Close` (`close_f()`), and `Open` may follow while calls on the number go on.

Whether a system call can be served, and whether epoll reports the descriptor, is
the choice of the kernel, each time anew: no model of the peer is needed, and none
restricts the interleavings.

It relies on the layers below as they are meant, and leaves to their modules how
they fail: a fiber is not taken from the queue before it has yielded (run
`ready`), no stale report triggers an event twice (run `stale`). A fiber that
waits for its event a second time aborts in `addEvent()`, which run `again` finds
and which is modelled here too.

`MC*.tla` hold the model values of the instances, `*Proofs.tla` the theorems.

## 3. The runs

Runs that pass:

| run | instance | what it shows |
|---|---|---|
| `drain` | ThreadStart: `start()`, one worker and the caller, two jobs, tasks pinned to the worker or to nobody | A job that was scheduled and has not ended is queued or held by a thread (`NothingLost`); the active count, which decides when to stop, is exact (`ActiveExact`); with `use_caller` a queued task always has a thread that will scan the queue once more (`QueueIsServed`), so that `stop()` leaves at most tasks pinned to a thread that has gone (`StopDrains`); and it returns (`StopReturns`). All of it implements TaskPool (`ImplementsPool`). The semaphore of each thread is posted and consumed once (`Handshake`), no id is read before it is stored (`IdsAreKnown`), `start()` returns or throws (`StartEnds`), and is atomic for everybody else (`StartsAtOnce`). |
| `once` | one timer, two idle threads, the clock may be set back by more than an hour | `Registered`: the erase in `cancel()` is defined; `FiresOnce`: at most one execution, none after a successful `cancel()`; and a timer is a promise (`ImplementsPromises`): what a thread has collected can be neither cancelled nor collected again. `NotEarly`: whatever is collected is due, although the reading of the clock is older than the lock, unless the clock was set back in between or the reading passes for a rollover. |
| `timely` | two timers, one idle thread, any operations | `OnTime`: although `m_tickled` is never reset and so only the first insertion at the front ever wakes a thread, a timer is at most `MAX_TIMEOUT` late. |
| `events` | READ and WRITE of one descriptor with hang-ups, a table that must grow for it, one user, two idle threads, all operations | `OneWakeup`: a waiter is scheduled exactly once, whoever cancels and however stale a batch; `InterestExact`: what epoll watches is what is registered; `EdgeIsDelivered`: an edge that one thread has consumed is not lost to a later registration; and a registration is a promise (`ImplementsPromises`), also when a call aborts. |
| `iom` | one worker and the caller, two jobs, each a task, a timer or an event | `JobRuns`: a scheduled job is executed although wake-ups are lost; `StopRunsTasks` and `IOStopReturns`: what is scheduled is executed before `stop()` returns, by threads that read timers, events and queue at different moments, and `stop()` returns; a second `stop()` meets the ended root fiber only when something was left (`SecondStopFindsLeft`); and all implements TaskPool (`IOImplementsPool`). |
| `hooked` | one fiber that receives, with a timeout once `setsockopt()` was called, and one that connects, with a timeout, both also sleeping, in two threads, on a number that is opened twice, closed and made blocking or not at any moment | `WaitsForOne`: a fiber that waits is scheduled by exactly one of event, timer and queue, and nothing else is scheduled; `NoTimerLeft`: no timer outlives its wait, and of the callbacks of a call that has returned only those that had locked its `tinfo` are left; `TimeoutIsReported`, although `tinfo->cancelled` is written without a lock; `KeepsThreads`: a system call blocks its thread only if `ioctl(FIONBIO)` has made the descriptor block, or the table's `FdCtx` belongs to another descriptor; `CallsReturn`: as long as a thread is free, calls with a timeout return, with the exceptions it names. |

Runs that find a violation, each of a sentence the repository says of itself:

| run | what the code does | what it says |
|---|---|---|
| `pool` | Without `use_caller` the idle fibers of all workers end after their second turn, stopping or not; what is scheduled later is never executed, and `stop()` returns. | `threadPoll_fiber_scheduler.h:55`: returns after all scheduled tasks have been executed |
| `ready` | A fiber that schedules itself is taken by another thread before it yields: the assertion aborts. | `threadPoll_fiber_scheduler.cpp:158`: only a READY task can come in here |
| `again` | `triggerEvent()` leaves the fiber or callback in the context, and the next `addEvent()` of that event aborts. | `IOManager.cpp:228`, an assertion |
| `stale` | An event is cancelled between `epoll_wait()` and the lock while another one of the descriptor is still registered: both are triggered, and the assertion aborts. | `IOManager.cpp:396`, an assertion |
| `pending` | `delEvent()` of an event that is not registered passes the guard `!fd_ctx->events&event` when the other event of the descriptor is, and decrements the unsigned counter. | `IOManager.h:156`: the number of I/O events that wait to be executed |
| `window` | A job that runs on a thread whose idle fiber has ended registers an event between two reads of `stopping()`: `stop()` returns with the event pending. | `IOManager.cpp:378`: must not exit before all I/O events have been executed |

### Bounds

* Scheduler: a thread that takes a task and another that interferes are all
  that an interleaving of `run()` has; two jobs are one that spawns, pins or
  reschedules and one that is spawned. The queue is bounded by the jobs, since a
  job is queued at most once more than it runs. Nothing else is bounded. Run
  `drain` has one worker: a second one, with the steps of `start()` and the
  liveness properties, is beyond what TLC does in minutes, and the caller is the
  second thread of every interleaving. That two workers do not begin at different
  moments is `StartIsAtomic`, proved for any number.
* Timers: `Horizon` ends the clock, `MaxRuns` caps the count of executions
  (`FiresOnce` needs to tell 0, 1 and more), `MaxTimeout` and `Hour` are scaled
  to the horizon so that sleeping for the maximum and a rollover both happen.
  `Periods` stay below half of `IntSpan`: beyond, see section 6.
* IOEvents: `Waiters` are the registrations of a behaviour; two are one event
  that is reported, cancelled or deleted while the other one of the descriptor
  is there, with an idle thread that holds a stale batch and one that handles a
  fresh one. `MaxGen`, how often a context is created, is 1: a table that shrinks
  again loses what it held (section 6), and is covered by the proof of
  `WokenOnce`. `CounterSpan` is 3: the registered events, 0 to 2, are told apart,
  and one step below 0 is not 0. `FirstSize` stands for the 32 of the
  constructor, small so that the table must grow for the descriptor.
* HookedIO: `MaxOpens` is 2, the descriptor a call was made for and another one
  that has got its number; the second one is not closed any more, which is where the
  bound ends the behaviours. Two fibers are one for each event of a descriptor, and
  `addEvent()` allows no third: one receives, so that it can try again after it was
  woken, the other connects, which looks at the result at once. `Directions` is the
  first of them alone, since only `do_io()` looks a timeout up in the `FdCtx`; it has one
  or none. `Limited` is the second: `connect()` passes `s_connect_timeout`, which is
  5000 (`hook.cpp:68` and `284`). `PoolSize` is 2, so that one fiber may block its thread
  while the other goes on, and both may block all threads; `PoolSize = 1`, the default of
  IOManager, passes as well, and the proofs cover any number of fibers and threads.
* IOScheduler: two jobs are enough for a task that is pinned to a thread about
  to leave, and for a timer that hands over to an event; run `window` takes
  three because the owner there registers nothing itself.

### Fairness

* Threads: weak fairness of the steps of `run()` and of `stop()`. They are
  threads of the operating system; a mutex that is released is obtained, and
  between two critical sections nothing blocks except `epoll_wait()`, which
  returns after at most `MAX_TIMEOUT` (in Timers a negative timeout is not
  forgotten; IOScheduler assumes timers nearer than 2^31 ms).
* ThreadStart: `start()` and a thread that is being born go on; `pthread_create()`
  may fail, and nothing is assumed of whether it does. What a thread does under
  `m_mutex` is fair only while `start()` does not hold it.
* Jobs: a job that reschedules itself again and again returns in the end
  (strong fairness of `Finish`, as it is enabled only while it runs); jobs of
  IOScheduler return. The code cannot guarantee that of the program, and
  `stop()` cannot return without it.
* Environment, in IOScheduler only: timers become due, events arrive.
  `stop()` waits for both by design.
* IOEvents: only the idle threads are fair. Nothing is assumed of the callers.
* HookedIO: as long as a thread is free, a call that has begun goes on, timers
  expire and their callbacks run: both parts of `Fairness` have `FreeThread` as a guard.
  What the program executes between its calls gives its thread back, as jobs do.
  Nothing is assumed of the peer: that a call returns is due to its timeout or to
  `close()`, and a thread that a system call blocks may stay blocked for ever.

In Scheduler the liveness property excuses a process that was aborted by an
assertion, which run `ready` shows to be possible. In IOScheduler it excuses two
things that really stop it: a task pinned to a thread that has left `run()`
keeps the queue non-empty for ever, and the second `stop()`, which
`~IOManager()` makes, aborts when something is left after the first, because
the root fiber cannot be resumed again. In HookedIO it excuses three ways in
which the code loses the waiter (section 6): the callback of the timer has run
before `addEvent()`, so that it found nothing to cancel; `addEvent()` came
between `cancelAll()` and `close_f()` of another fiber; and the abort of run
`again`. And it excuses system calls that block their threads: that of the fiber
itself, of which `KeepsThreads` says when it may happen, and those of other fibers if
they block all threads at the moment.

## 4. What is proved

For any number of threads, jobs, timers, descriptors and fibers, any pins,
periods, clock and bounds that satisfy the assumptions named in the modules:
`ConstantsAssumption` (the workers are finite and the caller is none of them, the
special values are distinct from what they stand beside), `NoIdAssumption` (an id
that was not stored is no worker's), `OpensAssumption`, `TimerConstants`
(durations are natural numbers and the clock does not begin within its first
hour), `EventConstants` (descriptors and sizes are natural numbers, events are
READ and WRITE), `IOConstants`, `HookConstants`. Every run of a module evaluates the
assumptions the module makes. A theorem that needs more says so:

| hypothesis | where | what it says |
|---|---|---|
| `Alone` | TaskPoolProofs | one thread executes all tasks, and none is pinned to a thread that does not |
| `Serviceable` | IOSchedulerProofs, IOTaskPoolProofs | there is a thread that executes tasks, and tasks are pinned to such threads only |
| `NoLateEvents` | IOSchedulerProofs | no event is registered once `stop()` has been called |
| `OneContext` | IOEventsProofs | the table never makes a second context for a descriptor (`MaxGen = 1`) |
| `Countable` | IOEventsProofs | nobody calls `delEvent()`; the descriptors are finite, and the counter is wider than the events are many |
| `OneKind` | IOEventsProofs | the program registers one kind of event only |
| `OneIdler`, `CallsWait` | IOEventsProofs | one thread handles reports, and no call changes an event meanwhile |
| `RegistersAfresh` | IOEventsProofs | no event is registered in a context where one was triggered before |
| `ClockForward`, `ReadingsFresh` | TimersProofs | the clock is never set back; no thread takes the lock more than an hour after it has read the clock |
| `ShortPeriods` | TimersProofs | periods are shorter than half of the width of `int` |
| `RunsCount` | TimersProofs | the history `runs` can tell no run from one (`MaxRuns` bounds the model, not the code) |

`NoLateEvents`, `CallsWait`, `RegistersAfresh` and `ClockForward` restrict the steps, not
the constants: the theorem is about the behaviours `Spec /\ [][...]_vars`; with
`ReadingsFresh`, about those in which it always holds.

### The invariants

* `Typing` (Scheduler): `TypeOK` is inductive. Its last conjunct is not a type:
  a thread holds a task exactly in the places between `Take` and `Return`, which
  the other invariants rely on.
* `NothingIsLost`: `NothingLost` is inductive relative to `TypeOK`. The step that
  matters is `Take`: the one task that is erased (`RemoveAtFacts`,
  `QueuedAfterTakeOut`) is in the hands of the thread that erases it; `YieldReady`
  lets go of a job only when it has rescheduled itself.
* `ActiveIsExact`: every step leaves the set of busy threads and the counter
  alone, or adds one thread to both (`Take`), or takes one off both (`Return`);
  the set is finite, so its cardinality follows.
* `QueueServed`: inductive together with `OwnerInv`, which says that the caller
  enters `run()` only in `stop()` and that `stop()` passes its last steps only
  after the threads have left. A thread that gives up scanning has just seen that
  no task for any thread is queued; a step that queues one is taken by a thread
  that will scan again, or by the caller before it has entered.
* `StopDrainsQueue`: when `stop()` is done every thread has left `run()`
  (`OwnerInv`), so no task for any thread is queued (`QueueServed`), no thread
  holds one, and by `NothingIsLost` whatever is not pinned has ended.
* `Refinement` (TaskPoolProofs): `Spec => ImplementsPool`, from `MapInv`: no job is
  queued twice (`Unique`), no two threads are about to resume the same job
  (`OneTaker`) or execute it (`OneRunner`), a job that is taken is READY and not
  queued, one that is executed is RUNNING, or READY and waiting again while its
  context is being saved (`TakerFits`, `RunnerFits`). Each action then is one action
  of TaskPool or a stutter: `Take` of a pinned task is `Claim`, `Resume` is `Begin`,
  `YieldSwap` is `Pause`, `Finish` is `End`, `Join` is `Stop`, for which `QueueServed`
  is needed. The other race of run `ready`, a fiber that is taken while it runs, is
  no exception: the assertion ends the behaviour before anything is executed twice.
* `StartLosesNothing`, `StartServes`, `StartRefinement` (ThreadStart): what was proved
  of Scheduler, whose workers start in one step, holds of `start()` as the code does
  it, with workers that are born one by one and may not be created at all. `PoolInv`
  carries `NothingLost`, `ActiveExact`, `QueueIsServed` and `MapInv` through the births;
  what the lock does for them is `StartInv`: no worker has scanned before `Unlock`. The
  step that differs is `CreateFails`, after which `m_mutex` is never unlocked: then no
  `stop()` begins, and nothing is claimed of it.
* `HandshakeHolds`, `IdsKnown` (ThreadStart): from `StartInv`. `BirthInv`: a thread
  that has notified has stored its id, and only such a thread enters `run()`;
  `LockInv`: while `m_mutex` is locked the owner is in `start()` and no worker has
  come past its first scan.
* `StartIsAtomic`: `StartSpec => StartsAtOnce`. Until `Unlock` every step is a
  stutter of Scheduler, since nobody passes the lock; `Unlock` is `Start`; `EnterRun`
  after it is a stutter, because a worker that is still in `Thread::run()` is read as
  one before its first scan.
* `Typing` (Timers): every timeout handed to `epoll_wait()` is at most
  `MAX_TIMEOUT` (`TimeoutCapped`, for any width of `int`).
* `TimersKeepPromises` (Timers): `Spec => ImplementsPromises` under `RunsCount`, for a
  clock that is set back at any time. `Inv` says that a timer with its callback is in
  the set, in nobody's hands and has not run; `HandsEmpty`, that callbacks are held only
  by a thread that is scheduling them, so that the next `Collect` overwrites none.
  `Refresh`, `Reset` and the insertion of a recurring timer again are stutters.
* `AlwaysRegistered` and `OneShotFiresOnce`: both follow from `Inv`, which adds to
  them that `m_timers` and the cancelled timers were inserted by `addTimer()`,
  that a timer that is not yet inserted has its callback and was neither
  collected nor run, and that a cancelled timer has no callback. Without these
  `Add` could put a timer into the set that has already run.
* `NeverEarly`: `Spec => NotEarly`, with a clock that is set back and readings of any
  age. What is newly held was collected in this step (`NewlyHeld`); it was due at the
  reading, or the reading passed for a rollover, which is the named exception.
* `ForwardNeverEarly`: without exceptions under `ClockForward` and `ReadingsFresh`, while
  the clock and all other threads go on between the reading and the lock. `PastInv`: no
  reading and no `m_previouseTime` is of the future, so that none passes for a
  rollover; that another thread with a later reading has collected meanwhile does no
  harm.
* `Punctual`: `TimelySpec => []OnTime` under `ShortPeriods` (periods below half of the
  width of `int`), from `LateInv`. `ClockInv`: the time a thread has read is the time at
  which it takes the lock, since the clock of TimelySpec stands still while threads are
  awake. `NearInv`: a timer is never farther away than its period,
  which is what makes the conversion to `int` harmless; `SleepInv`: no thread is about
  to sleep, or sleeps, beyond the deadline of a timer, which holds because a timeout
  is capped and a deadline counts from the insertion (`DeadlinesKept`).
* `Typing` (IOEvents): `TypeOK` carries the facts that a call takes from one lock
  to the next: the context it has looked up exists, and so does every context
  epoll points to. They stay true because contexts are never freed, even by a
  table that shrinks.
* `WokenOnce`: `OneWakeup` follows from `WakeInv`. `RegisteredIsArmed`: a
  registered event has a waiter that was armed and not scheduled; `NotShared`: no
  two registered events have the same waiter; `WokenOrRegistered`: an armed waiter
  is registered or was scheduled once; `CallsBringNew`: the waiter that an
  `addEvent()` in progress brings is new and no other call brings it. The step
  that matters is `Handle`: of a batch that may be stale it triggers only what is
  registered under the lock, or else the assertion of `triggerEvent()` ends the
  behaviour (run `stale`). No assumption on the table: it holds for `MaxGen` of
  any size.
* `WatchedIsRegistered`: `InterestExact` under `OneContext` (`MaxGen = 1`): every
  operation sets the mask of epoll and the events of the context in one critical
  section. With a second generation it is false (section 6).
* `CounterExact`: `PendingExact` under `Countable` (nobody calls `delEvent()`, the
  descriptors are finite, and the counter is wider than the events are many).
  The first is needed: run `pending` breaks it. Each operation changes the set of
  registered events by what it adds to the counter.
* `EventsKeepPromises`: `Spec => ImplementsPromises`, with no hypothesis on the table.
  From `WakeInv` and `HasScheduler`: an event has its `m_scheduler` exactly while it is
  registered, so that `Trigger` never meets one without. Each of `Handle`,
  `CancelLocked` and `CancelAllLocked` is one `Trigger` of Promises, `DelLocked` is
  `Revoke`, and a refused or aborted call is a stutter.
* `IOTyping`: `IOTypeOK`, which says that the pending counter is exact, follows
  from `IOInv`. It adds that an event a thread has got from epoll is still
  registered and that no other thread has got it (`GotIsWaiting`), so that what
  is counted down was counted.
* `StopRunsEverything`: `StopRunsTasks` under `Serviceable` (there is a thread that
  executes tasks, and tasks are pinned to such threads only), from `StopInv`.
  `NothingLost` as in Scheduler; `Leaving`: a thread leaves `run()` only after its
  idle fiber has ended, which happens only when stopping, and `stop()` passes its
  last steps only after they have left; `Empty`: callbacks and events are held
  only inside `idle()`; `Served`: a queued task for any thread has a thread that
  will scan once more. The last one is what makes the three separate reads of
  `stopping()` harmless for tasks: whoever schedules one, a job, an idle fiber or
  the owner, is a thread that will scan again, or does it before any has left.
  (For events they are not harmless: run `window`.)
* `IOActiveIsExact`: `ActiveExact` also where threads leave `run()` through an idle
  fiber that schedules callbacks and events before it ends.
* `SecondStopNeedsReason`: `SecondStopFindsLeft` under `Serviceable`. `SecondStop`: when
  `stop()` finds the caller's loop ended, all threads have left and something was left
  behind, since the counters that `stopping()` reads have come back to what is there.
  It says nothing of the other assertions of an IOManager, which jobs that yield or
  schedule themselves (run `ready`) and the steps within an event (runs `again`,
  `stale`) make fail, and which IOScheduler leaves out.
* `IORefinement`: `IOSpec => IOImplementsPool` under `Serviceable`, from `MapInv` and
  three facts: a job that a timer or an event has promised was never scheduled
  (`PromisedIsNew`) and is promised once, by a timer, an event or the hands of one
  thread (`OnePromise`), and a queued job does not run (`QueuedIsReady`). `Stop` uses
  `StopInv`.
* `Typing`, `OneWake`, `TimersEnd`, `Reported` (HookedIO): all from `IInv`, which
  joins `TypeOK` and `WaitsForOne` to three facts. `TimerFits`: which states of
  the timer and of its callbacks go with which place of the call; `OverdueIsTold`: a fiber that its
  timeout has woken has been told; `TellsFirst`: the callback tells the call before
  it cancels the event. The last two are why the unlocked `cancelled` is enough:
  the fiber is woken only after it was set. `TimersEnd` is `NoTimerLeft`, with the
  callbacks that outlive their call as its exception (section 6).
* `ThreadsGoOn`: `KeepsThreads`, from `OwnDoesNotBlock`: an `FdCtx` that belongs to the
  descriptor has made it non-blocking and `fcntl()` keeps it so; one that was there
  before the number was opened is another's.

### When the sentences that fail are true

Each run that finds a violation has a theorem that says on what condition the sentence
of the repository does hold.

* `pool`: `StopWaitsWithCaller`. With `use_caller` and nothing pinned, `stop()` returns only
  when every job has ended (`StopWaitsForAll`).
* `ready`: `AloneIsSafe`, under `Alone`. The thread that executes a fiber is the only one
  that could take it, and it does not scan before the fiber has yielded or ended. From
  `AloneInv`: a RUNNING fiber is held by a thread (`RunningIsHeld`), every task is for a
  thread that executes tasks, and a second `stop()` finds the queue empty
  (`CallerServes`), so that it does not resume the root fiber.
* `again`: `FreeUnlessTriggered`, under `RegistersAfresh`. `Leftover`: what is in a context
  without an event was left by a trigger; `delEvent()` leaves nothing. `CallInv` is why
  the lookup and the locked part may be apart: the program, which must not add one
  event twice, has no two calls under way that do, and what a call has looked up, or
  will find when it has extended the table, does not hold its event.
* `stale`: `OneKindIsSafe`, under `OneKind`, however stale a batch is: what `idle()` keeps of
  a report under the lock is then all or nothing. `OneThreadIsSafe`, under `OneIdler` and
  `CallsWait`: what epoll watches is registered (`Backed`), and so is what the batch
  reports (`Fresh`).
* `pending`: `CounterExact`, under `Countable`.
* `window`: `StopAwaitsEvents`, with `use_caller` and under `NoLateEvents`. From `LastLook`:
  when the owner has read that nothing is pending, nothing is registered, and nothing
  can be from then on.

### What is only model-checked

Everything under fairness (`StopReturns`, `StartEnds`, `EdgeIsDelivered`, `JobRuns`,
`IOStopReturns`, `CallsReturn`), which is out of the prover's reach.

## 5. What is not modelled

* Of Thread and Semaphore: names, `~Thread()` (`stop()` has joined every thread
  before), and a `sem_wait()` that a signal interrupts: the constructor throws and
  destroys what its new thread is about to write to.
* Of the descriptor table: its size, and an `FdCtx` of a descriptor that is no
  socket, which the hooks treat as if there were none.
* Of the hooks: how long a timeout is, `fcntl()` other than F_SETFL (F_GETFL answers
  from `getSysNonblock()`), and the results of the calls.
* In the composition: HookedIO does not run on IOScheduler, nor IOScheduler on
  IOEvents and Timers. Each abstracts what it needs of the layer below to the
  promise that the module of that layer is checked for.
* The locks of `mutex.h` are taken to be what POSIX says; utilities, the
  single-thread demonstration and the test programs have no state of their own
  worth a model.
* `Fiber::reset()` and the demonstration of nested schedulers; stacks, ids and
  memory; formatting and output.
* The capacity of the tickle pipe (one byte per task that is queued at most).
* Jobs of IOScheduler do not yield: what a yield adds is in Scheduler.

## 6. Observations without a run

* `TimerManager.cpp:29`: `m_tickled` is never set back to false, so that after the
  first insertion at the front no insertion wakes anybody. `OnTime` shows that
  the cap of 5 s of `epoll_wait()` bounds the damage.
* `IOManager.cpp:92`: the distance to the next timer is cast to `int` before it
  is capped; at 2^31 ms it is negative and `epoll_wait()` sleeps for ever.
* `IOManager.cpp:203`: two threads that have both found the table too short
  extend it one after the other; `contextResize()` with the smaller size last
  makes it shorter again, and a later `addEvent()` creates a second context for a
  descriptor whose first one is still registered (the model has it, with
  `MaxGen > 1`; `InterestExact` is then false).
* `hook.cpp:113`: the timer is armed before `addEvent()`. If its callback runs
  before that, `cancelEvent()` finds nothing, and the call waits without a
  timeout (`missed` in `CallsReturn`).
* `hook.cpp:346`: a call that registers its event between the `cancelAll()` of
  `close()` and `close_f()` is never woken: epoll forgets a closed descriptor
  (`Forgotten` in `CallsReturn`).
* `hook.cpp:257`: the comment on `timer->cancel()` says that the callback of a timer
  finds `winfo` expired once the call is over, and does nothing. A callback that has
  locked it before keeps `tinfo` alive and goes on to `cancelEvent()` on the number,
  where another call of the fiber may wait by then (`TimeOutLate`; the exception in
  `NoTimerLeft`). That call is woken early: `recv()` tries again, and aborts in
  `addEvent()` if it has to wait once more; and `connect()` reads `SO_ERROR`, which may still be 0, and returns
  success. It takes a call whose `addEvent()` was refused because the number had been
  closed, and a second call on the number that is opened next.
* `hook.cpp:278`: a `connect()` that was woken by `close()` reads `SO_ERROR`,
  which may still be 0, and returns success; and it assigns `error` to itself
  where `errno` was meant. Results of calls are not modelled.
* `IOManager.cpp:61`: a thread that has found the queue empty and is not yet
  counted as idle is not woken by a task that is queued in between. It sleeps
  beside it for at most the cap of `epoll_wait()`, which is why `JobRuns` holds.
* `hook.cpp:456`: `ioctl(FIONBIO, 0)` is passed on to the system, whereas `fcntl()`
  keeps O_NONBLOCK set behind the program's back. After it the next hooked call that
  cannot be served blocks its thread, and every fiber that waits for that thread
  (the first exception of `KeepsThreads`).
* `fd_manager.cpp:104`: `RWMutexType lock(m_mutex)` copies the lock. A `reset()` that is
  lost, or a `close()` in a thread without hooks, leaves the `FdCtx`; when the number is
  opened again it is taken for the new descriptor, which is never made non-blocking
  (the second exception), and lends it the timeouts and the flag of the old one.
* `hook.cpp:140`: a fiber that `close()` has woken tries the system call again with the
  number it was given, which may be another descriptor's by then.
* `IOManager.cpp:217`: an event that epoll has forgotten at a `close()` stays in the
  `FdContext`; from then on `addEvent()` on that number asks epoll to modify what it does
  not know, and is refused, for every descriptor that gets the number (`Refuses`).
* `Thread.cpp:55`: when `pthread_create()` fails the exception leaves `start()` with
  `m_mutex` locked by a raw `lock()`: the threads that exist wait for it for ever,
  and so would `stop()`.
* `hook.cpp:472`: a timeout of 0, by which a program asks for none, is stored as one of
  0 milliseconds.
* A `stop()` after one that left something behind resumes an ended root fiber and
  aborts (reached in `drain` and `iom`). `SecondStopFindsLeft` says that it does so for no
  other reason. The other assertions of an IOManager fail as well, each in a run of its
  own: that of `run()` in `ready`, those of `addEvent()` and `triggerEvent()` in `again`
  and `stale`.

## 7. Plan

1. The modules of section 2 with their runs: done.
2. Proofs: done for every safety property that a passing run checks, for the
   refinements (TaskPool by Scheduler, ThreadStart and IOScheduler, Scheduler by
   ThreadStart, Promises by Timers and IOEvents), and for the counterparts of the
   runs that find a violation. Left: the counterpart of `Alone` for a pool of several
   threads whose program never schedules a fiber that still runs; and that what
   IOScheduler assumes of a timer and of an event is what Promises says of it.
3. Left: a model of Fiber itself, with the contexts that `resume()` and `yield()`
   swap and the thread-local variables that name them, for fibers that resume
   others; two descriptor numbers in HookedIO, for the table that moves while an
   entry is deleted; and HookedIO on top of IOScheduler, so that what a hooked call
   promises is derived from the layers instead of assumed of them.
