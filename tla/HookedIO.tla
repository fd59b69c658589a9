------------------------------ MODULE HookedIO ------------------------------
(***************************************************************************)
(* The hooks (hook.cpp): fibers that call recv(), send(), connect() and    *)
(* their like on one descriptor number (see Descriptor), or sleep(), and   *)
(* what a call leaves in the timers, the descriptor's context and the task *)
(* queue while it waits; and other fibers that close the number and open   *)
(* it again while calls go on.  Whether a call can be served at once is    *)
(* the kernel's choice, each time.                                         *)
(*                                                                         *)
(* The fibers, and the callbacks of their timers, execute on the threads   *)
(* of an IOManager: what sits between two accesses to shared state is one  *)
(* action, and so is an access with the arming or cancelling of one's own  *)
(* timer next to it, since no step of another thread depends on which of   *)
(* the two came last.  Any number of fibers may be within a call at once,  *)
(* more than there are threads; but when the last thread is blocked        *)
(* nothing goes on.                                                        *)
(* No two fibers wait for the same event of the descriptor, as addEvent()  *)
(* demands, so an event is named by the fiber that waits for it; and a     *)
(* fiber is not taken from the queue before it has yielded (see Scheduler, *)
(* OnlyReadyIsTaken), nor triggered by a stale report (see IOEvents).      *)
(***************************************************************************)
EXTENDS Descriptor, FiniteSets

CONSTANTS
  Fibers,      \* the fibers that use the descriptor
  Connecting,  \* those of them that call connect(), not recv() or send()
  Limited,     \* those of these that have a timeout, as connect() has;
               \* connect_with_timeout(-1) has none
  PoolSize     \* the threads of the IOManager

ASSUME HookConstants ==
  /\ Connecting \subseteq Fibers /\ Limited \subseteq Connecting
  /\ PoolSize \in Nat \ {0}
  /\ Directions \subseteq Fibers \ Connecting

VARIABLES
  place,    \* fiber -> where it is in its call, "out" if in none
  timed,    \* the fibers whose call has a timeout
  told,     \* the fibers whose tinfo->cancelled is ETIMEDOUT
  timer,    \* fiber -> the timer of its wait: of a call "armed"; of sleep()
            \* "nap", and "wake" when its callback is in m_tasks
  callbacks,\* fiber -> how far the callbacks of its timeouts have come, "late"
            \* if the call has returned.  Two at the same point count as one:
            \* a fiber waits for its event once (see IOEvents, ContextIsFree),
            \* and the second has nothing to cancel.
  events,   \* fd_ctx->events
  watched,  \* the events epoll watches
  used,     \* the events whose EventContext holds a fiber
  queued,   \* fiber -> how often it is in m_tasks
  overdue,  \* the fibers that their own timeout has woken
  missed,   \* the fibers whose timeout found no event to cancel
  fault     \* "none", or the assertion that failed

context == <<events, watched, used>>
outside == <<number, fault>>
vars == <<place, timed, told, timer, callbacks, context, queued, overdue,
          missed, outside>>

Init ==
  /\ place = [f \in Fibers |-> "out"]
  /\ timed = {}
  /\ told = {}
  /\ timer = [f \in Fibers |-> "none"]
  /\ callbacks = [f \in Fibers |-> {}]
  /\ events = {} /\ watched = {} /\ used = {}
  /\ queued = [f \in Fibers |-> 0]
  /\ overdue = {} /\ missed = {}
  /\ fault = "none"
  /\ NumberInit

At(f, l) == place[f] = l
GoTo(f, l) == place' = [place EXCEPT ![f] = l]

\* A fiber whose system call blocks keeps its thread.
FreeThread == Cardinality({f \in Fibers : At(f, "stuck")}) < PoolSize

(***************************************************************************)
(* A call: do_io(), connect_with_timeout(), sleep().                       *)
(***************************************************************************)
\* do_io() begins.  Without an FdCtx, or if the program asked for it, the system
\* call is made as it is.  The timeout is looked up here, once for all waits.
Call(f) ==
  /\ f \notin Connecting /\ At(f, "out")
  /\ fd \in {"open", "cancelled", "deleted"}
  /\ GoTo(f, IF entry # 0 /\ ~user THEN "try" ELSE "direct")
  /\ timed' = IF entry # 0 /\ ~user /\ f \in limits
              THEN timed \cup {f} ELSE timed
  /\ UNCHANGED <<told, missed, timer, callbacks, context, queued, overdue,
                 outside>>

\* connect_with_timeout() begins: without an FdCtx it fails at once.
Connect(f) ==
  /\ f \in Connecting /\ At(f, "out")
  /\ fd \in {"open", "cancelled", "deleted"} /\ entry # 0
  /\ GoTo(f, IF user THEN "direct" ELSE "try")
  /\ timed' = IF ~user /\ f \in Limited THEN timed \cup {f} ELSE timed
  /\ UNCHANGED <<told, missed, timer, callbacks, context, queued, overdue,
                 outside>>

\* The call returns, -1 or what the system call did; its tinfo dies, and with it
\* what a callback could lock.  A callback that has locked it keeps it alive
\* and will call cancelEvent() all the same.
End(f) ==
  /\ GoTo(f, "out")
  /\ timed' = timed \ {f}
  /\ told' = told \ {f} /\ missed' = missed \ {f}
  /\ callbacks' = [callbacks EXCEPT ![f] =
                     IF @ \subseteq {"collected"} THEN {} ELSE {"late"}]
Return(f) == End(f) /\ UNCHANGED timer

\* addConditionTimer()
Arm(f) == timer' = [timer EXCEPT ![f] = "armed"]

\* The system call of do_io() and connect(): it fails if nothing has the number,
\* does what it can, or blocks the thread, or would block; then a call with a
\* timeout arms a timer.
Try(f) ==
  /\ At(f, "try")
  /\ \/ Return(f)
     \/ /\ fd # "free" /\ blocks # "no" /\ GoTo(f, "stuck")
        /\ UNCHANGED <<timed, told, missed, timer, callbacks>>
     \/ /\ fd # "free" /\ blocks = "no" /\ GoTo(f, "add")
        /\ IF f \in timed THEN Arm(f) ELSE UNCHANGED timer
        /\ UNCHANGED <<timed, told, missed, callbacks>>
  /\ UNCHANGED <<context, queued, overdue, outside>>

Direct(f) ==
  /\ At(f, "direct")
  /\ \/ Return(f)
     \/ /\ fd # "free" /\ blocks # "no" /\ GoTo(f, "stuck")
        /\ UNCHANGED <<timed, told, missed, timer, callbacks>>
  /\ UNCHANGED <<context, queued, overdue, outside>>

\* The peer lets a thread go that the system call has blocked.
Unblock(f) ==
  /\ At(f, "stuck") /\ Return(f)
  /\ UNCHANGED <<context, queued, overdue, outside>>

\* addEvent(): epoll_ctl() refuses a number that is free, and to modify what it
\* does not know; and the event's context must be free.  Then the fiber yields.
Refuses == fd = "free" \/ (events # {} /\ watched = {})
Add(f) ==
  /\ At(f, "add")
  /\ \/ Refuses /\ GoTo(f, "failed") /\ UNCHANGED <<context, fault>>
     \/ /\ ~Refuses /\ f \in used
        /\ fault' = "assert_context"
        /\ UNCHANGED <<place, context>>
     \/ /\ ~Refuses /\ f \notin used
        /\ events' = events \cup {f} /\ watched' = watched \cup {f}
        /\ used' = used \cup {f}
        /\ GoTo(f, "wait")
        /\ UNCHANGED fault
  /\ UNCHANGED <<timed, told, timer, callbacks, queued, overdue, missed,
                 number>>

\* sleep(): a timer whose callback schedules the fiber, which yields.
Sleep(f) ==
  /\ At(f, "out")
  /\ timer' = [timer EXCEPT ![f] = "nap"]
  /\ GoTo(f, "asleep")
  /\ UNCHANGED <<timed, told, callbacks, context, queued, overdue, missed,
                 outside>>

\* (mutant) timer->cancel() is forgotten
KeepTimer(f) == UNCHANGED timer

\* timer->cancel(): too late for a timer that a thread has collected.
CancelTimer(f) ==
  timer' = [timer EXCEPT ![f] = IF @ = "armed" THEN "none" ELSE @]

\* run() takes the fiber from the queue: a call cancels its timer, and sleep()
\* returns.
Resume(f) ==
  /\ queued[f] > 0
  /\ queued' = [queued EXCEPT ![f] = @ - 1]
  /\ \/ At(f, "wait") /\ GoTo(f, "check") /\ CancelTimer(f)
     \/ At(f, "asleep") /\ GoTo(f, "out") /\ UNCHANGED timer
  /\ UNCHANGED <<timed, told, callbacks, context, overdue, missed, outside>>

\* do_io() looks at tinfo->cancelled: it reports the timeout, or tries again.
Check(f) ==
  /\ f \notin Connecting /\ At(f, "check")
  /\ overdue' = overdue \ {f}
  /\ IF f \in told THEN Return(f)
     ELSE GoTo(f, "try") /\ UNCHANGED <<timed, told, missed, timer, callbacks>>
  /\ UNCHANGED <<context, queued, outside>>

\* connect_with_timeout() reports the timeout, or what SO_ERROR says.
ConnectDone(f) ==
  /\ f \in Connecting /\ At(f, "check")
  /\ overdue' = overdue \ {f}
  /\ Return(f)
  /\ UNCHANGED <<context, queued, outside>>

\* addEvent() has failed: the timer is cancelled and the call returns.
Refused(f) ==
  /\ At(f, "failed") /\ CancelTimer(f) /\ End(f)
  /\ UNCHANGED <<context, queued, overdue, outside>>

(***************************************************************************)
(* What wakes a fiber.                                                     *)
(***************************************************************************)
\* (mutant) epoll goes on watching what has been triggered
TriggerWatched(fs) ==
  /\ events' = events \ fs /\ UNCHANGED watched
  /\ queued' = [f \in Fibers |-> IF f \in fs THEN queued[f] + 1 ELSE queued[f]]

\* triggerEvent(): the fiber stays in the event's context.
Trigger(fs) ==
  /\ events' = events \ fs /\ watched' = watched \ fs
  /\ queued' = [f \in Fibers |-> IF f \in fs THEN queued[f] + 1 ELSE queued[f]]

\* The event loop finds the descriptor ready.
Report(f) ==
  /\ f \in watched
  /\ Trigger({f})
  /\ UNCHANGED <<place, timed, told, timer, callbacks, used, overdue, missed,
                 outside>>

\* (mutant) the waiter is scheduled, but the event stays registered
CancelKeeps(f) ==
  /\ queued' = [queued EXCEPT ![f] = IF f \in watched THEN @ + 1 ELSE @]
  /\ UNCHANGED <<events, watched>>

\* cancelEvent(): nothing happens if the event is not registered, or if
\* epoll does not know the descriptor any more.
CancelEvent(f) ==
  IF f \in watched THEN Trigger({f}) ELSE UNCHANGED <<events, watched, queued>>

\* A thread collects the timer and schedules its callback.
Expire(f) ==
  /\ \/ timer[f] = "nap" /\ timer' = [timer EXCEPT ![f] = "wake"]
        /\ UNCHANGED callbacks
     \/ timer[f] = "armed" /\ timer' = [timer EXCEPT ![f] = "none"]
        /\ callbacks' = [callbacks EXCEPT ![f] = @ \cup {"collected"}]
  /\ UNCHANGED <<place, timed, told, context, queued, overdue, missed, outside>>

\* The callback of sleep()
WakeUp(f) ==
  /\ timer[f] = "wake"
  /\ timer' = [timer EXCEPT ![f] = "none"]
  /\ queued' = [queued EXCEPT ![f] = @ + 1]
  /\ UNCHANGED <<place, timed, told, callbacks, context, overdue, missed,
                 outside>>

\* A callback goes on, from one point to the next.
Leaves(f, from) ==
  from \in callbacks[f] /\ callbacks' = [callbacks EXCEPT ![f] = @ \ {from}]
Moves(f, from, to) ==
  /\ from \in callbacks[f]
  /\ callbacks' = [callbacks EXCEPT ![f] = (@ \ {from}) \cup {to}]

\* (mutant) if(!t || !t->cancelled) return
LockTold(f) ==
  /\ IF f \in told THEN Moves(f, "collected", "locked")
     ELSE Leaves(f, "collected")
  /\ UNCHANGED <<place, timed, told, timer, context, queued, overdue, missed,
                 outside>>

\* OnTimer() and the callback of a call lock tinfo and look at it, ...
Lock(f) ==
  /\ IF f \in told THEN Leaves(f, "collected")
     ELSE Moves(f, "collected", "locked")
  /\ UNCHANGED <<place, timed, told, timer, context, queued, overdue, missed,
                 outside>>

\* ... tell the call, ...
Tell(f) ==
  /\ Moves(f, "locked", "told")
  /\ told' = told \cup {f}
  /\ UNCHANGED <<place, timed, timer, context, queued, overdue, missed,
                 outside>>

\* ... and cancel the event.
TimeOut(f) ==
  /\ Leaves(f, "told")
  /\ CancelEvent(f)
  /\ overdue' = overdue \cup (events \ events')
  /\ missed' = IF f \in events THEN missed ELSE missed \cup {f}
  /\ UNCHANGED <<place, timed, told, timer, used, outside>>

\* (mutant) cancelEvent() comes before t->cancelled = ETIMEDOUT
AnswerLate(f) ==
  \/ /\ Moves(f, "locked", "told")
     /\ CancelEvent(f)
     /\ overdue' = overdue \cup (events \ events')
     /\ missed' = IF f \in events THEN missed ELSE missed \cup {f}
     /\ UNCHANGED <<place, timed, told, timer, used, outside>>
  \/ /\ Leaves(f, "told")
     /\ told' = told \cup {f}
     /\ UNCHANGED <<place, timed, timer, context, queued, overdue, missed,
                    outside>>

\* What the callback does with a tinfo that it has locked
Answer(f) == Tell(f) \/ TimeOut(f)

\* The same, when the call has returned meanwhile: what it cancels is the wait
\* of a later call, if anything.
TimeOutLate(f) ==
  /\ Leaves(f, "late")
  /\ CancelEvent(f)
  /\ UNCHANGED <<place, timed, told, timer, used, overdue, missed, outside>>

(***************************************************************************)
(* The descriptor, in other fibers and threads.                            *)
(***************************************************************************)
\* close(): cancelAll() ...
CloseCancel ==
  /\ StartClose
  /\ Trigger(watched)
  /\ UNCHANGED <<place, timed, told, timer, callbacks, used, overdue, missed,
                 fault>>

\* ... and, after del(), close_f(): epoll forgets the descriptor.
Close ==
  /\ CloseNumber
  /\ watched' = {}
  /\ UNCHANGED <<place, timed, told, timer, callbacks, events, used, queued,
                 overdue, missed, fault>>

(***************************************************************************)
(* The specification.                                                      *)
(***************************************************************************)
\* What a thread does once the call, or the callback, has begun
Step(f) ==
  \/ Try(f) \/ Direct(f) \/ Add(f) \/ Resume(f)
  \/ Check(f) \/ ConnectDone(f) \/ Refused(f)

TimerStep(f) ==
  Expire(f) \/ WakeUp(f) \/ Lock(f) \/ Answer(f) \/ TimeOutLate(f)

Next ==
  /\ fault = "none"
  /\ \/ /\ FreeThread
        /\ \E f \in Fibers :
             \/ Call(f) \/ Connect(f) \/ Sleep(f) \/ Step(f) \/ TimerStep(f)
             \/ Report(f)
     \/ \E f \in Fibers : Unblock(f)
     \/ /\ Opening \/ Delete \/ Settings
        /\ UNCHANGED <<place, timed, told, timer, callbacks, context, queued,
                       overdue, missed, fault>>
     \/ CloseCancel \/ Close

Spec == Init /\ [][Next]_vars

\* As long as a thread is free, the threads run and timers expire: the jobs that
\* the program executes between its calls give their thread back.  Nothing is
\* assumed of the peer, which may leave a thread blocked for ever, nor of those
\* who call the hooks or close the descriptor.
Fairness ==
  \A f \in Fibers :
    /\ WF_vars(fault = "none" /\ FreeThread /\ Step(f))
    /\ WF_vars(fault = "none" /\ FreeThread /\ TimerStep(f))

FairSpec == Spec /\ Fairness

(***************************************************************************)
(* Properties.                                                             *)
(***************************************************************************)
Places == {"out", "try", "add", "failed", "wait", "check", "direct", "stuck",
           "asleep"}

\* The variables have their types, and epoll watches nothing that is not
\* registered.
TypeOK ==
  /\ place \in [Fibers -> Places]
  /\ told \subseteq timed /\ timed \subseteq Fibers
  /\ timer \in [Fibers -> {"none", "armed", "nap", "wake"}]
  /\ callbacks \in [Fibers -> SUBSET {"collected", "locked", "told", "late"}]
  /\ watched \subseteq events /\ events \subseteq used /\ used \subseteq Fibers
  /\ queued \in [Fibers -> Nat]
  /\ overdue \subseteq Fibers /\ missed \subseteq Fibers
  /\ fault \in {"none", "assert_context"}
  /\ NumberTypeOK

\* A fiber that waits will be scheduled by exactly one of its event, its timer
\* and the queue, and nothing schedules a fiber that does not wait: whoever
\* comes first, the event loop, the callback of its timer or close().
Waits(f) == place[f] \in {"wait", "asleep"}
WaitsForOne ==
  \A f \in Fibers :
    queued[f] + (IF f \in events THEN 1 ELSE 0)
      + (IF timer[f] \in {"nap", "wake"} THEN 1 ELSE 0)
    = IF Waits(f) THEN 1 ELSE 0

\* No timer outlives the wait it was armed for, and no callback is left that
\* could report a timeout to another call: a fiber outside a call, or asleep,
\* has no armed timer, and of the callbacks of its earlier calls only those that
\* had locked tinfo before their call returned.  These still call cancelEvent(),
\* although hook.cpp:257 says that they do nothing, and may end the wait of a
\* later call early.
NoTimerLeft ==
  \A f \in Fibers :
    /\ timer[f] = "armed" => place[f] \in {"add", "failed", "wait"}
    /\ timer[f] \in {"nap", "wake"} => At(f, "asleep")
    /\ place[f] \in {"out", "asleep"} => callbacks[f] \subseteq {"late"}

\* A fiber that its own timeout has woken reports that: it does not go back and
\* wait once more, although the callback sets tinfo->cancelled without any lock.
TimeoutIsReported ==
  [][\A f \in overdue : place'[f] # place[f] => place'[f] # "try"]_vars

\* A call with a timeout, and sleep(), return.  The exceptions are how a fiber
\* can be lost: the callback has run before addEvent(), and cancelled nothing;
\* or addEvent() came between cancelAll() and close_f() of another fiber, and
\* epoll has forgotten the descriptor; or the system call blocks its thread
\* (see KeepsThreads), or the calls of other fibers block all of them; or the
\* assertion about the event's context has failed.
Forgotten(f) == f \in events \ watched
CallsReturn ==
  \A f \in Fibers :
    Waits(f) /\ (f \in timed \/ timer[f] # "none") ~>
      (\/ At(f, "out") \/ At(f, "stuck") \/ ~FreeThread
       \/ f \in missed \/ Forgotten(f) \/ fault # "none")

\* The hooks keep threads from blocking: a system call blocks its thread only if
\* ioctl(FIONBIO) has made the descriptor blocking behind their back, or the
\* table's FdCtx is not of this descriptor.
KeepsThreads ==
  [][\A f \in Fibers : place'[f] = "stuck" /\ place[f] # "stuck" =>
       blocks = "ioctl" \/ entry # opens]_vars

=============================================================================
