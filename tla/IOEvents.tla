------------------------------ MODULE IOEvents ------------------------------
(***************************************************************************)
(* The I/O events of class IOManager: the table of FdContexts, the         *)
(* operations addEvent(), delEvent(), cancelEvent() and cancelAll(), and   *)
(* the part of idle() that takes events from epoll and triggers them.      *)
(*                                                                         *)
(* Each operation looks its FdContext up under m_mutex, releases m_mutex,  *)
(* and then works under the context's own mutex: two actions.  idle() gets *)
(* a batch of events from epoll_wait() without any lock, and handles one   *)
(* after the other under the context's mutex: the batch may be stale.      *)
(* epoll is external: an interest list with one mask per descriptor, and a *)
(* ready list, edge triggered.                                             *)
(*                                                                         *)
(* A waiter is what a registration schedules: a callback or a fiber.       *)
(***************************************************************************)
EXTENDS Integers, FiniteSets

CONSTANTS
  Fds,       \* file descriptors, natural numbers
  Kinds,     \* the values of Event that are used, of {"READ", "WRITE"}
  Users,     \* threads that call the operations
  Idlers,    \* threads in idle()
  Waiters,   \* callbacks and fibers, each registered once
  None,      \* no waiter
  FirstSize, \* the constructor's contextResize(32)
  MaxGen,    \* bound: how often the context of one descriptor is allocated
  CounterSpan, \* how many values a size_t has (2^64)
  Ops        \* the operations the program uses

ASSUME EventConstants ==
  /\ Fds \subseteq Nat
  /\ Kinds \subseteq {"READ", "WRITE"}
  /\ None \notin Waiters
  /\ FirstSize \in Nat /\ MaxGen \in Nat \ {0} /\ CounterSpan \in Nat \ {0}
  /\ Ops \subseteq {"add", "del", "cancel", "cancelAll"}

VARIABLES
  table,      \* fd -> which allocation m_fdContexts[fd] points to, 0 if the
              \* table ends before fd
  made,       \* fd -> how many contexts were allocated for it
  ctx,        \* <<fd, allocation>> -> the FdContext
  pending,    \* m_pendingEventCount, unsigned
  interest,   \* epoll: fd -> [mask, ptr], mask = {} if it was not added
  readyList,  \* epoll: descriptors with something to report
  level,      \* fd -> what it is ready for, "HUP" included
  call,       \* user -> the operation it is in
  batch,      \* idler -> events that epoll_wait() returned, not yet handled
  fate,       \* waiter -> "new", "armed" or "deleted"
  scheduled,  \* waiter -> how often it was scheduled
  fault       \* "none", or the assertion that failed

table_vars == <<table, made>>
epoll == <<interest, readyList, level>>
vars == <<table_vars, ctx, pending, epoll, call, batch, fate, scheduled, fault>>

Contexts == Fds \X (1 .. MaxGen)
NoCall == [op |-> "none", fd |-> -1, kind |-> "none", waiter |-> None, gen |-> 0]
NewContext == [events |-> {}, sched |-> {}, fn |-> [k \in Kinds |-> None]]

Init ==
  /\ made = [f \in Fds |-> IF f < FirstSize THEN 1 ELSE 0]
  /\ table = made
  /\ ctx = [c \in Contexts |-> NewContext]
  /\ pending = 0
  /\ interest = [f \in Fds |-> [mask |-> {}, ptr |-> 0]]
  /\ readyList = {}
  /\ level = [f \in Fds |-> {}]
  /\ call = [u \in Users |-> NoCall]
  /\ batch = [i \in Idlers |-> {}]
  /\ fate = [w \in Waiters |-> "new"]
  /\ scheduled = [w \in Waiters |-> 0]
  /\ fault = "none"

(***************************************************************************)
(* epoll, as the code uses it.                                             *)
(***************************************************************************)
\* What epoll reports of f under a mask; EPOLLHUP needs no interest.
Reports(f, mask) ==
  IF mask = {} THEN {} ELSE level[f] \cap (mask \cup {"HUP"})

\* (mutant) epevent.data.ptr is not set
CtlSetNoPtr(f, op, mask, g) ==
  /\ (op = "ADD") = (interest[f].mask = {})
  /\ interest' = [interest EXCEPT ![f].mask = mask]
  /\ readyList' = IF Reports(f, mask) = {} THEN readyList
                  ELSE readyList \cup {f}

\* EPOLL_CTL_ADD and EPOLL_CTL_MOD succeed for an absent and for a present
\* descriptor, and report at once what it is ready for.
CtlSet(f, op, mask, g) ==
  /\ (op = "ADD") = (interest[f].mask = {})
  /\ interest' = [interest EXCEPT ![f] = [mask |-> mask, ptr |-> g]]
  /\ readyList' = IF Reports(f, mask) = {} THEN readyList
                  ELSE readyList \cup {f}

CtlDel(f) ==
  /\ interest[f].mask # {}
  /\ interest' = [interest EXCEPT ![f].mask = {}]
  /\ readyList' = readyList \ {f}

\* EPOLL_CTL_MOD with what is left, or EPOLL_CTL_DEL if nothing is.
CtlLeave(f, left, g) ==
  IF left = {} THEN CtlDel(f) ELSE CtlSet(f, "MOD", left, g)

Count(n) == pending' = (pending + n) % CounterSpan

(***************************************************************************)
(* FdContext::triggerEvent() and resetEventContext(), for a set of kinds.  *)
(***************************************************************************)
\* (mutant) the event stays in fd_ctx->events
TriggeredStays(c, ks) == [ctx EXCEPT ![c].sched = @ \ ks]

\* The waiter is scheduled; only m_scheduler of the event's context is reset.
Triggered(c, ks) ==
  [ctx EXCEPT ![c].events = @ \ ks, ![c].sched = @ \ ks]

Schedule(ws) ==
  scheduled' = [w \in Waiters |->
    IF w \in ws /\ scheduled[w] < 2 THEN scheduled[w] + 1 ELSE scheduled[w]]

WaitersOf(c, ks) == {ctx[c].fn[k] : k \in ks} \ {None}

\* assert(events & event) in triggerEvent()
Trigger(c, ks) ==
  IF ks \subseteq ctx[c].events
  THEN /\ ctx' = Triggered(c, ks)
       /\ Schedule(WaitersOf(c, ks))
       /\ Count(-Cardinality(ks))
       /\ UNCHANGED fault
  ELSE /\ fault' = "assert_registered"
       /\ UNCHANGED <<ctx, scheduled, pending>>

(***************************************************************************)
(* The operations.                                                         *)
(***************************************************************************)
\* The first half: find the context under m_mutex.  delEvent(), cancelEvent()
\* and cancelAll() return false if the table ends before fd.
Lookup(u, op, f, k, w) ==
  /\ call[u] = NoCall
  /\ op = "add" \/ table[f] # 0
  /\ call' = [call EXCEPT ![u] =
       [op |-> op, fd |-> f, kind |-> k, waiter |-> w, gen |-> table[f]]]
  /\ UNCHANGED <<table_vars, ctx, pending, epoll, batch, fate, scheduled, fault>>

Callers(f, k) ==
  {u \in Users : call[u].op = "add" /\ call[u].fd = f /\ call[u].kind = k}

\* "The same event must not be added twice to one fd": the program keeps to it.
Add(u, f, k, w) ==
  /\ Callers(f, k) = {}
  /\ table[f] # 0 => k \notin ctx[<<f, table[f]>>].events
  /\ fate[w] = "new" /\ \A v \in Users : call[v] = NoCall \/ call[v].waiter # w
  /\ Lookup(u, "add", f, k, w)

\* contextResize(fd * 1.5), with a lock of its own: the size is not looked at
\* again, so that the table may shrink.
Grow(u) ==
  LET c == call[u]
      n == (c.fd * 3) \div 2
      new == {f \in Fds : f < n /\ table[f] = 0}
  IN
  /\ c.op = "add" /\ c.gen = 0
  /\ \A f \in new : made[f] < MaxGen
  /\ made' = [f \in Fds |-> IF f \in new THEN made[f] + 1 ELSE made[f]]
  /\ table' = [f \in Fds |-> IF f >= n THEN 0
                             ELSE IF f \in new THEN made[f] + 1 ELSE table[f]]
  /\ call' = [call EXCEPT ![u].gen = table'[c.fd]]
  /\ UNCHANGED <<ctx, pending, epoll, batch, fate, scheduled, fault>>

Return(u) == call' = [call EXCEPT ![u] = NoCall]

\* A call that returns without having done anything.
Refused(u) ==
  /\ Return(u)
  /\ UNCHANGED <<table_vars, ctx, pending, epoll, batch, fate, scheduled, fault>>

\* addEvent() under the context's mutex.
AddLocked(u) ==
  LET f == call[u].fd
      k == call[u].kind
      w == call[u].waiter
      g == call[u].gen
      c == <<f, g>>
      op == IF ctx[c].events = {} THEN "ADD" ELSE "MOD"
      mask == ctx[c].events \cup {k}
  IN
  /\ call[u].op = "add" /\ g # 0
  /\ IF (op = "ADD") # (interest[f].mask = {})
     THEN Refused(u)
     ELSE /\ CtlSet(f, op, mask, g)
          /\ Count(1)
          /\ IF k \notin ctx[c].sched /\ ctx[c].fn[k] = None
             THEN /\ ctx' = [ctx EXCEPT ![c] =
                               [events |-> mask, sched |-> @.sched \cup {k},
                                fn |-> [@.fn EXCEPT ![k] = w]]]
                  /\ fate' = [fate EXCEPT ![w] = "armed"]
                  /\ UNCHANGED fault
             ELSE /\ fault' = "assert_context"
                  /\ ctx' = [ctx EXCEPT ![c].events = mask]
                  /\ UNCHANGED fate
          /\ Return(u)
          /\ UNCHANGED <<table_vars, level, batch, scheduled>>

\* !fd_ctx->events & event: the negation binds first, and READ is 1, so READ is
\* refused if no event at all is registered, and nothing else ever is.
DelRefuses(c, k) == ctx[c].events = {} /\ k = "READ"

\* delEvent() under the context's mutex: the waiter is dropped.
DelLocked(u) ==
  LET f == call[u].fd
      k == call[u].kind
      c == <<f, call[u].gen>>
      left == ctx[c].events \ {k}
  IN
  /\ call[u].op = "del"
  /\ IF DelRefuses(c, k) \/ interest[f].mask = {}
     THEN Refused(u)
     ELSE /\ CtlLeave(f, left, call[u].gen)
          /\ Count(-1)
          /\ ctx' = [ctx EXCEPT ![c] =
               [events |-> left, sched |-> @.sched \ {k},
                fn |-> [@.fn EXCEPT ![k] = None]]]
          /\ fate' = [w \in Waiters |->
               IF k \in ctx[c].events /\ w = ctx[c].fn[k] THEN "deleted"
               ELSE fate[w]]
          /\ Return(u)
          /\ UNCHANGED <<table_vars, level, batch, scheduled, fault>>

\* (mutant) the waiter is scheduled, but the event stays registered
CancelKeeps(u) ==
  LET c == <<call[u].fd, call[u].gen>>
      k == call[u].kind
  IN
  /\ call[u].op = "cancel"
  /\ IF k \notin ctx[c].events
     THEN Refused(u)
     ELSE /\ Schedule(WaitersOf(c, {k}))
          /\ Return(u)
          /\ UNCHANGED <<table_vars, epoll, ctx, pending, batch, fate, fault>>

\* cancelEvent() under the context's mutex: the waiter is scheduled.
CancelLocked(u) ==
  LET f == call[u].fd
      c == <<f, call[u].gen>>
      k == call[u].kind
  IN
  /\ call[u].op = "cancel"
  /\ IF k \notin ctx[c].events \/ interest[f].mask = {}
     THEN Refused(u)
     ELSE /\ CtlLeave(f, ctx[c].events \ {k}, call[u].gen)
          /\ Trigger(c, {k})
          /\ Return(u)
          /\ UNCHANGED <<table_vars, level, batch, fate>>

CancelAllLocked(u) ==
  LET f == call[u].fd
      c == <<f, call[u].gen>>
  IN
  /\ call[u].op = "cancelAll"
  /\ IF ctx[c].events = {} \/ interest[f].mask = {}
     THEN Refused(u)
     ELSE /\ CtlDel(f)
          /\ Trigger(c, ctx[c].events)
          /\ Return(u)
          /\ UNCHANGED <<table_vars, level, batch, fate>>

(***************************************************************************)
(* The events of idle().                                                   *)
(***************************************************************************)
\* epoll_wait() returns; what is reported leaves the ready list.
EpollWait(i) ==
  LET got == {f \in readyList : Reports(f, interest[f].mask) # {}} IN
  /\ batch[i] = {} /\ got # {}
  /\ batch' = [batch EXCEPT ![i] =
       {[ctx |-> <<f, interest[f].ptr>>, got |-> Reports(f, interest[f].mask)] :
          f \in got}]
  /\ readyList' = {}
  /\ UNCHANGED <<table_vars, ctx, pending, interest, level, call, fate,
                 scheduled, fault>>

\* real_events: an error or a hang-up stands for every registered event.
Real(e) ==
  (e.got \cap {"READ", "WRITE"})
    \cup (IF "HUP" \in e.got THEN ctx[e.ctx].events ELSE {})

\* (mutant) the descriptor leaves epoll with its first event
HandleDrops(i, e) ==
  LET f == e.ctx[1]
      real == Real(e)
      registered == ctx[e.ctx].events
  IN
  /\ e \in batch[i]
  /\ batch' = [batch EXCEPT ![i] = @ \ {e}]
  /\ IF registered \cap real = {} \/ interest[f].mask = {}
     THEN UNCHANGED <<ctx, pending, epoll, scheduled, fault>>
     ELSE /\ CtlDel(f)
          /\ Trigger(e.ctx, real)
          /\ UNCHANGED level
  /\ UNCHANGED <<table_vars, call, fate>>

\* One event of the batch, under its context's mutex.  real_events was
\* reported before the mutex was taken: the events may be cancelled by now.
Handle(i, e) ==
  LET f == e.ctx[1]
      real == Real(e)
      registered == ctx[e.ctx].events
  IN
  /\ e \in batch[i]
  /\ batch' = [batch EXCEPT ![i] = @ \ {e}]
  /\ IF registered \cap real = {} \/ interest[f].mask = {}
     THEN UNCHANGED <<ctx, pending, epoll, scheduled, fault>>
     ELSE /\ CtlLeave(f, registered \ real, e.ctx[2])
          /\ Trigger(e.ctx, real)
          /\ UNCHANGED level
  /\ UNCHANGED <<table_vars, call, fate>>

(***************************************************************************)
(* The descriptors: data arrives (also when there was some already), a     *)
(* fiber reads it, the peer hangs up.                                      *)
(***************************************************************************)
BecomesReady(f, k) ==
  /\ level' = [level EXCEPT ![f] = @ \cup {k}]
  /\ readyList' = IF k \in interest[f].mask \/ (k = "HUP" /\ interest[f].mask # {})
                  THEN readyList \cup {f} ELSE readyList
  /\ UNCHANGED <<table_vars, ctx, pending, interest, call, batch, fate,
                 scheduled, fault>>

IsDrained(f, k) ==
  /\ k \in level[f]
  /\ level' = [level EXCEPT ![f] = @ \ {k}]
  /\ UNCHANGED <<table_vars, ctx, pending, interest, readyList, call, batch,
                 fate, scheduled, fault>>

(***************************************************************************)
(* The specification.                                                      *)
(***************************************************************************)
UserStep(u) ==
  \/ \E f \in Fds, k \in Kinds, w \in Waiters : "add" \in Ops /\ Add(u, f, k, w)
  \/ \E f \in Fds, k \in Kinds, op \in Ops \ {"add"} : Lookup(u, op, f, k, None)
  \/ Grow(u) \/ AddLocked(u) \/ DelLocked(u) \/ CancelLocked(u)
  \/ CancelAllLocked(u)

IdleStep(i) == EpollWait(i) \/ \E e \in batch[i] : Handle(i, e)

Environment ==
  \E f \in Fds, k \in Kinds \cup {"HUP"} :
    BecomesReady(f, k) \/ (k # "HUP" /\ IsDrained(f, k))

Next ==
  /\ fault = "none"
  /\ \/ \E u \in Users : UserStep(u)
     \/ \E i \in Idlers : IdleStep(i)
     \/ Environment

Spec == Init /\ [][Next]_vars

\* A thread that is idle comes back to epoll_wait() and handles its batch.
Fairness ==
  \A i \in Idlers : WF_vars(fault = "none" /\ IdleStep(i))

FairSpec == Spec /\ Fairness

(***************************************************************************)
(* Properties.                                                             *)
(***************************************************************************)
Registered == {r \in Contexts \X Kinds : r[2] \in ctx[r[1]].events}

CallType ==
  [op : Ops, fd : Fds, kind : Kinds, waiter : Waiters \cup {None},
   gen : 0 .. MaxGen]

ReportType == [ctx : Contexts, got : SUBSET (Kinds \cup {"HUP"})]

\* The variables have the types of IOManager's declarations; a call has found a
\* context, unless it is an addEvent() that must extend the table; and what epoll
\* watches has a pointer to a context.
TypeOK ==
  /\ table \in [Fds -> 0 .. MaxGen]
  /\ made \in [Fds -> 0 .. MaxGen]
  /\ ctx \in [Contexts -> [events : SUBSET Kinds, sched : SUBSET Kinds,
                           fn : [Kinds -> Waiters \cup {None}]]]
  /\ pending \in 0 .. CounterSpan - 1
  /\ interest \in [Fds -> [mask : SUBSET Kinds, ptr : 0 .. MaxGen]]
  /\ \A f \in Fds : interest[f].mask # {} => interest[f].ptr # 0
  /\ readyList \subseteq Fds
  /\ level \in [Fds -> SUBSET (Kinds \cup {"HUP"})]
  /\ call \in [Users -> CallType \cup {NoCall}]
  /\ \A u \in Users :
       /\ call[u].op = "add" => call[u].waiter \in Waiters
       /\ call[u].op \notin {"add", "none"} => call[u].gen # 0
  /\ batch \in [Idlers -> SUBSET ReportType]
  /\ fate \in [Waiters -> {"new", "armed", "deleted"}]
  /\ scheduled \in [Waiters -> 0 .. 2]
  /\ fault \in {"none", "assert_context", "assert_registered"}

\* "The number of I/O events that wait to be executed" (IOManager.h:156):
\* m_pendingEventCount is the number of registered events.  stopping() relies on
\* it; a count that wraps around never becomes 0.
PendingExact == fault = "none" => pending = Cardinality(Registered)

\* What epoll watches for a descriptor is what its FdContext has registered: no
\* event is registered that epoll would never report.
InterestExact ==
  fault = "none" => \A f \in Fds :
    interest[f].mask = UNION {ctx[c].events : c \in {d \in Contexts : d[1] = f}}

\* However many threads hold stale batches, and whoever cancels: a waiter is
\* scheduled at most once, never before it is registered or after it was
\* deleted, and as long as it was neither it is what its event would schedule.
OneWakeup ==
  fault = "none" => \A w \in Waiters :
    LET places == {r \in Registered : ctx[r[1]].fn[r[2]] = w} IN
    CASE fate[w] = "armed" -> scheduled[w] + Cardinality(places) = 1
      [] OTHER -> scheduled[w] = 0 /\ places = {}

\* An event that is registered while its descriptor is ready is triggered,
\* cancelled or deleted, or the descriptor is not ready any more: an edge that
\* one thread has consumed is not lost to another registration.
EdgeIsDelivered ==
  \A c \in Contexts, k \in Kinds :
    (k \in ctx[c].events /\ k \in level[c[1]])
      ~> (k \notin ctx[c].events \/ k \notin level[c[1]] \/ fault # "none")

\* assert(!event_ctx.m_scheduler && !event_ctx.fiber && !event_ctx.cb)
\* (IOManager.cpp:228): the context of an event that is not registered is free.
ContextIsFree == fault # "assert_context"

\* assert(events & event) (IOManager.cpp:396): only a registered event is ever
\* triggered.
OnlyRegisteredIsTriggered == fault # "assert_registered"

(***************************************************************************)
(* The abstract specification.                                             *)
(***************************************************************************)
\* The waiters of events that have a scheduler, as a registered event has.
Armed ==
  {w \in Waiters : \E c \in Contexts : \E k \in ctx[c].events \cap ctx[c].sched :
                     ctx[c].fn[k] = w}

Promise == INSTANCE Promises WITH
  Things <- Waiters, pending <- Armed, held <- {}, fires <- scheduled,
  revoked <- {w \in Waiters : fate[w] = "deleted"}

\* Registered events implement Promises: from addEvent() on, whichever of stale
\* batches, cancelEvent(), cancelAll() and delEvent() comes first, the waiter is
\* scheduled once or dropped, also when a call aborts.
ImplementsPromises == Promise!Spec

=============================================================================
