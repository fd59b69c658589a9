--------------------------- MODULE IOEventsProofs ---------------------------
(* Theorems about IOEvents, for every table, every number of threads and    *)
(* waiters, and every mixture of the operations.                            *)
EXTENDS IOEvents, FiniteSetTheorems, TLAPS

(***************************************************************************)
(* Types.                                                                  *)
(***************************************************************************)
LEMMA InitType == Init => TypeOK
<1> SUFFICES ASSUME Init PROVE TypeOK
  OBVIOUS
<1> USE EventConstants
<1>1. made \in [Fds -> 0 .. MaxGen] /\ table \in [Fds -> 0 .. MaxGen]
  BY DEF Init
<1>2. NewContext \in [events : SUBSET Kinds, sched : SUBSET Kinds,
                      fn : [Kinds -> Waiters \cup {None}]]
  BY DEF NewContext
<1>3. /\ pending \in 0 .. CounterSpan - 1
      /\ interest \in [Fds -> [mask : SUBSET Kinds, ptr : 0 .. MaxGen]]
      /\ \A f \in Fds : interest[f].mask = {}
  BY DEF Init
<1>4. call \in [Users -> CallType \cup {NoCall}]
  BY DEF Init
<1>5. \A u \in Users : call[u].op = "none"
  BY DEF Init, NoCall
<1>6. /\ batch \in [Idlers -> SUBSET ReportType]
      /\ fate \in [Waiters -> {"new", "armed", "deleted"}]
      /\ scheduled \in [Waiters -> 0 .. 2]
      /\ level \in [Fds -> SUBSET (Kinds \cup {"HUP"})]
      /\ readyList \subseteq Fds /\ fault = "none"
  BY DEF Init
<1>7. ctx \in [Contexts -> [events : SUBSET Kinds, sched : SUBSET Kinds,
                            fn : [Kinds -> Waiters \cup {None}]]]
  BY <1>2 DEF Init
<1>8. QED
  BY <1>1, <1>3, <1>4, <1>5, <1>6, <1>7 DEF TypeOK

InterestType ==
  /\ interest \in [Fds -> [mask : SUBSET Kinds, ptr : 0 .. MaxGen]]
  /\ \A f \in Fds : interest[f].mask # {} => interest[f].ptr # 0
  /\ readyList \subseteq Fds

LEMMA CtlSetType ==
  ASSUME TypeOK, NEW f \in Fds, NEW op, NEW mask \in SUBSET Kinds,
         NEW g \in 1 .. MaxGen, CtlSet(f, op, mask, g)
  PROVE  InterestType'
BY DEF CtlSet, TypeOK, InterestType

LEMMA CtlDelType ==
  ASSUME TypeOK, NEW f \in Fds, CtlDel(f)
  PROVE  InterestType'
BY DEF CtlDel, TypeOK, InterestType

LEMMA CtlLeaveType ==
  ASSUME TypeOK, NEW f \in Fds, NEW left \in SUBSET Kinds, NEW g \in 1 .. MaxGen,
         CtlLeave(f, left, g)
  PROVE  InterestType'
BY CtlSetType, CtlDelType DEF CtlLeave

LEMMA CountType ==
  ASSUME TypeOK, NEW n \in Int, Count(n)
  PROVE  pending' \in 0 .. CounterSpan - 1
BY EventConstants DEF Count, TypeOK

LEMMA KindsAreFinite ==
  ASSUME NEW ks \in SUBSET Kinds
  PROVE  IsFiniteSet(ks) /\ Cardinality(ks) \in Nat
<1>1. IsFiniteSet({"READ", "WRITE"})
  <2>1. IsFiniteSet({}) /\ IsFiniteSet({} \cup {"READ"})
    BY FS_EmptySet, FS_AddElement
  <2>2. IsFiniteSet(({} \cup {"READ"}) \cup {"WRITE"})
    BY <2>1, FS_AddElement
  <2>3. {"READ", "WRITE"} = ({} \cup {"READ"}) \cup {"WRITE"}
    OBVIOUS
  <2>4. QED
    BY <2>2, <2>3
<1>2. IsFiniteSet(ks)
  BY <1>1, FS_Subset, EventConstants
<1>3. QED
  BY <1>2, FS_CardinalityType

ContextType ==
  [events : SUBSET Kinds, sched : SUBSET Kinds,
   fn : [Kinds -> Waiters \cup {None}]]

LEMMA TriggerType ==
  ASSUME TypeOK, NEW c \in Contexts, NEW ks \in SUBSET Kinds, Trigger(c, ks)
  PROVE  /\ ctx' \in [Contexts -> ContextType]
         /\ scheduled' \in [Waiters -> 0 .. 2]
         /\ pending' \in 0 .. CounterSpan - 1
         /\ fault' \in {"none", "assert_context", "assert_registered"}
<1>1. CASE ks \subseteq ctx[c].events
  <2>1. ctx' \in [Contexts -> ContextType]
    <3> DEFINE new == [events |-> ctx[c].events \ ks, sched |-> ctx[c].sched \ ks,
                       fn |-> ctx[c].fn]
    <3>1. ctx \in [Contexts -> ContextType]
      BY DEF TypeOK, ContextType
    <3>2. new \in ContextType
      BY <3>1 DEF ContextType
    <3>3. ctx' = [ctx EXCEPT ![c] = new]
      BY <1>1, <3>1 DEF Trigger, Triggered, ContextType
    <3> HIDE DEF new
    <3>4. QED
      BY <3>1, <3>2, <3>3
  <2>2. scheduled' \in [Waiters -> 0 .. 2]
    BY <1>1 DEF Trigger, Schedule, TypeOK
  <2>3. pending' \in 0 .. CounterSpan - 1
    BY <1>1, KindsAreFinite, CountType DEF Trigger
  <2>4. QED
    BY <1>1, <2>1, <2>2, <2>3 DEF Trigger, TypeOK
<1>2. CASE ~(ks \subseteq ctx[c].events)
  BY <1>2 DEF Trigger, TypeOK, ContextType
<1>3. QED
  BY <1>1, <1>2

LEMMA ReturnType ==
  ASSUME TypeOK, NEW u \in Users, Return(u)
  PROVE  /\ call' \in [Users -> CallType \cup {NoCall}]
         /\ \A v \in Users :
              /\ call'[v].op = "add" => call'[v].waiter \in Waiters
              /\ call'[v].op \notin {"add", "none"} => call'[v].gen # 0
<1>1. NoCall.op = "none"
  BY DEF NoCall
<1> HIDE DEF NoCall
<1>2. QED
  BY <1>1 DEF Return, TypeOK

LEMMA RefusedType ==
  ASSUME TypeOK, NEW u \in Users, Refused(u)
  PROVE  TypeOK'
BY ReturnType DEF Refused, TypeOK, table_vars, epoll

\* What is known of the call of a user that is in one.
LEMMA CallFacts ==
  ASSUME TypeOK, NEW u \in Users, call[u].op # "none"
  PROVE  /\ call[u] \in CallType
         /\ call[u].fd \in Fds /\ call[u].kind \in Kinds
         /\ call[u].gen \in 0 .. MaxGen
         /\ call[u].op = "add" => call[u].waiter \in Waiters
         /\ call[u].op # "add" => call[u].gen \in 1 .. MaxGen
         /\ call[u].gen # 0 => <<call[u].fd, call[u].gen>> \in Contexts
<1>1. NoCall.op = "none"
  BY DEF NoCall
<1>2. call[u] \in CallType
  BY <1>1 DEF TypeOK
<1>3. QED
  BY <1>2, EventConstants DEF TypeOK, CallType, Contexts

LEMMA LookupType ==
  ASSUME TypeOK, NEW u \in Users, NEW op \in Ops, NEW f \in Fds, NEW k \in Kinds,
         NEW w \in Waiters \cup {None}, Lookup(u, op, f, k, w),
         op = "add" => w \in Waiters
  PROVE  TypeOK'
<1> DEFINE new == [op |-> op, fd |-> f, kind |-> k, waiter |-> w,
                   gen |-> table[f]]
<1>1. new \in CallType /\ (op # "add" => table[f] # 0)
  BY DEF Lookup, TypeOK, CallType
<1>2. call' = [call EXCEPT ![u] = new]
  BY DEF Lookup
<1>3. new.op = op /\ new.waiter = w /\ new.gen = table[f]
  OBVIOUS
<1> HIDE DEF new
<1>4. /\ call' \in [Users -> CallType \cup {NoCall}]
      /\ \A v \in Users :
           /\ call'[v].op = "add" => call'[v].waiter \in Waiters
           /\ call'[v].op \notin {"add", "none"} => call'[v].gen # 0
  BY <1>1, <1>2, <1>3 DEF TypeOK
<1>5. QED
  BY <1>4 DEF Lookup, TypeOK, table_vars, epoll

LEMMA GrowType ==
  ASSUME TypeOK, NEW u \in Users, Grow(u)
  PROVE  TypeOK'
<1> USE EventConstants
<1> DEFINE c == call[u]
           n == (c.fd * 3) \div 2
           fresh == {f \in Fds : f < n /\ table[f] = 0}
<1>1. c \in CallType /\ c.fd \in Fds /\ c.op = "add" /\ c.waiter \in Waiters
  BY CallFacts DEF Grow
<1>2. /\ \A f \in fresh : made[f] < MaxGen
      /\ made' = [f \in Fds |-> IF f \in fresh THEN made[f] + 1 ELSE made[f]]
      /\ table' = [f \in Fds |-> IF f >= n THEN 0
                                 ELSE IF f \in fresh THEN made[f] + 1 ELSE table[f]]
      /\ call' = [call EXCEPT ![u].gen = table'[c.fd]]
  BY DEF Grow
<1> HIDE DEF fresh, n
<1>3. /\ made' \in [Fds -> 0 .. MaxGen] /\ table' \in [Fds -> 0 .. MaxGen]
  BY <1>2 DEF TypeOK
<1> DEFINE new == [op |-> c.op, fd |-> c.fd, kind |-> c.kind,
                   waiter |-> c.waiter, gen |-> table'[c.fd]]
<1>4. new \in CallType /\ new.op = "add" /\ new.waiter \in Waiters
  BY <1>1, <1>3 DEF CallType
<1>5. call' = [call EXCEPT ![u] = new]
  <2>1. [c EXCEPT !.gen = table'[c.fd]] = new
    BY <1>1 DEF CallType
  <2>2. call' = [call EXCEPT ![u] = [c EXCEPT !.gen = table'[c.fd]]]
    BY <1>2
  <2>3. QED
    BY <2>1, <2>2
<1> HIDE DEF new
<1>6. /\ call' \in [Users -> CallType \cup {NoCall}]
      /\ \A v \in Users :
           /\ call'[v].op = "add" => call'[v].waiter \in Waiters
           /\ call'[v].op \notin {"add", "none"} => call'[v].gen # 0
  BY <1>4, <1>5 DEF TypeOK
<1>7. QED
  BY <1>3, <1>6 DEF Grow, TypeOK, epoll

LEMMA AddLockedType ==
  ASSUME TypeOK, NEW u \in Users, AddLocked(u)
  PROVE  TypeOK'
<1> DEFINE f == call[u].fd
           k == call[u].kind
           w == call[u].waiter
           g == call[u].gen
           c == <<f, g>>
           op == IF ctx[c].events = {} THEN "ADD" ELSE "MOD"
           mask == ctx[c].events \cup {k}
<1>1. /\ f \in Fds /\ k \in Kinds /\ w \in Waiters /\ g \in 1 .. MaxGen
      /\ c \in Contexts
  <2>1. call[u].op = "add" /\ g # 0
    BY DEF AddLocked
  <2>2. QED
    BY <2>1, CallFacts, EventConstants
<1>2. mask \in SUBSET Kinds /\ ctx \in [Contexts -> ContextType]
  BY <1>1 DEF TypeOK, ContextType
<1>3. CASE Refused(u)
  BY <1>3, RefusedType
<1>4. CASE ~Refused(u)
  <2>1. /\ CtlSet(f, op, mask, g)
        /\ Count(1)
        /\ IF k \notin ctx[c].sched /\ ctx[c].fn[k] = None
           THEN /\ ctx' = [ctx EXCEPT ![c] =
                             [events |-> mask, sched |-> @.sched \cup {k},
                              fn |-> [@.fn EXCEPT ![k] = w]]]
                /\ fate' = [fate EXCEPT ![w] = "armed"]
                /\ UNCHANGED fault
           ELSE /\ fault' = "assert_context"
                /\ ctx' = [ctx EXCEPT ![c].events = mask]
                /\ UNCHANGED fate
        /\ Return(u)
        /\ UNCHANGED <<table_vars, level, batch, scheduled>>
    BY <1>4 DEF AddLocked
  <2> DEFINE armed == [events |-> mask, sched |-> ctx[c].sched \cup {k},
                       fn |-> [ctx[c].fn EXCEPT ![k] = w]]
             bare == [events |-> mask, sched |-> ctx[c].sched, fn |-> ctx[c].fn]
  <2>2. armed \in ContextType /\ bare \in ContextType
    BY <1>1, <1>2 DEF ContextType
  <2>3. ctx' = [ctx EXCEPT ![c] = armed] \/ ctx' = [ctx EXCEPT ![c] = bare]
    <3>1. CASE k \notin ctx[c].sched /\ ctx[c].fn[k] = None
      BY <2>1, <3>1
    <3>2. CASE ~(k \notin ctx[c].sched /\ ctx[c].fn[k] = None)
      <4>1. ctx' = [ctx EXCEPT ![c].events = mask]
        BY <2>1, <3>2
      <4>2. [ctx[c] EXCEPT !.events = mask] = bare
        <5>1. ctx[c] \in ContextType
          BY <1>1, <1>2
        <5>2. QED
          BY <5>1 DEF ContextType
      <4>3. ctx' = [ctx EXCEPT ![c] = [ctx[c] EXCEPT !.events = mask]]
        BY <4>1
      <4>4. QED
        BY <4>2, <4>3
    <3>3. QED
      BY <3>1, <3>2
  <2> HIDE DEF armed, bare, mask, op
  <2>4. ctx' \in [Contexts -> ContextType]
    BY <1>2, <2>2, <2>3
  <2>5. InterestType'
    BY <1>1, <1>2, <2>1, CtlSetType
  <2>6. pending' \in 0 .. CounterSpan - 1
    BY <2>1, CountType
  <2>7. /\ fate' \in [Waiters -> {"new", "armed", "deleted"}]
        /\ fault' \in {"none", "assert_context", "assert_registered"}
    BY <1>1, <2>1 DEF TypeOK
  <2>8. QED
    BY <2>1, <2>4, <2>5, <2>6, <2>7, ReturnType
       DEF TypeOK, InterestType, ContextType, table_vars
<1>5. QED
  BY <1>3, <1>4

LEMMA DelLockedType ==
  ASSUME TypeOK, NEW u \in Users, DelLocked(u)
  PROVE  TypeOK'
<1> DEFINE f == call[u].fd
           k == call[u].kind
           c == <<f, call[u].gen>>
           left == ctx[c].events \ {k}
<1>1. f \in Fds /\ k \in Kinds /\ call[u].gen \in 1 .. MaxGen /\ c \in Contexts
  <2>1. call[u].op = "del"
    BY DEF DelLocked
  <2>2. QED
    BY <2>1, CallFacts, EventConstants
<1>2. left \in SUBSET Kinds /\ ctx \in [Contexts -> ContextType]
  BY <1>1 DEF TypeOK, ContextType
<1>3. CASE Refused(u)
  BY <1>3, RefusedType
<1>4. CASE ~Refused(u)
  <2>1. /\ CtlLeave(f, left, call[u].gen)
        /\ Count(-1)
        /\ ctx' = [ctx EXCEPT ![c] =
             [events |-> left, sched |-> @.sched \ {k},
              fn |-> [@.fn EXCEPT ![k] = None]]]
        /\ fate' = [w \in Waiters |->
             IF k \in ctx[c].events /\ w = ctx[c].fn[k] THEN "deleted"
             ELSE fate[w]]
        /\ Return(u)
        /\ UNCHANGED <<table_vars, level, batch, scheduled, fault>>
    BY <1>4 DEF DelLocked
  <2> DEFINE new == [events |-> left, sched |-> ctx[c].sched \ {k},
                     fn |-> [ctx[c].fn EXCEPT ![k] = None]]
  <2>2. new \in ContextType
    BY <1>1, <1>2 DEF ContextType
  <2>3. ctx' = [ctx EXCEPT ![c] = new]
    BY <1>1, <1>2, <2>1 DEF ContextType
  <2>4. fate' \in [Waiters -> {"new", "armed", "deleted"}]
    BY <2>1 DEF TypeOK
  <2> HIDE DEF new, left
  <2>5. ctx' \in [Contexts -> ContextType]
    BY <1>2, <2>2, <2>3
  <2>6. InterestType'
    BY <1>1, <1>2, <2>1, CtlLeaveType
  <2>7. pending' \in 0 .. CounterSpan - 1
    BY <2>1, CountType
  <2>8. QED
    BY <2>1, <2>4, <2>5, <2>6, <2>7, ReturnType
       DEF TypeOK, InterestType, ContextType, table_vars
<1>5. QED
  BY <1>3, <1>4

LEMMA CancelLockedType ==
  ASSUME TypeOK, NEW u \in Users, CancelLocked(u)
  PROVE  TypeOK'
<1> DEFINE f == call[u].fd
           k == call[u].kind
           c == <<f, call[u].gen>>
           left == ctx[c].events \ {k}
<1>1. f \in Fds /\ k \in Kinds /\ call[u].gen \in 1 .. MaxGen /\ c \in Contexts
  <2>1. call[u].op = "cancel"
    BY DEF CancelLocked
  <2>2. QED
    BY <2>1, CallFacts, EventConstants
<1>2. left \in SUBSET Kinds /\ {k} \in SUBSET Kinds
  BY <1>1 DEF TypeOK
<1>3. CASE Refused(u)
  BY <1>3, RefusedType
<1>4. CASE ~Refused(u)
  <2>1. /\ CtlLeave(f, left, call[u].gen)
        /\ Trigger(c, {k})
        /\ Return(u)
        /\ UNCHANGED <<table_vars, level, batch, fate>>
    BY <1>4 DEF CancelLocked
  <2> HIDE DEF left, c
  <2>2. InterestType'
    BY <1>1, <1>2, <2>1, CtlLeaveType
  <2>3. /\ ctx' \in [Contexts -> ContextType]
        /\ scheduled' \in [Waiters -> 0 .. 2]
        /\ pending' \in 0 .. CounterSpan - 1
        /\ fault' \in {"none", "assert_context", "assert_registered"}
    BY <1>1, <1>2, <2>1, TriggerType
  <2>4. QED
    BY <2>1, <2>2, <2>3, ReturnType
       DEF TypeOK, InterestType, ContextType, table_vars
<1>5. QED
  BY <1>3, <1>4

LEMMA CancelAllLockedType ==
  ASSUME TypeOK, NEW u \in Users, CancelAllLocked(u)
  PROVE  TypeOK'
<1> DEFINE f == call[u].fd
           c == <<f, call[u].gen>>
<1>1. f \in Fds /\ c \in Contexts
  <2>1. call[u].op = "cancelAll"
    BY DEF CancelAllLocked
  <2>2. QED
    BY <2>1, CallFacts, EventConstants
<1>2. ctx[c].events \in SUBSET Kinds
  BY <1>1 DEF TypeOK
<1>3. CASE Refused(u)
  BY <1>3, RefusedType
<1>4. CASE ~Refused(u)
  <2>1. /\ CtlDel(f)
        /\ Trigger(c, ctx[c].events)
        /\ Return(u)
        /\ UNCHANGED <<table_vars, level, batch, fate>>
    BY <1>4 DEF CancelAllLocked
  <2> HIDE DEF c
  <2>2. InterestType'
    BY <1>1, <2>1, CtlDelType
  <2>3. /\ ctx' \in [Contexts -> ContextType]
        /\ scheduled' \in [Waiters -> 0 .. 2]
        /\ pending' \in 0 .. CounterSpan - 1
        /\ fault' \in {"none", "assert_context", "assert_registered"}
    BY <1>1, <1>2, <2>1, TriggerType
  <2>4. QED
    BY <2>1, <2>2, <2>3, ReturnType
       DEF TypeOK, InterestType, ContextType, table_vars
<1>5. QED
  BY <1>3, <1>4

LEMMA EpollWaitType ==
  ASSUME TypeOK, NEW i \in Idlers, EpollWait(i)
  PROVE  TypeOK'
<1> DEFINE got == {f \in readyList : Reports(f, interest[f].mask) # {}}
<1>1. ASSUME NEW f \in got
      PROVE  [ctx |-> <<f, interest[f].ptr>>, got |-> Reports(f, interest[f].mask)]
               \in ReportType
  <2>1. f \in Fds /\ interest[f].mask # {}
    BY DEF TypeOK, Reports
  <2>2. <<f, interest[f].ptr>> \in Contexts
    <3>1. interest[f].ptr \in 0 .. MaxGen /\ interest[f].ptr # 0
      BY <2>1 DEF TypeOK
    <3>2. interest[f].ptr \in 1 .. MaxGen
      BY <3>1, EventConstants
    <3>3. QED
      BY <2>1, <3>2 DEF Contexts
  <2>3. Reports(f, interest[f].mask) \subseteq Kinds \cup {"HUP"}
    BY <2>1 DEF TypeOK, Reports
  <2>4. QED
    BY <2>2, <2>3 DEF ReportType
<1>2. batch' = [batch EXCEPT ![i] =
        {[ctx |-> <<f, interest[f].ptr>>, got |-> Reports(f, interest[f].mask)] :
           f \in got}]
  BY DEF EpollWait
<1> HIDE DEF got
<1>3. batch' \in [Idlers -> SUBSET ReportType]
  BY <1>1, <1>2 DEF TypeOK
<1>4. QED
  BY <1>3 DEF EpollWait, TypeOK, table_vars

\* What is left of a reported event under the context's mutex.
LEMMA ReportFacts ==
  ASSUME TypeOK, NEW i \in Idlers, NEW e \in batch[i]
  PROVE  /\ e \in ReportType /\ e.ctx \in Contexts
         /\ e.ctx[1] \in Fds /\ e.ctx[2] \in 1 .. MaxGen
         /\ e.ctx = <<e.ctx[1], e.ctx[2]>>
         /\ Real(e) \in SUBSET Kinds
<1>1. e \in ReportType
  BY DEF TypeOK
<1>2. e.ctx \in Contexts /\ e.got \subseteq Kinds \cup {"HUP"}
  BY <1>1 DEF ReportType
<1>3. /\ e.ctx[1] \in Fds /\ e.ctx[2] \in 1 .. MaxGen
      /\ e.ctx = <<e.ctx[1], e.ctx[2]>>
  BY <1>2 DEF Contexts
<1>4. ctx[e.ctx].events \subseteq Kinds
  BY <1>2 DEF TypeOK
<1>5. Real(e) \in SUBSET Kinds
  BY <1>2, <1>4 DEF Real
<1>6. QED
  BY <1>1, <1>2, <1>3, <1>5

LEMMA HandleType ==
  ASSUME TypeOK, NEW i \in Idlers, NEW e \in batch[i], Handle(i, e)
  PROVE  TypeOK'
<1> DEFINE f == e.ctx[1]
           g == e.ctx[2]
           left == ctx[e.ctx].events \ Real(e)
<1>1. f \in Fds /\ g \in 1 .. MaxGen /\ e.ctx \in Contexts
      /\ Real(e) \in SUBSET Kinds /\ left \in SUBSET Kinds
  BY ReportFacts DEF TypeOK
<1>2. batch' \in [Idlers -> SUBSET ReportType]
  BY DEF Handle, TypeOK
<1>3. CASE UNCHANGED <<ctx, pending, epoll, scheduled, fault>>
  BY <1>2, <1>3 DEF Handle, TypeOK, table_vars, epoll
<1>4. CASE ~UNCHANGED <<ctx, pending, epoll, scheduled, fault>>
  <2>1. /\ CtlLeave(f, left, g)
        /\ Trigger(e.ctx, Real(e))
        /\ UNCHANGED <<level, table_vars, call, fate>>
    BY <1>4 DEF Handle
  <2> HIDE DEF left, f, g
  <2>2. InterestType'
    BY <1>1, <2>1, CtlLeaveType
  <2>3. /\ ctx' \in [Contexts -> ContextType]
        /\ scheduled' \in [Waiters -> 0 .. 2]
        /\ pending' \in 0 .. CounterSpan - 1
        /\ fault' \in {"none", "assert_context", "assert_registered"}
    BY <1>1, <2>1, TriggerType
  <2>4. QED
    BY <1>2, <2>1, <2>2, <2>3 DEF TypeOK, InterestType, ContextType, table_vars
<1>5. QED
  BY <1>3, <1>4

LEMMA NextType == TypeOK /\ [Next]_vars => TypeOK'
<1> SUFFICES ASSUME TypeOK, [Next]_vars PROVE TypeOK'
  OBVIOUS
<1>1. CASE UNCHANGED vars
  BY <1>1 DEF TypeOK, vars, table_vars, epoll
<1>2. ASSUME NEW u \in Users, UserStep(u) PROVE TypeOK'
  <2>1. ASSUME NEW f \in Fds, NEW k \in Kinds, NEW w \in Waiters,
               "add" \in Ops, Add(u, f, k, w)
        PROVE  TypeOK'
    BY <2>1, LookupType DEF Add
  <2>2. ASSUME NEW f \in Fds, NEW k \in Kinds, NEW op \in Ops \ {"add"},
               Lookup(u, op, f, k, None)
        PROVE  TypeOK'
    BY <2>2, LookupType
  <2>3. QED
    BY <1>2, <2>1, <2>2, GrowType, AddLockedType, DelLockedType,
       CancelLockedType, CancelAllLockedType DEF UserStep
<1>3. ASSUME NEW i \in Idlers, IdleStep(i) PROVE TypeOK'
  BY <1>3, EpollWaitType, HandleType DEF IdleStep
<1>4. ASSUME NEW f \in Fds, NEW k \in Kinds \cup {"HUP"},
             BecomesReady(f, k) \/ IsDrained(f, k)
      PROVE  TypeOK'
  BY <1>4 DEF BecomesReady, IsDrained, TypeOK, table_vars
<1>5. QED
  BY <1>1, <1>2, <1>3, <1>4 DEF Next, Environment

\* The type invariant of IOEvents: whatever the program calls, epoll never points
\* to a context that does not exist, and the counter stays a number of its width.
THEOREM Typing == Spec => []TypeOK
BY InitType, NextType, PTL DEF Spec

(***************************************************************************)
(* Every waiter is woken once.                                             *)
(***************************************************************************)
Holds(c, k) == k \in ctx[c].events

\* The waiter of a registered event is armed and was not scheduled, no two events
\* have the same one, an armed waiter without an event was scheduled, and the
\* calls of addEvent() bring new waiters.
RegisteredIsArmed ==
  \A c \in Contexts, k \in Kinds : Holds(c, k) =>
    /\ ctx[c].fn[k] \in Waiters
    /\ fate[ctx[c].fn[k]] = "armed" /\ scheduled[ctx[c].fn[k]] = 0

NotShared ==
  \A c, d \in Contexts, k, l \in Kinds :
    Holds(c, k) /\ Holds(d, l) /\ ctx[c].fn[k] = ctx[d].fn[l] => c = d /\ k = l

WokenOrRegistered ==
  \A w \in Waiters :
    IF fate[w] = "armed"
    THEN scheduled[w] = 1
           \/ \E c \in Contexts, k \in Kinds : Holds(c, k) /\ ctx[c].fn[k] = w
    ELSE scheduled[w] = 0

CallsBringNew ==
  \A u, v \in Users : call[u].op = "add" =>
    /\ fate[call[u].waiter] = "new"
    /\ call[v].op = "add" /\ call[u].waiter = call[v].waiter => u = v

WakeInv ==
  RegisteredIsArmed /\ NotShared /\ WokenOrRegistered /\ CallsBringNew

IInv == TypeOK /\ (fault = "none" => WakeInv)

LEMMA InitWakeInv == Init => WakeInv
BY DEF Init, WakeInv, RegisteredIsArmed, NotShared, WokenOrRegistered,
       CallsBringNew, Holds, NewContext, NoCall

\* A step that changes neither contexts nor waiters, and begins no addEvent().
CallsKept ==
  \A u \in Users : call'[u].op = "add" =>
    call[u].op = "add" /\ call'[u].waiter = call[u].waiter

LEMMA WakeUnchanged ==
  ASSUME WakeInv, UNCHANGED <<ctx, fate, scheduled>>, CallsKept
  PROVE  WakeInv'
BY DEF WakeInv, RegisteredIsArmed, NotShared, WokenOrRegistered, CallsBringNew,
       Holds, CallsKept

LEMMA ReturnKeepsCalls ==
  ASSUME TypeOK, NEW u \in Users, Return(u)
  PROVE  /\ CallsKept
         /\ \A v \in Users : call'[v].op = "add" => v # u
<1>1. NoCall.op = "none"
  BY DEF NoCall
<1> HIDE DEF NoCall
<1>2. QED
  BY <1>1 DEF Return, TypeOK, CallsKept

LEMMA RefusedWakes ==
  ASSUME TypeOK, WakeInv, NEW u \in Users, Refused(u)
  PROVE  WakeInv'
BY ReturnKeepsCalls, WakeUnchanged DEF Refused

\* Triggering: the waiters of the events are scheduled, and the events gone.
LEMMA TriggerWakes ==
  ASSUME TypeOK, WakeInv, NEW c \in Contexts, NEW ks \in SUBSET Kinds,
         Trigger(c, ks), fault' = "none", UNCHANGED fate, CallsKept
  PROVE  WakeInv'
<1>1. /\ ks \subseteq ctx[c].events
      /\ ctx' = Triggered(c, ks)
      /\ Schedule(WaitersOf(c, ks))
  BY DEF Trigger
<1>2. \A d \in Contexts, l \in Kinds :
        /\ Holds(d, l)' <=> Holds(d, l) /\ ~(d = c /\ l \in ks)
        /\ ctx'[d].fn = ctx[d].fn
  BY <1>1 DEF Triggered, Holds, TypeOK
<1>3. \A k \in ks : k \in Kinds /\ Holds(c, k) /\ ctx[c].fn[k] \in Waiters
  BY <1>1 DEF WakeInv, RegisteredIsArmed, Holds
<1>4. ASSUME NEW w \in Waiters
      PROVE  IF \E k \in ks : ctx[c].fn[k] = w
             THEN scheduled[w] = 0 /\ scheduled'[w] = 1
             ELSE scheduled'[w] = scheduled[w]
  <2>1. w # None
    BY EventConstants
  <2>2. w \in WaitersOf(c, ks) <=> \E k \in ks : ctx[c].fn[k] = w
    BY <2>1 DEF WaitersOf
  <2>3. scheduled'[w] = IF w \in WaitersOf(c, ks) /\ scheduled[w] < 2
                        THEN scheduled[w] + 1 ELSE scheduled[w]
    BY <1>1 DEF Schedule
  <2>4. (\E k \in ks : ctx[c].fn[k] = w) => scheduled[w] = 0
    BY <1>3 DEF WakeInv, RegisteredIsArmed
  <2>5. QED
    BY <2>2, <2>3, <2>4
<1>5. RegisteredIsArmed'
  <2> SUFFICES ASSUME NEW d \in Contexts, NEW l \in Kinds, Holds(d, l)'
               PROVE  /\ ctx'[d].fn[l] \in Waiters
                      /\ fate'[ctx'[d].fn[l]] = "armed"
                      /\ scheduled'[ctx'[d].fn[l]] = 0
    BY DEF RegisteredIsArmed
  <2>1. /\ Holds(d, l) /\ ctx'[d].fn[l] = ctx[d].fn[l]
        /\ ~(d = c /\ l \in ks)
    BY <1>2
  <2>2. /\ ctx[d].fn[l] \in Waiters
        /\ fate[ctx[d].fn[l]] = "armed" /\ scheduled[ctx[d].fn[l]] = 0
    BY <2>1 DEF WakeInv, RegisteredIsArmed
  <2>3. ~\E k \in ks : ctx[c].fn[k] = ctx[d].fn[l]
    BY <1>3, <2>1 DEF WakeInv, NotShared
  <2>4. QED
    BY <1>4, <2>1, <2>2, <2>3
<1>6. NotShared'
  BY <1>2 DEF WakeInv, NotShared
<1>7. WokenOrRegistered'
  <2> SUFFICES ASSUME NEW w \in Waiters
               PROVE  IF fate[w] = "armed"
                      THEN scheduled'[w] = 1
                             \/ \E d \in Contexts, l \in Kinds :
                                  Holds(d, l)' /\ ctx'[d].fn[l] = w
                      ELSE scheduled'[w] = 0
    BY DEF WokenOrRegistered
  <2>1. CASE \E k \in ks : ctx[c].fn[k] = w
    BY <1>3, <1>4, <2>1 DEF WakeInv, RegisteredIsArmed
  <2>2. CASE ~\E k \in ks : ctx[c].fn[k] = w
    BY <1>2, <1>4, <2>2 DEF WakeInv, WokenOrRegistered
  <2>3. QED
    BY <2>1, <2>2
<1>8. CallsBringNew'
  BY DEF WakeInv, CallsBringNew, CallsKept
<1>9. QED
  BY <1>5, <1>6, <1>7, <1>8 DEF WakeInv

\* addEvent() gives a new waiter to an event that nobody has registered.
LEMMA AddWakes ==
  ASSUME TypeOK, WakeInv, NEW u \in Users, AddLocked(u), fault' = "none"
  PROVE  WakeInv'
<1> DEFINE f == call[u].fd
           k == call[u].kind
           w == call[u].waiter
           c == <<f, call[u].gen>>
<1>1. c \in Contexts /\ k \in Kinds /\ w \in Waiters /\ call[u].op = "add"
  BY CallFacts DEF AddLocked
<1>2. CASE Refused(u)
  BY <1>2, RefusedWakes
<1>3. CASE ~Refused(u)
  <2>1. /\ ctx[c].fn[k] = None
        /\ ctx' = [ctx EXCEPT ![c] =
             [events |-> ctx[c].events \cup {k}, sched |-> @.sched \cup {k},
              fn |-> [@.fn EXCEPT ![k] = w]]]
        /\ fate' = [fate EXCEPT ![w] = "armed"]
        /\ Return(u)
        /\ UNCHANGED scheduled
    BY <1>3 DEF AddLocked
  <2> HIDE DEF w, c, k
  <2>2. fate[w] = "new" /\ scheduled[w] = 0
    BY <1>1 DEF WakeInv, CallsBringNew, WokenOrRegistered, w
  <2>3. ~Holds(c, k)
    BY <1>1, <2>1, EventConstants DEF WakeInv, RegisteredIsArmed
  <2>4. \A d \in Contexts, l \in Kinds :
          /\ Holds(d, l)' <=> Holds(d, l) \/ (d = c /\ l = k)
          /\ ctx'[d].fn[l] = IF d = c /\ l = k THEN w ELSE ctx[d].fn[l]
    BY <1>1, <2>1 DEF Holds, TypeOK
  <2>5. \A x \in Waiters : fate'[x] = IF x = w THEN "armed" ELSE fate[x]
    BY <1>1, <2>1 DEF TypeOK
  <2>6. \A d \in Contexts, l \in Kinds : Holds(d, l) =>
          ctx[d].fn[l] \in Waiters /\ ctx[d].fn[l] # w
    BY <2>2 DEF WakeInv, RegisteredIsArmed
  <2>7. RegisteredIsArmed'
    BY <1>1, <2>1, <2>2, <2>4, <2>5, <2>6 DEF WakeInv, RegisteredIsArmed
  <2>8. NotShared'
    BY <2>3, <2>4, <2>6 DEF WakeInv, NotShared
  <2>9. WokenOrRegistered'
    <3> SUFFICES ASSUME NEW x \in Waiters
                 PROVE  IF fate'[x] = "armed"
                        THEN scheduled[x] = 1
                               \/ \E d \in Contexts, l \in Kinds :
                                    Holds(d, l)' /\ ctx'[d].fn[l] = x
                        ELSE scheduled[x] = 0
      BY <2>1 DEF WokenOrRegistered
    <3>1. CASE x = w
      BY <1>1, <2>4, <2>5, <3>1
    <3>2. CASE x # w
      <4>1. \A d \in Contexts, l \in Kinds : Holds(d, l) =>
              Holds(d, l)' /\ ctx'[d].fn[l] = ctx[d].fn[l]
        BY <2>3, <2>4
      <4>2. QED
        BY <2>5, <3>2, <4>1 DEF WakeInv, WokenOrRegistered
    <3>3. QED
      BY <3>1, <3>2
  <2>10. CallsBringNew'
    <3>1. CallsKept /\ \A v \in Users : call'[v].op = "add" => v # u
      BY <2>1, ReturnKeepsCalls
    <3>2. \A v \in Users : call'[v].op = "add" =>
            /\ fate[call[v].waiter] = "new" /\ call[v].waiter # w
            /\ call[v].waiter \in Waiters
      BY <1>1, <3>1, CallFacts DEF WakeInv, CallsBringNew, CallsKept, w, TypeOK
    <3>3. QED
      BY <2>5, <3>1, <3>2 DEF WakeInv, CallsBringNew, CallsKept
  <2>11. QED
    BY <2>7, <2>8, <2>9, <2>10 DEF WakeInv
<1>4. QED
  BY <1>2, <1>3

\* delEvent() drops the waiter of the event, if there is one.
LEMMA DelWakes ==
  ASSUME TypeOK, WakeInv, NEW u \in Users, DelLocked(u)
  PROVE  WakeInv'
<1> DEFINE k == call[u].kind
           c == <<call[u].fd, call[u].gen>>
<1>1. c \in Contexts /\ k \in Kinds
  BY CallFacts, EventConstants DEF DelLocked
<1>2. CASE Refused(u)
  BY <1>2, RefusedWakes
<1>3. CASE ~Refused(u)
  <2>1. /\ ctx' = [ctx EXCEPT ![c] =
             [events |-> ctx[c].events \ {k}, sched |-> @.sched \ {k},
              fn |-> [@.fn EXCEPT ![k] = None]]]
        /\ fate' = [x \in Waiters |->
             IF k \in ctx[c].events /\ x = ctx[c].fn[k] THEN "deleted"
             ELSE fate[x]]
        /\ Return(u)
        /\ UNCHANGED scheduled
    BY <1>3 DEF DelLocked
  <2> HIDE DEF c, k
  <2>2. \A d \in Contexts, l \in Kinds :
          /\ Holds(d, l)' <=> Holds(d, l) /\ ~(d = c /\ l = k)
          /\ ~(d = c /\ l = k) => ctx'[d].fn[l] = ctx[d].fn[l]
    BY <1>1, <2>1 DEF Holds, TypeOK
  <2>3. \A x \in Waiters :
          fate'[x] = IF Holds(c, k) /\ x = ctx[c].fn[k] THEN "deleted" ELSE fate[x]
    BY <2>1 DEF Holds
  <2>4. Holds(c, k) => scheduled[ctx[c].fn[k]] = 0 /\ ctx[c].fn[k] \in Waiters
                         /\ fate[ctx[c].fn[k]] = "armed"
    BY <1>1 DEF WakeInv, RegisteredIsArmed
  <2>5. RegisteredIsArmed'
    <3> SUFFICES ASSUME NEW d \in Contexts, NEW l \in Kinds, Holds(d, l)'
                 PROVE  /\ ctx'[d].fn[l] \in Waiters
                        /\ fate'[ctx'[d].fn[l]] = "armed"
                        /\ scheduled'[ctx'[d].fn[l]] = 0
      BY DEF RegisteredIsArmed
    <3>1. Holds(d, l) /\ ~(d = c /\ l = k) /\ ctx'[d].fn[l] = ctx[d].fn[l]
      BY <2>2
    <3>2. ~(Holds(c, k) /\ ctx[d].fn[l] = ctx[c].fn[k])
      BY <1>1, <3>1 DEF WakeInv, NotShared
    <3>3. QED
      BY <2>1, <2>3, <3>1, <3>2 DEF WakeInv, RegisteredIsArmed
  <2>6. NotShared'
    BY <2>2 DEF WakeInv, NotShared
  <2>7. WokenOrRegistered'
    <3> SUFFICES ASSUME NEW x \in Waiters
                 PROVE  IF fate'[x] = "armed"
                        THEN scheduled[x] = 1
                               \/ \E d \in Contexts, l \in Kinds :
                                    Holds(d, l)' /\ ctx'[d].fn[l] = x
                        ELSE scheduled[x] = 0
      BY <2>1 DEF WokenOrRegistered
    <3>1. CASE Holds(c, k) /\ x = ctx[c].fn[k]
      BY <2>3, <2>4, <3>1
    <3>2. CASE ~(Holds(c, k) /\ x = ctx[c].fn[k])
      BY <2>2, <2>3, <3>2 DEF WakeInv, WokenOrRegistered
    <3>3. QED
      BY <3>1, <3>2
  <2>8. CallsBringNew'
    <3>1. CallsKept
      BY <2>1, ReturnKeepsCalls
    <3>2. \A v \in Users : call'[v].op = "add" =>
            fate[call[v].waiter] = "new" /\ call[v].waiter \in Waiters
      BY <3>1, CallFacts DEF WakeInv, CallsBringNew, CallsKept
    <3>3. QED
      BY <2>3, <2>4, <3>1, <3>2 DEF WakeInv, CallsBringNew, CallsKept
  <2>9. QED
    BY <2>5, <2>6, <2>7, <2>8 DEF WakeInv
<1>4. QED
  BY <1>2, <1>3

\* A call that begins; of addEvent() with a waiter nobody has used.
LEMMA LookupWakes ==
  ASSUME TypeOK, WakeInv, NEW u \in Users, NEW op, NEW f \in Fds,
         NEW k \in Kinds, NEW w, Lookup(u, op, f, k, w),
         op = "add" => /\ fate[w] = "new"
                       /\ \A v \in Users : call[v] = NoCall \/ call[v].waiter # w
  PROVE  WakeInv'
<1> DEFINE new == [op |-> op, fd |-> f, kind |-> k, waiter |-> w,
                   gen |-> table[f]]
<1>1. new.op = op /\ new.waiter = w /\ NoCall.op = "none"
  BY DEF NoCall
<1>2. \A v \in Users : call'[v] = IF v = u THEN new ELSE call[v]
  BY DEF Lookup, TypeOK
<1> HIDE DEF new, NoCall
<1>3. CallsBringNew'
  BY <1>1, <1>2 DEF Lookup, WakeInv, CallsBringNew
<1>4. QED
  BY <1>3 DEF Lookup, WakeInv, RegisteredIsArmed, NotShared, WokenOrRegistered,
              Holds

LEMMA NextWakes == IInv /\ [Next]_vars => (fault' = "none" => WakeInv')
<1> SUFFICES ASSUME IInv, [Next]_vars, fault' = "none" PROVE WakeInv'
  OBVIOUS
<1> TypeOK
  BY DEF IInv
<1>1. CASE UNCHANGED vars
  BY <1>1, WakeUnchanged DEF vars, IInv, CallsKept
<1>2. CASE Next
  <2> WakeInv
    BY <1>2 DEF Next, IInv
  <2>1. ASSUME NEW u \in Users, UserStep(u) PROVE WakeInv'
    <3>1. ASSUME NEW f \in Fds, NEW k \in Kinds, NEW w \in Waiters, Add(u, f, k, w)
          PROVE  WakeInv'
      BY <3>1, LookupWakes DEF Add
    <3>2. ASSUME NEW f \in Fds, NEW k \in Kinds, NEW op \in Ops \ {"add"},
                 Lookup(u, op, f, k, None)
          PROVE  WakeInv'
      BY <3>2, LookupWakes
    <3>3. CASE Grow(u)
      <4>1. \A v \in Users : /\ call'[v].op = call[v].op
                             /\ call'[v].waiter = call[v].waiter
        <5>1. call[u] \in CallType
          BY <3>3, CallFacts DEF Grow
        <5>2. \A v \in Users : call'[v] =
                IF v = u THEN [call[u] EXCEPT !.gen = table'[call[u].fd]]
                ELSE call[v]
          BY <3>3 DEF Grow, TypeOK
        <5>3. QED
          BY <5>1, <5>2 DEF CallType
      <4>2. QED
        BY <3>3, <4>1, WakeUnchanged DEF Grow, CallsKept
    <3>4. CASE CancelLocked(u)
      <4>1. CASE Refused(u)
        BY <4>1, RefusedWakes
      <4>2. CASE ~Refused(u)
        <5> DEFINE c == <<call[u].fd, call[u].gen>>
                   ks == {call[u].kind}
        <5>1. c \in Contexts /\ ks \in SUBSET Kinds
          BY <3>4, CallFacts, EventConstants DEF CancelLocked
        <5>2. Trigger(c, ks) /\ Return(u) /\ UNCHANGED fate
          BY <3>4, <4>2 DEF CancelLocked
        <5> HIDE DEF c, ks
        <5>3. QED
          BY <5>1, <5>2, ReturnKeepsCalls, TriggerWakes
      <4>3. QED
        BY <4>1, <4>2
    <3>5. CASE CancelAllLocked(u)
      <4>1. CASE Refused(u)
        BY <4>1, RefusedWakes
      <4>2. CASE ~Refused(u)
        <5> DEFINE c == <<call[u].fd, call[u].gen>>
                   ks == ctx[c].events
        <5>1. c \in Contexts
          BY <3>5, CallFacts, EventConstants DEF CancelAllLocked
        <5>2. ks \in SUBSET Kinds
          BY <5>1 DEF TypeOK
        <5>3. Trigger(c, ks) /\ Return(u) /\ UNCHANGED fate
          BY <3>5, <4>2 DEF CancelAllLocked
        <5> HIDE DEF c, ks
        <5>4. QED
          BY <5>1, <5>2, <5>3, ReturnKeepsCalls, TriggerWakes
      <4>3. QED
        BY <4>1, <4>2
    <3>6. QED
      BY <2>1, <3>1, <3>2, <3>3, <3>4, <3>5, AddWakes, DelWakes DEF UserStep
  <2>2. ASSUME NEW i \in Idlers, IdleStep(i) PROVE WakeInv'
    <3>1. CASE EpollWait(i)
      BY <3>1, WakeUnchanged DEF EpollWait, CallsKept
    <3>2. ASSUME NEW e \in batch[i], Handle(i, e) PROVE WakeInv'
      <4>1. CASE UNCHANGED <<ctx, pending, epoll, scheduled, fault>>
        BY <3>2, <4>1, WakeUnchanged DEF Handle, CallsKept
      <4>2. CASE ~UNCHANGED <<ctx, pending, epoll, scheduled, fault>>
        <5>1. Trigger(e.ctx, Real(e)) /\ UNCHANGED <<fate, call>>
          BY <3>2, <4>2 DEF Handle
        <5>2. e.ctx \in Contexts /\ Real(e) \in SUBSET Kinds
          BY ReportFacts
        <5>3. QED
          BY <5>1, <5>2, TriggerWakes DEF CallsKept
      <4>3. QED
        BY <4>1, <4>2
    <3>3. QED
      BY <2>2, <3>1, <3>2 DEF IdleStep
  <2>3. CASE Environment
    BY <2>3, WakeUnchanged DEF Environment, BecomesReady, IsDrained, CallsKept
  <2>4. QED
    BY <1>2, <2>1, <2>2, <2>3 DEF Next
<1>3. QED
  BY <1>1, <1>2

LEMMA Invariance == Spec => []IInv
<1>1. Init => IInv
  BY InitType, InitWakeInv DEF IInv
<1>2. IInv /\ [Next]_vars => IInv'
  BY NextType, NextWakes DEF IInv
<1>3. QED
  BY <1>1, <1>2, PTL DEF Spec

LEMMA WakeInvMeansOne == IInv => OneWakeup
<1> SUFFICES ASSUME IInv, fault = "none", NEW w \in Waiters
             PROVE  LET places == {r \in Registered : ctx[r[1]].fn[r[2]] = w} IN
                    CASE fate[w] = "armed" -> scheduled[w] + Cardinality(places) = 1
                      [] OTHER -> scheduled[w] = 0 /\ places = {}
  BY DEF OneWakeup
<1> DEFINE places == {r \in Registered : ctx[r[1]].fn[r[2]] = w}
<1>1. TypeOK /\ WakeInv
  BY DEF IInv
<1>2. \A c \in Contexts, k \in Kinds :
        <<c, k>> \in places <=> Holds(c, k) /\ ctx[c].fn[k] = w
  BY DEF Registered, Holds
<1>3. \A r \in places : \E c \in Contexts, k \in Kinds : r = <<c, k>>
  BY DEF Registered
<1> HIDE DEF places
<1>4. CASE \E c \in Contexts, k \in Kinds : Holds(c, k) /\ ctx[c].fn[k] = w
  <2>1. PICK c \in Contexts, k \in Kinds : Holds(c, k) /\ ctx[c].fn[k] = w
    BY <1>4
  <2>2. fate[w] = "armed" /\ scheduled[w] = 0
    BY <1>1, <2>1 DEF WakeInv, RegisteredIsArmed
  <2>3. places = {<<c, k>>}
    BY <1>1, <1>2, <1>3, <2>1 DEF WakeInv, NotShared
  <2>4. Cardinality(places) = 1
    BY <2>3, FS_Singleton
  <2>5. QED
    BY <2>2, <2>4 DEF places
<1>5. CASE ~\E c \in Contexts, k \in Kinds : Holds(c, k) /\ ctx[c].fn[k] = w
  <2>1. places = {}
    BY <1>2, <1>3, <1>5
  <2>2. Cardinality(places) = 0
    BY <2>1, FS_EmptySet
  <2>3. IF fate[w] = "armed" THEN scheduled[w] = 1 ELSE scheduled[w] = 0
    BY <1>1, <1>5 DEF WakeInv, WokenOrRegistered
  <2>4. QED
    BY <2>1, <2>2, <2>3 DEF places
<1>6. QED
  BY <1>4, <1>5

\* A waiter is scheduled at most once, neither before it is registered nor after
\* it was deleted, and exactly once when its event is gone: for any number of
\* threads that cancel, any stale batch, and a table that may shrink.
THEOREM WokenOnce == Spec => []OneWakeup
BY Invariance, WakeInvMeansOne, PTL

(***************************************************************************)
(* epoll watches what is registered.                                       *)
(***************************************************************************)
\* Two contexts of one descriptor, which a table that shrinks can leave behind,
\* share its entry in epoll, and break this.
WatchInv == \A c \in Contexts : interest[c[1]].mask = ctx[c].events

OneContext == MaxGen = 1

LEMMA ContextOfFd ==
  ASSUME OneContext
  PROVE  /\ \A c \in Contexts : c[1] \in Fds /\ c = <<c[1], 1>>
         /\ \A f \in Fds : <<f, 1>> \in Contexts
BY DEF OneContext, Contexts

\* A step that leaves a descriptor with the events `left' in epoll and in its
\* context.
LEMMA WatchLeft ==
  ASSUME OneContext, TypeOK, WatchInv, NEW c \in Contexts, NEW left,
         \A f \in Fds : interest'[f].mask =
           IF f = c[1] THEN left ELSE interest[f].mask,
         \A d \in Contexts : ctx'[d].events = IF d = c THEN left ELSE ctx[d].events
  PROVE  WatchInv'
BY ContextOfFd DEF WatchInv

LEMMA LeaveMask ==
  ASSUME TypeOK, NEW f \in Fds, NEW left, NEW g, CtlLeave(f, left, g)
  PROVE  \A h \in Fds :
           interest'[h].mask = IF h = f THEN left ELSE interest[h].mask
<1>1. interest \in [Fds -> [mask : SUBSET Kinds, ptr : 0 .. MaxGen]]
  BY DEF TypeOK
<1>2. CASE left = {}
  <2>1. interest' = [interest EXCEPT ![f].mask = {}]
    BY <1>2 DEF CtlLeave, CtlDel
  <2>2. QED
    BY <1>1, <1>2, <2>1
<1>3. CASE left # {}
  <2>1. interest' = [interest EXCEPT ![f] = [mask |-> left, ptr |-> g]]
    BY <1>3 DEF CtlLeave, CtlSet
  <2>2. QED
    BY <1>1, <2>1
<1>4. QED
  BY <1>2, <1>3

LEMMA LeaveIsWatched ==
  ASSUME OneContext, TypeOK, WatchInv, NEW c \in Contexts, NEW ks \in SUBSET Kinds,
         NEW g, CtlLeave(c[1], ctx[c].events \ ks, g), Trigger(c, ks),
         fault' = "none"
  PROVE  WatchInv'
<1> DEFINE left == ctx[c].events \ ks
<1>1. \A f \in Fds : interest'[f].mask = IF f = c[1] THEN left ELSE interest[f].mask
  BY ContextOfFd, LeaveMask
<1>2. \A d \in Contexts : ctx'[d].events = IF d = c THEN left ELSE ctx[d].events
  <2>1. ctx' = Triggered(c, ks)
    BY DEF Trigger
  <2>2. QED
    BY <2>1 DEF Triggered, TypeOK
<1> HIDE DEF left
<1>3. QED
  BY <1>1, <1>2, WatchLeft

LEMMA NextWatch ==
  ASSUME OneContext, TypeOK, WatchInv, Next, fault' = "none"
  PROVE  WatchInv'
<1>1. ASSUME UNCHANGED <<ctx, interest>> PROVE WatchInv'
  BY <1>1 DEF WatchInv
<1>2. ASSUME NEW u \in Users, Refused(u) PROVE WatchInv'
  BY <1>1, <1>2 DEF Refused, epoll
<1>3. ASSUME NEW u \in Users, UserStep(u) PROVE WatchInv'
  <2> DEFINE c == <<call[u].fd, call[u].gen>>
             k == call[u].kind
  <2>1. CASE AddLocked(u) /\ ~Refused(u)
    <3>1. c \in Contexts /\ k \in Kinds
      BY <2>1, CallFacts DEF AddLocked
    <3> DEFINE left == ctx[c].events \cup {k}
               op == IF ctx[c].events = {} THEN "ADD" ELSE "MOD"
    <3>2. /\ CtlSet(c[1], op, left, c[2])
          /\ ctx' = [ctx EXCEPT ![c] =
               [events |-> left, sched |-> @.sched \cup {k},
                fn |-> [@.fn EXCEPT ![k] = call[u].waiter]]]
      BY <2>1 DEF AddLocked
    <3> HIDE DEF left, op
    <3>3. \A f \in Fds :
            interest'[f].mask = IF f = c[1] THEN left ELSE interest[f].mask
      BY <3>1, <3>2 DEF CtlSet, TypeOK
    <3>4. \A d \in Contexts :
            ctx'[d].events = IF d = c THEN left ELSE ctx[d].events
      BY <3>1, <3>2 DEF TypeOK
    <3> HIDE DEF c
    <3>5. QED
      BY <3>1, <3>3, <3>4, WatchLeft
  <2>2. CASE DelLocked(u) /\ ~Refused(u)
    <3>1. c \in Contexts /\ k \in Kinds
      BY <2>2, CallFacts, EventConstants DEF DelLocked
    <3> DEFINE left == ctx[c].events \ {k}
    <3>2. /\ CtlLeave(c[1], left, c[2])
          /\ ctx' = [ctx EXCEPT ![c] =
               [events |-> left, sched |-> @.sched \ {k},
                fn |-> [@.fn EXCEPT ![k] = None]]]
      BY <2>2 DEF DelLocked
    <3> HIDE DEF left
    <3>3. \A f \in Fds :
            interest'[f].mask = IF f = c[1] THEN left ELSE interest[f].mask
      BY <3>1, <3>2, ContextOfFd, LeaveMask
    <3>4. \A d \in Contexts :
            ctx'[d].events = IF d = c THEN left ELSE ctx[d].events
      BY <3>1, <3>2 DEF TypeOK
    <3> HIDE DEF c
    <3>5. QED
      BY <3>1, <3>3, <3>4, WatchLeft
  <2>3. CASE CancelLocked(u) /\ ~Refused(u)
    <3> DEFINE ks == {k}
    <3>1. c \in Contexts /\ ks \in SUBSET Kinds
      BY <2>3, CallFacts, EventConstants DEF CancelLocked
    <3>2. CtlLeave(c[1], ctx[c].events \ ks, c[2]) /\ Trigger(c, ks)
      BY <2>3 DEF CancelLocked
    <3> HIDE DEF c, ks
    <3>3. QED
      BY <3>1, <3>2, LeaveIsWatched
  <2>4. CASE CancelAllLocked(u) /\ ~Refused(u)
    <3> DEFINE ks == ctx[c].events
    <3>1. c \in Contexts
      BY <2>4, CallFacts, EventConstants DEF CancelAllLocked
    <3>2. ks \in SUBSET Kinds /\ ctx[c].events \ ks = {}
      BY <3>1 DEF TypeOK
    <3>3. CtlDel(c[1]) /\ Trigger(c, ks)
      BY <2>4 DEF CancelAllLocked
    <3> HIDE DEF c, ks
    <3>4. CtlLeave(c[1], ctx[c].events \ ks, c[2])
      BY <3>2, <3>3 DEF CtlLeave
    <3>5. QED
      BY <3>1, <3>2, <3>3, <3>4, LeaveIsWatched
  <2>5. QED
    BY <1>1, <1>2, <1>3, <2>1, <2>2, <2>3, <2>4
       DEF UserStep, Add, Lookup, Grow, epoll
<1>4. ASSUME NEW i \in Idlers, IdleStep(i) PROVE WatchInv'
  <2>1. ASSUME NEW e \in batch[i], Handle(i, e),
               ~UNCHANGED <<ctx, pending, epoll, scheduled, fault>>
        PROVE  WatchInv'
    <3> DEFINE c == e.ctx
               ks == Real(e)
    <3>1. c \in Contexts /\ ks \in SUBSET Kinds
      BY ReportFacts
    <3>2. CtlLeave(c[1], ctx[c].events \ ks, c[2]) /\ Trigger(c, ks)
      BY <2>1 DEF Handle
    <3> HIDE DEF c, ks
    <3>3. QED
      BY <3>1, <3>2, LeaveIsWatched
  <2>2. QED
    BY <1>1, <1>4, <2>1 DEF IdleStep, EpollWait, Handle, epoll
<1>5. CASE Environment
  BY <1>1, <1>5 DEF Environment, BecomesReady, IsDrained
<1>6. QED
  BY <1>3, <1>4, <1>5 DEF Next

\* As long as the table gives a descriptor one context, what epoll watches is
\* what is registered: for any number of descriptors, threads and operations.
THEOREM WatchedIsRegistered ==
  ASSUME OneContext
  PROVE  Spec => []InterestExact
<1> DEFINE W == fault = "none" => WatchInv
<1>1. Init => W
  BY ContextOfFd DEF Init, WatchInv, NewContext
<1>2. TypeOK /\ W /\ [Next]_vars => W'
  <2> SUFFICES ASSUME TypeOK, W, [Next]_vars, fault' = "none" PROVE WatchInv'
    OBVIOUS
  <2>1. CASE UNCHANGED vars
    BY <2>1 DEF vars, epoll, WatchInv
  <2>2. CASE Next
    BY <2>2, NextWatch DEF Next
  <2>3. QED
    BY <2>1, <2>2
<1>3. TypeOK /\ W => InterestExact
  <2> SUFFICES ASSUME WatchInv, NEW f \in Fds
               PROVE  interest[f].mask =
                        UNION {ctx[c].events : c \in {d \in Contexts : d[1] = f}}
    BY DEF InterestExact
  <2>1. {d \in Contexts : d[1] = f} = {<<f, 1>>}
    BY ContextOfFd
  <2>2. interest[f].mask = ctx[<<f, 1>>].events
    BY ContextOfFd DEF WatchInv
  <2>3. QED
    BY <2>1, <2>2
<1> HIDE DEF W
<1>4. QED
  BY <1>1, <1>2, <1>3, Typing, PTL DEF Spec

(***************************************************************************)
(* The counter of pending events.                                          *)
(***************************************************************************)
\* What the counter needs to be exact: delEvent() is not used (the library itself
\* never does), and a size_t can count the events of all descriptors.
Countable ==
  /\ "del" \notin Ops
  /\ IsFiniteSet(Fds)
  /\ Cardinality(Contexts \X Kinds) < CounterSpan

LEMMA CountFacts ==
  ASSUME Countable, NEW S \in SUBSET (Contexts \X Kinds)
  PROVE  /\ IsFiniteSet(S)
         /\ Cardinality(S) \in Nat /\ Cardinality(S) < CounterSpan
<1>1. IsFiniteSet(Contexts)
  <2>1. IsFiniteSet(1 .. MaxGen)
    BY FS_Interval, EventConstants
  <2>2. QED
    BY <2>1, FS_Product DEF Countable, Contexts
<1>2. IsFiniteSet(Contexts \X Kinds)
  BY <1>1, KindsAreFinite, FS_Product
<1>3. Cardinality(Contexts \X Kinds) \in Nat
  BY <1>2, FS_CardinalityType
<1>4. IsFiniteSet(S) /\ Cardinality(S) <= Cardinality(Contexts \X Kinds)
  BY <1>2, FS_Subset
<1>5. Cardinality(S) \in Nat
  BY <1>4, FS_CardinalityType
<1>6. QED
  BY <1>3, <1>4, <1>5, EventConstants DEF Countable

LEMMA CountsDown ==
  ASSUME Countable, TypeOK, NEW c \in Contexts, NEW ks \in SUBSET Kinds,
         Trigger(c, ks), fault' = "none", pending = Cardinality(Registered)
  PROVE  (pending = Cardinality(Registered))'
<1> DEFINE gone == {c} \X ks
<1>1. /\ ks \subseteq ctx[c].events
      /\ ctx' = Triggered(c, ks)
      /\ Count(-Cardinality(ks))
  BY DEF Trigger
<1>2. Registered \in SUBSET (Contexts \X Kinds)
      /\ Registered' \in SUBSET (Contexts \X Kinds)
  BY DEF Registered
<1>3. gone \subseteq Registered
  BY <1>1 DEF Registered
<1>4. \A d \in Contexts, l \in Kinds :
        l \in ctx'[d].events <=> l \in ctx[d].events /\ <<d, l>> \notin gone
  BY <1>1 DEF Triggered, TypeOK
<1>5. Registered' = Registered \ gone
  BY <1>4 DEF Registered
<1>6. Cardinality(gone) = Cardinality(ks) /\ Cardinality(ks) \in Nat
  <2>1. IsFiniteSet({c}) /\ Cardinality({c}) = 1
    BY FS_Singleton
  <2>2. IsFiniteSet(ks) /\ Cardinality(ks) \in Nat
    BY KindsAreFinite
  <2>3. Cardinality(gone) = Cardinality({c}) * Cardinality(ks)
    BY <2>1, <2>2, FS_Product
  <2>4. QED
    BY <2>1, <2>2, <2>3
<1> HIDE DEF gone
<1>7. Cardinality(Registered') = Cardinality(Registered) - Cardinality(ks)
  <2>1. IsFiniteSet(Registered) /\ Registered \cap gone = gone
    BY <1>2, <1>3, CountFacts
  <2>2. Cardinality(Registered \ gone)
          = Cardinality(Registered) - Cardinality(Registered \cap gone)
    BY <2>1, FS_Difference
  <2>3. QED
    BY <1>5, <1>6, <2>1, <2>2
<1>8. Cardinality(Registered') \in Nat /\ Cardinality(Registered') < CounterSpan
  BY <1>2, CountFacts
<1>9. pending' = Cardinality(Registered')
  <2>1. pending' = (pending + (-Cardinality(ks))) % CounterSpan
    BY <1>1 DEF Count
  <2>2. pending + (-Cardinality(ks)) = Cardinality(Registered')
    BY <1>2, <1>6, <1>7, CountFacts
  <2>3. QED
    BY <1>8, <2>1, <2>2, EventConstants
<1>10. QED
  BY <1>9

LEMMA CountsUp ==
  ASSUME Countable, IInv, NEW u \in Users, AddLocked(u), ~Refused(u),
         fault = "none", fault' = "none", pending = Cardinality(Registered)
  PROVE  (pending = Cardinality(Registered))'
<1> DEFINE c == <<call[u].fd, call[u].gen>>
           k == call[u].kind
<1>1. TypeOK /\ WakeInv
  BY DEF IInv
<1>2. c \in Contexts /\ k \in Kinds
  BY <1>1, CallFacts DEF AddLocked
<1>3. /\ ctx[c].fn[k] = None
      /\ ctx' = [ctx EXCEPT ![c] =
           [events |-> ctx[c].events \cup {k}, sched |-> @.sched \cup {k},
            fn |-> [@.fn EXCEPT ![k] = call[u].waiter]]]
      /\ Count(1)
  BY DEF AddLocked
<1> HIDE DEF c, k
<1>4. <<c, k>> \notin Registered
  BY <1>1, <1>2, <1>3, EventConstants
     DEF WakeInv, RegisteredIsArmed, Holds, Registered
<1>5. \A d \in Contexts, l \in Kinds :
        l \in ctx'[d].events <=> l \in ctx[d].events \/ (d = c /\ l = k)
  BY <1>1, <1>2, <1>3 DEF TypeOK
<1>6. Registered' = Registered \cup {<<c, k>>}
  BY <1>2, <1>5 DEF Registered
<1>7. Registered \in SUBSET (Contexts \X Kinds)
      /\ Registered' \in SUBSET (Contexts \X Kinds)
  BY DEF Registered
<1>8. Cardinality(Registered') = pending + 1
  BY <1>4, <1>6, <1>7, CountFacts, FS_AddElement
<1>9. Cardinality(Registered') \in Nat /\ Cardinality(Registered') < CounterSpan
  BY <1>7, CountFacts
<1>10. pending' = (pending + 1) % CounterSpan
  BY <1>3 DEF Count
<1>11. QED
  BY <1>8, <1>9, <1>10, EventConstants

LEMMA NextCount ==
  ASSUME Countable, IInv, Next, fault' = "none", pending = Cardinality(Registered)
  PROVE  (pending = Cardinality(Registered))'
<1> TypeOK /\ fault = "none"
  BY DEF IInv, Next
<1>1. ASSUME UNCHANGED <<ctx, pending>>
      PROVE  (pending = Cardinality(Registered))'
  BY <1>1 DEF Registered
<1>2. ASSUME NEW u \in Users, Refused(u)
      PROVE  (pending = Cardinality(Registered))'
  BY <1>1, <1>2 DEF Refused
<1>3. ASSUME NEW u \in Users, UserStep(u)
      PROVE  (pending = Cardinality(Registered))'
  <2> DEFINE c == <<call[u].fd, call[u].gen>>
             k == call[u].kind
  <2>1. CASE AddLocked(u)
    BY <1>2, <2>1, CountsUp
  <2>2. ~DelLocked(u)
    <3>1. SUFFICES ASSUME DelLocked(u) PROVE FALSE
      OBVIOUS
    <3>2. call[u].op = "del"
      BY <3>1 DEF DelLocked
    <3>3. call[u] \in CallType
      BY <3>2, CallFacts
    <3>4. QED
      BY <3>2, <3>3 DEF CallType, Countable
  <2>3. CASE CancelLocked(u) /\ ~Refused(u)
    <3> DEFINE ks == {k}
    <3>1. c \in Contexts /\ ks \in SUBSET Kinds
      BY <2>3, CallFacts, EventConstants DEF CancelLocked
    <3>2. Trigger(c, ks)
      BY <2>3 DEF CancelLocked
    <3> HIDE DEF c, ks
    <3>3. QED
      BY <3>1, <3>2, CountsDown
  <2>4. CASE CancelAllLocked(u) /\ ~Refused(u)
    <3> DEFINE ks == ctx[c].events
    <3>1. c \in Contexts
      BY <2>4, CallFacts, EventConstants DEF CancelAllLocked
    <3>2. ks \in SUBSET Kinds
      BY <3>1 DEF TypeOK
    <3>3. Trigger(c, ks)
      BY <2>4 DEF CancelAllLocked
    <3> HIDE DEF c, ks
    <3>4. QED
      BY <3>1, <3>2, <3>3, CountsDown
  <2>5. QED
    BY <1>1, <1>2, <1>3, <2>1, <2>2, <2>3, <2>4 DEF UserStep, Add, Lookup, Grow
<1>4. ASSUME NEW i \in Idlers, IdleStep(i)
      PROVE  (pending = Cardinality(Registered))'
  <2>1. ASSUME NEW e \in batch[i], Handle(i, e),
               ~UNCHANGED <<ctx, pending, epoll, scheduled, fault>>
        PROVE  (pending = Cardinality(Registered))'
    <3>1. e.ctx \in Contexts /\ Real(e) \in SUBSET Kinds
      BY ReportFacts
    <3>2. Trigger(e.ctx, Real(e))
      BY <2>1 DEF Handle
    <3>3. QED
      BY <3>1, <3>2, CountsDown
  <2>2. QED
    BY <1>1, <1>4, <2>1 DEF IdleStep, EpollWait, Handle
<1>5. CASE Environment
  BY <1>1, <1>5 DEF Environment, BecomesReady, IsDrained
<1>6. QED
  BY <1>3, <1>4, <1>5 DEF Next

\* Without delEvent(), m_pendingEventCount is the number of registered events: the
\* number that stopping() relies on.
THEOREM CounterExact ==
  ASSUME Countable
  PROVE  Spec => []PendingExact
<1>1. Init => PendingExact
  <2> SUFFICES ASSUME Init PROVE pending = Cardinality(Registered)
    BY DEF PendingExact
  <2>1. Registered = {} /\ pending = 0
    BY DEF Init, Registered, NewContext
  <2>2. QED
    BY <2>1, FS_EmptySet
<1>2. IInv /\ PendingExact /\ [Next]_vars => PendingExact'
  <2> SUFFICES ASSUME IInv, PendingExact, [Next]_vars, fault' = "none"
               PROVE  (pending = Cardinality(Registered))'
    BY DEF PendingExact
  <2>1. CASE UNCHANGED vars
    BY <2>1 DEF vars, Registered, PendingExact
  <2>2. CASE Next
    BY <2>2, NextCount DEF Next, PendingExact
  <2>3. QED
    BY <2>1, <2>2
<1>3. QED
  BY <1>1, <1>2, Invariance, PTL DEF Spec

(***************************************************************************)
(* Only registered events are triggered.                                   *)
(***************************************************************************)
\* What epoll watches is registered in the context it points to, whatever the
\* operations do and however many contexts a descriptor has.
Backed ==
  \A f \in Fds : interest[f].mask # {} =>
    interest[f].mask \subseteq ctx[<<f, interest[f].ptr>>].events

\* A step that ends with what is left of the events of c in epoll.
LEMMA BackedLeft ==
  ASSUME TypeOK, Backed, NEW c \in Contexts,
         \A f \in Fds \ {c[1]} : interest'[f] = interest[f],
         \/ interest'[c[1]].mask = {}
         \/ /\ interest'[c[1]].ptr = c[2]
            /\ interest'[c[1]].mask \subseteq ctx'[c].events,
         \A d \in Contexts \ {c} : ctx'[d] = ctx[d]
  PROVE  Backed'
<1> SUFFICES ASSUME NEW f \in Fds, interest'[f].mask # {}
             PROVE  interest'[f].mask \subseteq ctx'[<<f, interest'[f].ptr>>].events
  BY DEF Backed
<1>1. c[1] \in Fds /\ c = <<c[1], c[2]>>
  BY DEF Contexts
<1>2. CASE f = c[1]
  BY <1>1, <1>2
<1>3. CASE f # c[1]
  <2>1. <<f, interest[f].ptr>> \in Contexts \ {c} /\ interest'[f] = interest[f]
    BY <1>1, <1>3, EventConstants DEF TypeOK, Contexts
  <2>2. QED
    BY <2>1 DEF Backed
<1>4. QED
  BY <1>2, <1>3

LEMMA BackedLeave ==
  ASSUME TypeOK, Backed, NEW c \in Contexts, NEW left,
         CtlLeave(c[1], left, c[2]),
         left \subseteq ctx'[c].events, \A d \in Contexts \ {c} : ctx'[d] = ctx[d]
  PROVE  Backed'
<1>1. c[1] \in Fds
  BY DEF Contexts
<1>2. \A f \in Fds \ {c[1]} : interest'[f] = interest[f]
  BY DEF CtlLeave, CtlSet, CtlDel, TypeOK
<1>3. \/ interest'[c[1]].mask = {}
      \/ interest'[c[1]].ptr = c[2] /\ interest'[c[1]].mask = left
  BY <1>1 DEF CtlLeave, CtlSet, CtlDel, TypeOK
<1>4. QED
  BY <1>2, <1>3, BackedLeft

LEMMA TriggerLeaves ==
  ASSUME TypeOK, NEW c \in Contexts, NEW ks, Trigger(c, ks), fault' = "none"
  PROVE  /\ ks \subseteq ctx[c].events /\ ctx'[c].events = ctx[c].events \ ks
         /\ \A d \in Contexts \ {c} : ctx'[d] = ctx[d]
<1>1. ks \subseteq ctx[c].events /\ ctx' = Triggered(c, ks)
  BY DEF Trigger
<1>2. QED
  BY <1>1 DEF Triggered, TypeOK

\* The second halves of the operations: they change the events of one context.
LEMMA LockedSteps ==
  ASSUME TypeOK, NEW u \in Users, fault = "none", fault' = "none",
         AddLocked(u) \/ DelLocked(u) \/ CancelLocked(u) \/ CancelAllLocked(u)
  PROVE  /\ call' # call /\ UNCHANGED batch
         /\ Backed => Backed'
<1> DEFINE c == <<call[u].fd, call[u].gen>>
           k == call[u].kind
<1>1. call[u].op # "none" /\ Return(u) /\ UNCHANGED batch
  BY DEF AddLocked, DelLocked, CancelLocked, CancelAllLocked, Refused
<1>2. call' # call
  <2>1. NoCall.op = "none"
    BY DEF NoCall
  <2>2. call'[u] = NoCall
    BY <1>1 DEF Return, TypeOK
  <2>3. QED
    BY <1>1, <2>1, <2>2
<1>3. c \in Contexts /\ k \in Kinds
  <2>1. call[u].op = "add" => call[u].gen # 0
    BY DEF AddLocked, DelLocked, CancelLocked, CancelAllLocked
  <2>2. QED
    BY <1>1, <2>1, CallFacts, EventConstants
<1>4. ASSUME Backed PROVE Backed'
  <2>1. CASE Refused(u)
    BY <1>4, <2>1 DEF Refused, epoll, Backed
  <2>2. CASE AddLocked(u) /\ ~Refused(u)
    <3> DEFINE mask == ctx[c].events \cup {k}
               op == IF ctx[c].events = {} THEN "ADD" ELSE "MOD"
    <3>1. /\ CtlSet(c[1], op, mask, c[2])
          /\ ctx' = [ctx EXCEPT ![c] =
               [events |-> mask, sched |-> @.sched \cup {k},
                fn |-> [@.fn EXCEPT ![k] = call[u].waiter]]]
      BY <2>2 DEF AddLocked
    <3> HIDE DEF mask, op
    <3>2. ctx'[c].events = mask /\ \A d \in Contexts \ {c} : ctx'[d] = ctx[d]
      BY <1>3, <3>1 DEF TypeOK
    <3>3. /\ \A f \in Fds \ {c[1]} : interest'[f] = interest[f]
          /\ interest'[c[1]].ptr = c[2] /\ interest'[c[1]].mask = mask
      BY <1>3, <3>1 DEF CtlSet, TypeOK, Contexts
    <3> HIDE DEF c
    <3>4. QED
      BY <1>3, <1>4, <3>2, <3>3, BackedLeft
  <2>3. CASE DelLocked(u) /\ ~Refused(u)
    <3> DEFINE left == ctx[c].events \ {k}
    <3>1. /\ CtlLeave(c[1], left, c[2])
          /\ ctx' = [ctx EXCEPT ![c] =
               [events |-> left, sched |-> @.sched \ {k},
                fn |-> [@.fn EXCEPT ![k] = None]]]
      BY <2>3 DEF DelLocked
    <3> HIDE DEF left
    <3>2. ctx'[c].events = left /\ \A d \in Contexts \ {c} : ctx'[d] = ctx[d]
      BY <1>3, <3>1 DEF TypeOK
    <3> HIDE DEF c
    <3>3. QED
      BY <1>3, <1>4, <3>1, <3>2, BackedLeave
  <2>4. CASE CancelLocked(u) /\ ~Refused(u)
    <3>1. CtlLeave(c[1], ctx[c].events \ {k}, c[2]) /\ Trigger(c, {k})
      BY <2>4 DEF CancelLocked
    <3> HIDE DEF c, k
    <3>2. QED
      BY <1>3, <1>4, <3>1, TriggerLeaves, BackedLeave
  <2>5. CASE CancelAllLocked(u) /\ ~Refused(u)
    <3> DEFINE ks == ctx[c].events
    <3>1. CtlLeave(c[1], ctx[c].events \ ks, c[2]) /\ Trigger(c, ks)
      BY <2>5 DEF CancelAllLocked, CtlLeave
    <3> HIDE DEF c, ks
    <3>2. QED
      BY <1>3, <1>4, <3>1, TriggerLeaves, BackedLeave
  <2>6. QED
    BY <2>1, <2>2, <2>3, <2>4, <2>5
<1>5. QED
  BY <1>1, <1>2, <1>4

\* The steps of users that change no context.
LEMMA FirstHalves ==
  ASSUME NEW u \in Users, UserStep(u)
  PROVE  \/ UNCHANGED <<ctx, interest, batch, fault>>
         \/ AddLocked(u) \/ DelLocked(u) \/ CancelLocked(u) \/ CancelAllLocked(u)
BY DEF UserStep, Add, Lookup, Grow, epoll

\* A report that shows an event that is registered shows no other.
ReportFits(e) ==
  ctx[e.ctx].events \cap Real(e) # {} => Real(e) \subseteq ctx[e.ctx].events

LEMMA FitsNoAssert ==
  ASSUME TypeOK, Next, \A i \in Idlers : \A e \in batch[i] : ReportFits(e)
  PROVE  fault' # "assert_registered"
<1>1. fault = "none"
  BY DEF Next
<1>2. ASSUME NEW u \in Users, UserStep(u) PROVE fault' # "assert_registered"
  <2>1. CASE UNCHANGED fault
    BY <1>1, <2>1
  <2>2. CASE AddLocked(u) \/ DelLocked(u)
    BY <1>1, <2>2 DEF AddLocked, DelLocked, Refused
  <2>3. CASE CancelLocked(u)
    BY <1>1, <2>3 DEF CancelLocked, Refused, Trigger
  <2>4. CASE CancelAllLocked(u)
    BY <1>1, <2>4 DEF CancelAllLocked, Refused, Trigger
  <2>5. QED
    BY <1>2, <2>1, <2>2, <2>3, <2>4, FirstHalves
<1>3. ASSUME NEW i \in Idlers, IdleStep(i) PROVE fault' # "assert_registered"
  BY <1>1, <1>3 DEF IdleStep, EpollWait, Handle, ReportFits, Trigger
<1>4. CASE Environment
  BY <1>1, <1>4 DEF Environment, BecomesReady, IsDrained
<1>5. QED
  BY <1>2, <1>3, <1>4 DEF Next

\* The program waits for one kind of event only, as a server that never waits to
\* write does.
OneKind == \A k, l \in Kinds : k = l

\* The counterpart of run stale: with one kind of event, the report that an
\* idle thread holds is either of a registered event or of none, however stale.
THEOREM OneKindIsSafe ==
  ASSUME OneKind
  PROVE  Spec => []OnlyRegisteredIsTriggered
<1>1. Init => OnlyRegisteredIsTriggered
  BY DEF Init, OnlyRegisteredIsTriggered
<1>2. TypeOK /\ OnlyRegisteredIsTriggered /\ [Next]_vars
        => OnlyRegisteredIsTriggered'
  <2> SUFFICES ASSUME TypeOK, OnlyRegisteredIsTriggered, [Next]_vars
               PROVE  OnlyRegisteredIsTriggered'
    OBVIOUS
  <2>1. CASE UNCHANGED vars
    BY <2>1 DEF vars, OnlyRegisteredIsTriggered
  <2>2. CASE Next
    <3>1. \A i \in Idlers : \A e \in batch[i] : Real(e) \in SUBSET Kinds
      BY ReportFacts
    <3>2. \A i \in Idlers : \A e \in batch[i] : ReportFits(e)
      BY <3>1 DEF ReportFits, OneKind
    <3>3. QED
      BY <2>2, <3>2, FitsNoAssert DEF OnlyRegisteredIsTriggered
  <2>3. QED
    BY <2>1, <2>2
<1>3. QED
  BY <1>1, <1>2, Typing, PTL DEF Spec

\* An IOManager with one thread: nobody else handles reports, and no operation
\* runs while that thread holds some.
OneIdler == \A i, j \in Idlers : i = j
CallsWait == (\E i \in Idlers : batch[i] # {}) => UNCHANGED call

\* The reports that the thread holds are of different contexts, and show what is
\* registered.
Fresh ==
  \A i \in Idlers : \A e \in batch[i] :
    /\ e.got \cap Kinds \subseteq ctx[e.ctx].events
    /\ \A x \in batch[i] : x.ctx = e.ctx => x = e

LEMMA FreshFits ==
  ASSUME TypeOK, Fresh, NEW i \in Idlers, NEW e \in batch[i]
  PROVE  Real(e) \subseteq ctx[e.ctx].events
<1>1. e.got \cap {"READ", "WRITE"} \subseteq Kinds
  BY DEF TypeOK, ReportType
<1>2. QED
  BY <1>1 DEF Real, Fresh

LEMMA WaitIsFresh ==
  ASSUME TypeOK, Backed, OneIdler, NEW i \in Idlers, EpollWait(i)
  PROVE  Fresh'
<1> DEFINE got == {f \in readyList : Reports(f, interest[f].mask) # {}}
           report(f) == [ctx |-> <<f, interest[f].ptr>>,
                         got |-> Reports(f, interest[f].mask)]
<1>1. \A j \in Idlers : batch'[j] = {report(f) : f \in got}
  BY DEF EpollWait, OneIdler, TypeOK
<1>2. ASSUME NEW f \in got
      PROVE  report(f).got \cap Kinds \subseteq ctx[report(f).ctx].events
  <2>1. f \in Fds /\ interest[f].mask # {}
    BY DEF Reports, TypeOK
  <2>2. Reports(f, interest[f].mask) \cap Kinds \subseteq interest[f].mask
    BY EventConstants DEF Reports
  <2>3. QED
    BY <2>1, <2>2 DEF Backed
<1>3. \A f, h \in got : report(f).ctx = report(h).ctx => f = h
  OBVIOUS
<1> HIDE DEF got, report
<1>4. UNCHANGED ctx
  BY DEF EpollWait
<1>5. QED
  BY <1>1, <1>2, <1>3, <1>4 DEF Fresh

LEMMA HandleIsFresh ==
  ASSUME TypeOK, Backed, Fresh, OneIdler, NEW i \in Idlers, NEW e \in batch[i],
         Handle(i, e), fault = "none", fault' = "none"
  PROVE  Backed' /\ Fresh'
<1>1. e.ctx \in Contexts /\ batch' = [batch EXCEPT ![i] = @ \ {e}]
  BY ReportFacts DEF Handle
<1>2. \A j \in Idlers : \A x \in batch'[j] : x \in batch[j] /\ x.ctx # e.ctx
  BY <1>1 DEF TypeOK, OneIdler, Fresh
<1>3. \A j \in Idlers : \A x \in batch[j] : x.ctx \in Contexts
  BY ReportFacts
<1>4. CASE UNCHANGED <<ctx, interest>>
  BY <1>2, <1>4 DEF Backed, Fresh
<1>5. CASE ~UNCHANGED <<ctx, interest>>
  <2> DEFINE c == e.ctx
             ks == Real(e)
  <2>1. CtlLeave(c[1], ctx[c].events \ ks, c[2]) /\ Trigger(c, ks)
    BY <1>5 DEF Handle, epoll
  <2> HIDE DEF ks
  <2>2. /\ ctx'[c].events = ctx[c].events \ ks
        /\ \A d \in Contexts \ {c} : ctx'[d] = ctx[d]
    BY <1>1, <2>1, TriggerLeaves
  <2>3. Fresh'
    BY <1>2, <1>3, <2>2 DEF Fresh
  <2> HIDE DEF c
  <2>4. Backed'
    BY <1>1, <2>1, <2>2, BackedLeave DEF c
  <2>5. QED
    BY <2>3, <2>4
<1>6. QED
  BY <1>4, <1>5

LEMMA FreshStep ==
  ASSUME TypeOK, Backed, Fresh, OneIdler, CallsWait, Next, fault' = "none"
  PROVE  Backed' /\ Fresh'
<1>1. fault = "none"
  BY DEF Next
<1>2. ASSUME UNCHANGED <<ctx, interest, batch>> PROVE Backed' /\ Fresh'
  BY <1>2 DEF Backed, Fresh
<1>3. ASSUME NEW u \in Users, UserStep(u) PROVE Backed' /\ Fresh'
  <2>1. CASE AddLocked(u) \/ DelLocked(u) \/ CancelLocked(u) \/ CancelAllLocked(u)
    <3>1. call' # call /\ UNCHANGED batch /\ Backed'
      BY <1>1, <2>1, LockedSteps
    <3>2. \A i \in Idlers : batch'[i] = {}
      BY <3>1 DEF CallsWait
    <3>3. QED
      BY <3>1, <3>2 DEF Fresh
  <2>2. QED
    BY <1>2, <1>3, <2>1, FirstHalves
<1>4. ASSUME NEW i \in Idlers, IdleStep(i) PROVE Backed' /\ Fresh'
  <2>1. CASE EpollWait(i)
    <3>1. Backed'
      BY <2>1 DEF EpollWait, Backed
    <3>2. QED
      BY <2>1, <3>1, WaitIsFresh
  <2>2. QED
    BY <1>1, <1>4, <2>1, HandleIsFresh DEF IdleStep
<1>5. CASE Environment
  BY <1>2, <1>5 DEF Environment, BecomesReady, IsDrained
<1>6. QED
  BY <1>3, <1>4, <1>5 DEF Next

\* With one thread, which calls the operations only between its batches, every
\* event that epoll has reported is still registered when it is triggered, for
\* both kinds of event and all operations.
THEOREM OneThreadIsSafe ==
  ASSUME OneIdler
  PROVE  Spec /\ [][CallsWait]_vars => []OnlyRegisteredIsTriggered
<1> DEFINE I == /\ fault = "none" => Backed /\ Fresh
                /\ OnlyRegisteredIsTriggered
<1>1. Init => I
  BY DEF Init, Backed, Fresh, OnlyRegisteredIsTriggered
<1>2. TypeOK /\ I /\ [Next]_vars /\ [CallsWait]_vars => I'
  <2> SUFFICES ASSUME TypeOK, I, [Next]_vars, [CallsWait]_vars PROVE I'
    OBVIOUS
  <2>1. CASE UNCHANGED vars
    BY <2>1 DEF vars, epoll, Backed, Fresh, OnlyRegisteredIsTriggered
  <2>2. CASE Next /\ CallsWait
    <3>1. fault = "none" /\ Backed /\ Fresh
      BY <2>2 DEF Next
    <3>2. \A i \in Idlers : \A e \in batch[i] : ReportFits(e)
      BY <3>1, FreshFits DEF ReportFits
    <3>3. OnlyRegisteredIsTriggered'
      BY <2>2, <3>2, FitsNoAssert DEF OnlyRegisteredIsTriggered
    <3>4. QED
      BY <2>2, <3>1, <3>3, FreshStep
  <2>3. QED
    BY <2>1, <2>2
<1>3. I => OnlyRegisteredIsTriggered
  OBVIOUS
<1> HIDE DEF I
<1>4. QED
  BY <1>1, <1>2, <1>3, Typing, PTL DEF Spec

(***************************************************************************)
(* Registered events implement Promises.                                   *)
(***************************************************************************)
\* An event is registered exactly while it has a scheduler: triggerEvent() and
\* delEvent() leave m_scheduler empty, addEvent() sets it.
HasScheduler == \A c \in Contexts : ctx[c].sched = ctx[c].events

Deleted == {w \in Waiters : fate[w] = "deleted"}

\* What a step does that is neither the first half of an operation nor refused.
LEMMA StepKinds ==
  ASSUME TypeOK, Next
  PROVE  \/ UNCHANGED <<ctx, fate, scheduled>>
         \/ \E u \in Users : (AddLocked(u) \/ DelLocked(u)) /\ ~Refused(u)
         \/ \E c \in Contexts, ks \in SUBSET Kinds :
              Trigger(c, ks) /\ UNCHANGED fate
<1> DEFINE Triggers ==
             \E c \in Contexts, ks \in SUBSET Kinds :
               Trigger(c, ks) /\ UNCHANGED fate
<1>1. ASSUME NEW u \in Users, CancelLocked(u), ~Refused(u) PROVE Triggers
  <2>1. PICK c \in Contexts : c = <<call[u].fd, call[u].gen>>
    BY <1>1, CallFacts, EventConstants DEF CancelLocked
  <2>2. PICK ks \in SUBSET Kinds : ks = {call[u].kind}
    BY <1>1, CallFacts, EventConstants DEF CancelLocked
  <2>3. Trigger(c, ks) /\ UNCHANGED fate
    BY <1>1, <2>1, <2>2 DEF CancelLocked
  <2>4. QED
    BY <2>3
<1>2. ASSUME NEW u \in Users, CancelAllLocked(u), ~Refused(u) PROVE Triggers
  <2>1. PICK c \in Contexts : c = <<call[u].fd, call[u].gen>>
    BY <1>2, CallFacts, EventConstants DEF CancelAllLocked
  <2>2. PICK ks \in SUBSET Kinds : ks = ctx[c].events
    BY DEF TypeOK
  <2>3. Trigger(c, ks) /\ UNCHANGED fate
    BY <1>2, <2>1, <2>2 DEF CancelAllLocked
  <2>4. QED
    BY <2>3
<1>3. ASSUME NEW i \in Idlers, NEW e \in batch[i], Handle(i, e)
      PROVE  Triggers \/ UNCHANGED <<ctx, fate, scheduled>>
  <2>1. CASE UNCHANGED <<ctx, pending, epoll, scheduled, fault>>
    BY <1>3, <2>1 DEF Handle
  <2>2. CASE ~UNCHANGED <<ctx, pending, epoll, scheduled, fault>>
    <3>1. PICK c \in Contexts, ks \in SUBSET Kinds : c = e.ctx /\ ks = Real(e)
      BY ReportFacts
    <3>2. Trigger(c, ks) /\ UNCHANGED fate
      BY <1>3, <2>2, <3>1 DEF Handle
    <3>3. QED
      BY <3>2
  <2>3. QED
    BY <2>1, <2>2
<1>4. ASSUME NEW u \in Users, UserStep(u)
      PROVE  \/ UNCHANGED <<ctx, fate, scheduled>> \/ Triggers
             \/ (AddLocked(u) \/ DelLocked(u)) /\ ~Refused(u)
  <2>1. CASE Refused(u)
    BY <2>1 DEF Refused
  <2>2. CASE ~Refused(u)
    <3>1. \/ UNCHANGED <<ctx, fate, scheduled>>
          \/ AddLocked(u) \/ DelLocked(u) \/ CancelLocked(u) \/ CancelAllLocked(u)
      BY <1>4 DEF UserStep, Add, Lookup, Grow
    <3>2. QED
      BY <1>1, <1>2, <2>2, <3>1
  <2>3. QED
    BY <2>1, <2>2
<1>5. (\E i \in Idlers : EpollWait(i)) \/ Environment
        => UNCHANGED <<ctx, fate, scheduled>>
  BY DEF EpollWait, Environment, BecomesReady, IsDrained
<1> HIDE DEF Triggers
<1>6. \/ UNCHANGED <<ctx, fate, scheduled>> \/ Triggers
      \/ \E u \in Users : (AddLocked(u) \/ DelLocked(u)) /\ ~Refused(u)
  BY <1>3, <1>4, <1>5 DEF Next, IdleStep
<1>7. QED
  BY <1>6 DEF Triggers

\* addEvent() with waiter w for the event k of context c.
Adds(u, c, k, w) ==
  /\ c = <<call[u].fd, call[u].gen>> /\ k = call[u].kind
  /\ call[u].op = "add" /\ w = call[u].waiter
  /\ UNCHANGED scheduled
  /\ \A d \in Contexts : d # c => ctx'[d] = ctx[d]
  /\ ctx'[c].events = ctx[c].events \cup {k}
  /\ \/ /\ fault' = fault
        /\ k \notin ctx[c].sched
        /\ ctx'[c].sched = ctx[c].sched \cup {k}
        /\ \A l \in Kinds : ctx'[c].fn[l] = IF l = k THEN w ELSE ctx[c].fn[l]
        /\ fate' = [fate EXCEPT ![w] = "armed"]
     \/ /\ fault' # "none" /\ UNCHANGED fate
        /\ ctx'[c].sched = ctx[c].sched /\ ctx'[c].fn = ctx[c].fn

LEMMA AddedContext ==
  ASSUME TypeOK, NEW u \in Users, AddLocked(u), ~Refused(u)
  PROVE  \E c \in Contexts, k \in Kinds, w \in Waiters : Adds(u, c, k, w)
<1>1. PICK c \in Contexts, k \in Kinds, w \in Waiters :
        c = <<call[u].fd, call[u].gen>> /\ k = call[u].kind /\ w = call[u].waiter
  BY CallFacts DEF AddLocked
<1>2. /\ call[u].op = "add" /\ UNCHANGED scheduled
      /\ \/ /\ fault' = fault /\ k \notin ctx[c].sched
            /\ ctx' = [ctx EXCEPT ![c] =
                 [events |-> ctx[c].events \cup {k}, sched |-> @.sched \cup {k},
                  fn |-> [@.fn EXCEPT ![k] = w]]]
            /\ fate' = [fate EXCEPT ![w] = "armed"]
         \/ /\ fault' # "none" /\ UNCHANGED fate
            /\ ctx' = [ctx EXCEPT ![c].events = ctx[c].events \cup {k}]
  BY <1>1 DEF AddLocked
<1>3. /\ \A d \in Contexts : d # c => ctx'[d] = ctx[d]
      /\ ctx'[c].events = ctx[c].events \cup {k}
  BY <1>2 DEF TypeOK
<1>4. \/ /\ fault' = fault
         /\ k \notin ctx[c].sched
         /\ ctx'[c].sched = ctx[c].sched \cup {k}
         /\ \A l \in Kinds : ctx'[c].fn[l] = IF l = k THEN w ELSE ctx[c].fn[l]
         /\ fate' = [fate EXCEPT ![w] = "armed"]
      \/ /\ fault' # "none" /\ UNCHANGED fate
         /\ ctx'[c].sched = ctx[c].sched /\ ctx'[c].fn = ctx[c].fn
  BY <1>2 DEF TypeOK
<1>5. call[u].op = "add" /\ UNCHANGED scheduled
  BY <1>2
<1>6. Adds(u, c, k, w)
  BY <1>1, <1>3, <1>4, <1>5, Zenon DEF Adds
<1>7. QED
  BY <1>6

LEMMA DeletedContext ==
  ASSUME TypeOK, NEW u \in Users, DelLocked(u), ~Refused(u)
  PROVE  \E c \in Contexts, k \in Kinds :
           /\ UNCHANGED <<scheduled, fault>>
           /\ \A d \in Contexts : d # c => ctx'[d] = ctx[d]
           /\ ctx'[c].events = ctx[c].events \ {k}
           /\ ctx'[c].sched = ctx[c].sched \ {k}
           /\ \A l \in Kinds : l # k => ctx'[c].fn[l] = ctx[c].fn[l]
           /\ ctx'[c].fn[k] = None
           /\ fate' = [w \in Waiters |->
                IF k \in ctx[c].events /\ w = ctx[c].fn[k] THEN "deleted"
                ELSE fate[w]]
<1>1. PICK c \in Contexts, k \in Kinds :
        c = <<call[u].fd, call[u].gen>> /\ k = call[u].kind
  BY CallFacts, EventConstants DEF DelLocked
<1>2. /\ UNCHANGED <<scheduled, fault>>
      /\ ctx' = [ctx EXCEPT ![c] =
           [events |-> ctx[c].events \ {k}, sched |-> @.sched \ {k},
            fn |-> [@.fn EXCEPT ![k] = None]]]
      /\ fate' = [w \in Waiters |->
           IF k \in ctx[c].events /\ w = ctx[c].fn[k] THEN "deleted" ELSE fate[w]]
  BY <1>1 DEF DelLocked
<1>3. ctx[c].fn \in [Kinds -> Waiters \cup {None}] /\ DOMAIN ctx = Contexts
  BY DEF TypeOK
<1>4. QED
  BY <1>1, <1>2, <1>3 DEF TypeOK

LEMMA TriggeredContext ==
  ASSUME TypeOK, NEW c \in Contexts, NEW ks \in SUBSET Kinds, Trigger(c, ks)
  PROVE  \/ UNCHANGED <<ctx, scheduled>>
         \/ /\ ks \subseteq ctx[c].events
            /\ \A d \in Contexts : d # c => ctx'[d] = ctx[d]
            /\ ctx'[c].events = ctx[c].events \ ks
            /\ ctx'[c].sched = ctx[c].sched \ ks
            /\ ctx'[c].fn = ctx[c].fn
            /\ Schedule(WaitersOf(c, ks))
BY DEF Trigger, Triggered, TypeOK

LEMMA SchedulerStep ==
  ASSUME TypeOK, fault = "none" => HasScheduler, [Next]_vars, fault' = "none"
  PROVE  HasScheduler'
<1>1. CASE UNCHANGED vars
  BY <1>1 DEF vars, HasScheduler
<1>2. CASE Next
  <2> HasScheduler /\ fault = "none"
    BY <1>2 DEF Next
  <2>1. CASE UNCHANGED <<ctx, fate, scheduled>>
    BY <2>1 DEF HasScheduler
  <2>2. ASSUME NEW u \in Users, AddLocked(u), ~Refused(u) PROVE HasScheduler'
    <3>1. PICK c \in Contexts, k \in Kinds, w \in Waiters : Adds(u, c, k, w)
      BY <2>2, AddedContext
    <3>2. /\ \A d \in Contexts : d # c => ctx'[d] = ctx[d]
          /\ ctx'[c].events = ctx[c].events \cup {k}
          /\ ctx'[c].sched = ctx[c].sched \cup {k}
      BY <3>1 DEF Adds
    <3>3. QED
      BY <3>2 DEF HasScheduler
  <2>3. ASSUME NEW u \in Users, DelLocked(u), ~Refused(u) PROVE HasScheduler'
    <3>1. \E c \in Contexts, k \in Kinds :
            /\ \A d \in Contexts : d # c => ctx'[d] = ctx[d]
            /\ ctx'[c].events = ctx[c].events \ {k}
            /\ ctx'[c].sched = ctx[c].sched \ {k}
      BY <2>3, DeletedContext
    <3>2. QED
      BY <3>1 DEF HasScheduler
  <2>4. ASSUME NEW c \in Contexts, NEW ks \in SUBSET Kinds, Trigger(c, ks)
        PROVE  HasScheduler'
    <3>1. CASE UNCHANGED <<ctx, scheduled>>
      BY <3>1 DEF HasScheduler
    <3>2. CASE ~UNCHANGED <<ctx, scheduled>>
      <4>1. /\ \A d \in Contexts : d # c => ctx'[d] = ctx[d]
            /\ ctx'[c].events = ctx[c].events \ ks
            /\ ctx'[c].sched = ctx[c].sched \ ks
        BY <2>4, <3>2, TriggeredContext
      <4>2. QED
        BY <4>1 DEF HasScheduler
    <3>3. QED
      BY <3>1, <3>2
  <2>5. QED
    BY <1>2, <2>1, <2>2, <2>3, <2>4, StepKinds
<1>3. QED
  BY <1>1, <1>2

\* A step that leaves the events that have a scheduler as they are.
LEMMA SameArmed ==
  ASSUME TypeOK,
         \A c \in Contexts :
           ctx'[c].events \cap ctx'[c].sched = ctx[c].events \cap ctx[c].sched,
         \A c \in Contexts : \A k \in ctx[c].events \cap ctx[c].sched :
           ctx'[c].fn[k] = ctx[c].fn[k],
         Deleted' = Deleted, UNCHANGED scheduled
  PROVE  UNCHANGED Promise!vars
<1>1. Armed' = Armed
  BY DEF Armed
<1>2. QED
  BY <1>1 DEF Deleted, Promise!vars

\* The waiters that are armed are those of the registered events.
LEMMA ArmedIsRegistered ==
  ASSUME TypeOK, HasScheduler, NEW w \in Waiters
  PROVE  w \in Armed <=>
           \E c \in Contexts, k \in Kinds : Holds(c, k) /\ ctx[c].fn[k] = w
BY DEF Armed, HasScheduler, Holds, TypeOK

\* addEvent() promises to schedule its waiter; if its assertion fails, the event
\* gets no scheduler.
LEMMA AddPromises ==
  ASSUME TypeOK, WakeInv, HasScheduler, fault = "none", TypeOK',
         fault' = "none" => HasScheduler',
         NEW u \in Users, AddLocked(u), ~Refused(u)
  PROVE  [Promise!Next]_(Promise!vars)
<1> PICK c \in Contexts, k \in Kinds, w \in Waiters : Adds(u, c, k, w)
  BY AddedContext
<1>1. /\ call[u].op = "add" /\ w = call[u].waiter
      /\ UNCHANGED scheduled
      /\ \A d \in Contexts : d # c => ctx'[d] = ctx[d]
      /\ ctx'[c].events = ctx[c].events \cup {k}
      /\ \/ /\ fault' = fault
            /\ k \notin ctx[c].sched
            /\ ctx'[c].sched = ctx[c].sched \cup {k}
            /\ \A l \in Kinds : ctx'[c].fn[l] = IF l = k THEN w ELSE ctx[c].fn[l]
            /\ fate' = [fate EXCEPT ![w] = "armed"]
         \/ /\ fault' # "none" /\ UNCHANGED fate
            /\ ctx'[c].sched = ctx[c].sched /\ ctx'[c].fn = ctx[c].fn
  BY DEF Adds
<1>2. CASE fault' # "none"
  <2>1. ctx'[c].sched = ctx[c].sched /\ ctx'[c].fn = ctx[c].fn /\ UNCHANGED fate
    BY <1>1, <1>2
  <2>2. \A d \in Contexts : ctx'[d].fn = ctx[d].fn /\
          ctx'[d].events \cap ctx'[d].sched = ctx[d].events \cap ctx[d].sched
    BY <1>1, <2>1 DEF HasScheduler
  <2>3. Deleted' = Deleted
    BY <2>1 DEF Deleted
  <2>4. QED
    BY <1>1, <2>2, <2>3, SameArmed
<1>3. CASE fault' = "none"
  <2>1. /\ k \notin ctx[c].events
        /\ \A l \in Kinds : ctx'[c].fn[l] = IF l = k THEN w ELSE ctx[c].fn[l]
        /\ fate' = [fate EXCEPT ![w] = "armed"]
    BY <1>1, <1>3 DEF HasScheduler
  <2>2. fate[w] = "new" /\ scheduled[w] = 0
    BY <1>1 DEF WakeInv, CallsBringNew, WokenOrRegistered
  <2>3. \A d \in Contexts, l \in Kinds :
          /\ Holds(d, l)' <=> Holds(d, l) \/ (d = c /\ l = k)
          /\ ctx'[d].fn[l] = IF d = c /\ l = k THEN w ELSE ctx[d].fn[l]
    BY <1>1, <2>1 DEF Holds
  <2>4. \A x \in Waiters : x \in Armed' <=>
          \E d \in Contexts, l \in Kinds : Holds(d, l)' /\ ctx'[d].fn[l] = x
    BY <1>3, ArmedIsRegistered DEF Armed, HasScheduler, Holds, TypeOK
  <2>5. w \notin Armed
    BY <2>2, ArmedIsRegistered DEF WakeInv, RegisteredIsArmed
  <2>6. \A x \in Waiters : x \in Armed' <=> x \in Armed \/ x = w
    <3>1. ~Holds(c, k)
      BY <2>1 DEF Holds
    <3>2. QED
      BY <2>3, <2>4, <3>1, ArmedIsRegistered
  <2>7. Armed' = Armed \cup {w}
    BY <2>6 DEF Armed
  <2>8. Deleted' = Deleted /\ w \notin Deleted
    BY <2>1, <2>2 DEF Deleted, TypeOK
  <2>9. Promise!Register(w)
    BY <1>1, <2>2, <2>5, <2>7, <2>8 DEF Promise!Register, Deleted
  <2>10. QED
    BY <2>9 DEF Promise!Next
<1>4. QED
  BY <1>2, <1>3

\* delEvent() takes the promise back, if the event is registered.
LEMMA DelPromises ==
  ASSUME TypeOK, WakeInv, HasScheduler, NEW u \in Users, DelLocked(u), ~Refused(u)
  PROVE  [Promise!Next]_(Promise!vars)
<1>1. PICK c \in Contexts, k \in Kinds :
        /\ UNCHANGED <<scheduled, fault>>
        /\ \A d \in Contexts : d # c => ctx'[d] = ctx[d]
        /\ ctx'[c].events = ctx[c].events \ {k}
        /\ ctx'[c].sched = ctx[c].sched \ {k}
        /\ \A l \in Kinds : l # k => ctx'[c].fn[l] = ctx[c].fn[l]
        /\ fate' = [w \in Waiters |->
             IF k \in ctx[c].events /\ w = ctx[c].fn[k] THEN "deleted"
             ELSE fate[w]]
  BY DeletedContext
<1>2. CASE k \notin ctx[c].events
  <2>1. \A d \in Contexts :
          ctx'[d].events \cap ctx'[d].sched = ctx[d].events \cap ctx[d].sched
    BY <1>1, <1>2 DEF HasScheduler
  <2>2. \A d \in Contexts : \A l \in ctx[d].events \cap ctx[d].sched :
          ctx'[d].fn[l] = ctx[d].fn[l]
    BY <1>1, <1>2 DEF TypeOK
  <2>3. Deleted' = Deleted
    BY <1>1, <1>2 DEF Deleted
  <2>4. QED
    BY <1>1, <2>1, <2>2, <2>3, SameArmed
<1>3. CASE k \in ctx[c].events
  <2>1. Holds(c, k)
    BY <1>3 DEF Holds
  <2>2. PICK x \in Waiters : x = ctx[c].fn[k]
    BY <2>1 DEF WakeInv, RegisteredIsArmed
  <2>3. \A d \in Contexts, l \in Kinds :
          /\ Holds(d, l)' <=> Holds(d, l) /\ ~(d = c /\ l = k)
          /\ ~(d = c /\ l = k) => ctx'[d].fn[l] = ctx[d].fn[l]
    BY <1>1 DEF Holds
  <2>4. \A d \in Contexts, l \in Kinds :
          Holds(d, l) /\ ctx[d].fn[l] = x => d = c /\ l = k
    BY <2>1, <2>2 DEF WakeInv, NotShared
  <2>5. \A w \in Waiters : w \in Armed' <=>
          \E d \in Contexts, l \in Kinds : Holds(d, l)' /\ ctx'[d].fn[l] = w
    <3>1. \A d \in Contexts : /\ ctx'[d].events \cap ctx'[d].sched = ctx'[d].events
                              /\ ctx'[d].events \subseteq Kinds
      BY <1>1 DEF HasScheduler, TypeOK
    <3>2. QED
      BY <3>1 DEF Armed, Holds
  <2>6. \A w \in Waiters : w \in Armed' <=> w \in Armed /\ w # x
    BY <2>2, <2>3, <2>4, <2>5, ArmedIsRegistered
  <2>7. x \in Armed
    BY <2>1, <2>2, ArmedIsRegistered
  <2>8. Armed' = Armed \ {x}
    BY <2>6 DEF Armed
  <2>9. Deleted' = Deleted \cup {x}
    BY <1>1, <1>3, <2>2 DEF Deleted
  <2>10. Promise!Revoke(x)
    BY <1>1, <2>7, <2>8, <2>9 DEF Promise!Revoke, Deleted
  <2>11. QED
    BY <2>10 DEF Promise!Next
<1>4. QED
  BY <1>2, <1>3

\* triggerEvent() keeps the promises of its events; if its assertion fails, it
\* has done nothing.
LEMMA TriggerPromises ==
  ASSUME TypeOK, WakeInv, HasScheduler, NEW c \in Contexts,
         NEW ks \in SUBSET Kinds, Trigger(c, ks), UNCHANGED fate
  PROVE  [Promise!Next]_(Promise!vars)
<1>1. CASE UNCHANGED <<ctx, scheduled>>
  BY <1>1 DEF Promise!vars, Armed
<1>2. CASE ~UNCHANGED <<ctx, scheduled>>
  <2>1. /\ ks \subseteq ctx[c].events
        /\ \A d \in Contexts : d # c => ctx'[d] = ctx[d]
        /\ ctx'[c].events = ctx[c].events \ ks
        /\ ctx'[c].sched = ctx[c].sched \ ks
        /\ ctx'[c].fn = ctx[c].fn
        /\ Schedule(WaitersOf(c, ks))
    BY <1>2, TriggeredContext
  <2>2. \A k \in ks : Holds(c, k) /\ ctx[c].fn[k] \in Waiters
                      /\ scheduled[ctx[c].fn[k]] = 0
    BY <2>1 DEF WakeInv, RegisteredIsArmed, Holds
  <2>3. PICK S \in SUBSET Waiters : S = WaitersOf(c, ks)
    BY <2>2 DEF WaitersOf
  <2>4. \A w \in Waiters : w \in S <=> \E k \in ks : ctx[c].fn[k] = w
    BY <2>2, <2>3, EventConstants DEF WaitersOf
  <2>5. \A d \in Contexts, l \in Kinds :
          /\ Holds(d, l)' <=> Holds(d, l) /\ ~(d = c /\ l \in ks)
          /\ ctx'[d].fn[l] = ctx[d].fn[l]
    BY <2>1 DEF Holds
  <2>6. \A w \in Waiters : w \in Armed' <=>
          \E d \in Contexts, l \in Kinds : Holds(d, l)' /\ ctx'[d].fn[l] = w
    <3>1. \A d \in Contexts : ctx[d].sched = ctx[d].events /\ ctx[d].events \subseteq Kinds
      BY DEF HasScheduler, TypeOK
    <3>2. ctx'[c].sched = ctx'[c].events /\ ctx'[c].events \subseteq Kinds
      BY <2>1, <3>1
    <3>3. \A d \in Contexts : ctx'[d].sched = ctx'[d].events /\ ctx'[d].events \subseteq Kinds
      BY <2>1, <3>1, <3>2
    <3>4. QED
      BY <3>3 DEF Armed, Holds
  <2>7. \A w \in Waiters : w \in Armed' <=> w \in Armed /\ w \notin S
    <3> SUFFICES ASSUME NEW w \in Waiters
                 PROVE  w \in Armed' <=> w \in Armed /\ w \notin S
      OBVIOUS
    <3>1. ASSUME w \in S
          PROVE  \A d \in Contexts, l \in Kinds :
                   Holds(d, l) /\ ctx[d].fn[l] = w => d = c /\ l \in ks
      BY <2>2, <2>4, <3>1 DEF WakeInv, NotShared
    <3>2. QED
      BY <2>4, <2>5, <2>6, <3>1, ArmedIsRegistered
  <2>8. S \subseteq Armed
    BY <2>2, <2>4, ArmedIsRegistered
  <2>9. Armed' = Armed \ S
    BY <2>7 DEF Armed
  <2>10. scheduled' = [w \in Waiters |-> IF w \in S THEN scheduled[w] + 1
                                         ELSE scheduled[w]]
    <3>1. \A w \in Waiters : w \in S => scheduled[w] = 0
      BY <2>2, <2>4
    <3>2. QED
      BY <2>1, <2>3, <3>1 DEF Schedule
  <2>11. Promise!Trigger(S)
    BY <2>8, <2>9, <2>10 DEF Promise!Trigger
  <2>12. QED
    BY <2>11 DEF Promise!Next
<1>3. QED
  BY <1>1, <1>2

LEMMA PromiseInit == Init => Promise!Init
<1> SUFFICES ASSUME Init PROVE Promise!Init
  OBVIOUS
<1>1. Armed = {}
  BY DEF Init, NewContext, Armed
<1>2. QED
  BY <1>1 DEF Init, Promise!Init

LEMMA PromiseStep ==
  ASSUME IInv, fault = "none" => HasScheduler, [Next]_vars,
         TypeOK', fault' = "none" => HasScheduler'
  PROVE  [Promise!Next]_(Promise!vars)
<1>1. CASE UNCHANGED vars
  BY <1>1 DEF vars, Promise!vars, Armed
<1>2. CASE Next
  <2> TypeOK /\ WakeInv /\ HasScheduler /\ fault = "none"
    BY <1>2 DEF Next, IInv
  <2>1. CASE UNCHANGED <<ctx, fate, scheduled>>
    BY <2>1 DEF Promise!vars, Armed
  <2>2. QED
    BY <1>2, <2>1, StepKinds, AddPromises, DelPromises, TriggerPromises
<1>3. QED
  BY <1>1, <1>2

\* The registration of events implements Promises, for any number of descriptors,
\* contexts, threads and stale batches: each waiter is scheduled once or dropped.
THEOREM EventsKeepPromises == Spec => ImplementsPromises
<1> DEFINE SchedInv == fault = "none" => HasScheduler
<1>1. Init => SchedInv
  <2>1. Init => \A c \in Contexts : ctx[c] = NewContext
    BY DEF Init
  <2>2. NewContext.sched = NewContext.events
    BY DEF NewContext
  <2>3. QED
    BY <2>1, <2>2 DEF HasScheduler
<1>2. IInv /\ SchedInv /\ [Next]_vars => SchedInv'
  BY SchedulerStep DEF IInv
<1>3. IInv /\ IInv' /\ SchedInv /\ SchedInv' /\ [Next]_vars
        => [Promise!Next]_(Promise!vars)
  BY PromiseStep DEF IInv
<1> HIDE DEF SchedInv
<1>4. QED
  BY <1>1, <1>2, <1>3, Invariance, PromiseInit, PTL
     DEF Spec, ImplementsPromises, Promise!Spec

(***************************************************************************)
(* What a triggered event leaves behind.                                   *)
(***************************************************************************)
\* triggerEvent() leaves the callback or fiber of its event in the
\* FdContext, and nothing else is ever left there: a waiter without an event was
\* scheduled.
Leftover ==
  \A c \in Contexts, k \in Kinds :
    ctx[c].fn[k] \in Waiters /\ ~Holds(c, k) => scheduled[ctx[c].fn[k]] # 0

\* The calls of addEvent() are for different events, ...
CalledOnce ==
  \A u, v \in Users :
    /\ call[u].op = "add" /\ call[v].op = "add"
    /\ call[u].fd = call[v].fd /\ call[u].kind = call[v].kind
    => u = v

\* ... which are not registered in the context that they have found, or will
\* find when they have extended the table.
FreshAt(f, k, g) ==
  /\ g <= made[f]
  /\ g # 0 => ~Holds(<<f, g>>, k)
  /\ g = 0 /\ table[f] # 0 => ~Holds(<<f, table[f]>>, k)

CalledFresh ==
  \A u \in Users : call[u].op = "add" =>
    FreshAt(call[u].fd, call[u].kind, call[u].gen)

\* Contexts that are not allocated yet have no events.
UnmadeAreEmpty ==
  \A f \in Fds :
    /\ table[f] <= made[f]
    /\ \A g \in 1 .. MaxGen : g > made[f] => ctx[<<f, g>>].events = {}

CallInv == CalledOnce /\ CalledFresh /\ UnmadeAreEmpty

\* A step that only takes events away, and begins no addEvent().
LEMMA ShrinkKeepsCalls ==
  ASSUME TypeOK, CallInv, UNCHANGED table_vars,
         \A c \in Contexts : ctx'[c].events \subseteq ctx[c].events,
         \A v \in Users : call'[v].op = "add" => call'[v] = call[v]
  PROVE  CallInv'
<1>1. CalledOnce'
  BY DEF CallInv, CalledOnce
<1>2. \A f \in Fds : \A g \in 1 .. MaxGen :
        ctx'[<<f, g>>].events \subseteq ctx[<<f, g>>].events
  BY DEF Contexts
<1>3. UnmadeAreEmpty'
  BY <1>2 DEF CallInv, UnmadeAreEmpty, table_vars
<1>4. CalledFresh'
  <2> SUFFICES ASSUME NEW u \in Users, call'[u].op = "add", NEW f, NEW k, NEW g,
                      f = call'[u].fd, k = call'[u].kind, g = call'[u].gen
               PROVE  FreshAt(f, k, g)'
    BY DEF CalledFresh, FreshAt, Holds
  <2>1. call'[u] = call[u] /\ call[u].op = "add" /\ UNCHANGED <<table, made>>
    BY DEF table_vars
  <2>2. f \in Fds /\ g \in 0 .. MaxGen /\ table[f] \in 0 .. MaxGen
    BY <2>1, CallFacts DEF TypeOK
  <2>3. FreshAt(f, k, g)
    BY <2>1 DEF CallInv, CalledFresh
  <2>4. \A h \in 1 .. MaxGen : Holds(<<f, h>>, k)' => Holds(<<f, h>>, k)
    BY <1>2, <2>2 DEF Holds
  <2>5. (g # 0 => g \in 1 .. MaxGen) /\ (table[f] # 0 => table[f] \in 1 .. MaxGen)
    BY <2>2, EventConstants
  <2>6. QED
    BY <2>1, <2>3, <2>4, <2>5 DEF FreshAt, Holds
<1>5. QED
  BY <1>1, <1>3, <1>4 DEF CallInv

\* addEvent() begins only if nobody else registers the event.
LEMMA AddKeepsCalls ==
  ASSUME TypeOK, CallInv, NEW u \in Users, NEW f \in Fds, NEW k \in Kinds,
         NEW w \in Waiters, Add(u, f, k, w)
  PROVE  CallInv'
<1> DEFINE new == [op |-> "add", fd |-> f, kind |-> k, waiter |-> w,
                   gen |-> table[f]]
<1>1. /\ \A v \in Users : call'[v] = IF v = u THEN new ELSE call[v]
      /\ UNCHANGED <<table, made, ctx>>
      /\ table[f] # 0 => ~Holds(<<f, table[f]>>, k)
      /\ \A v \in Users : ~(call[v].op = "add" /\ call[v].fd = f /\ call[v].kind = k)
  BY DEF Add, Lookup, Callers, Holds, table_vars, TypeOK
<1>2. new.op = "add" /\ new.fd = f /\ new.kind = k /\ new.gen = table[f]
  OBVIOUS
<1> HIDE DEF new
<1>3. CalledOnce'
  BY <1>1, <1>2 DEF CallInv, CalledOnce
<1>4. UnmadeAreEmpty'
  BY <1>1 DEF CallInv, UnmadeAreEmpty
<1>5. table[f] <= made[f]
  BY DEF CallInv, UnmadeAreEmpty
<1>6. CalledFresh'
  BY <1>1, <1>2, <1>5 DEF CallInv, CalledFresh, FreshAt, Holds
<1>7. QED
  BY <1>3, <1>4, <1>6 DEF CallInv

\* The table grows by contexts without events.
LEMMA GrowKeepsCalls ==
  ASSUME TypeOK, CallInv, NEW u \in Users, Grow(u)
  PROVE  CallInv'
<1> DEFINE n == (call[u].fd * 3) \div 2
           new == {f \in Fds : f < n /\ table[f] = 0}
<1>1. /\ call[u].op = "add" /\ call[u].gen = 0 /\ UNCHANGED ctx
      /\ \A f \in new : made[f] < MaxGen
      /\ made' = [f \in Fds |-> IF f \in new THEN made[f] + 1 ELSE made[f]]
      /\ table' = [f \in Fds |-> IF f >= n THEN 0
                                 ELSE IF f \in new THEN made[f] + 1 ELSE table[f]]
      /\ call' = [call EXCEPT ![u].gen = table'[call[u].fd]]
  BY DEF Grow
<1> HIDE DEF new, n
<1>2. \A f \in Fds : made[f] \in 0 .. MaxGen /\ table[f] \in 0 .. MaxGen
  BY DEF TypeOK
<1>3. \A f \in Fds :
        /\ made'[f] \in Int /\ made[f] <= made'[f] /\ table'[f] <= made'[f]
        /\ \/ table'[f] = 0 \/ table'[f] = table[f]
           \/ table'[f] \in 1 .. MaxGen /\ table'[f] > made[f]
  <2> SUFFICES ASSUME NEW f \in Fds
               PROVE  /\ made'[f] \in Int /\ made[f] <= made'[f]
                      /\ table'[f] <= made'[f]
                      /\ \/ table'[f] = 0 \/ table'[f] = table[f]
                         \/ table'[f] \in 1 .. MaxGen /\ table'[f] > made[f]
    OBVIOUS
  <2>1. table[f] <= made[f] /\ made[f] \in 0 .. MaxGen /\ MaxGen \in Nat
    BY <1>2, EventConstants DEF CallInv, UnmadeAreEmpty
  <2>2. CASE f \in new
    BY <1>1, <2>1, <2>2
  <2>3. CASE f \notin new
    BY <1>1, <1>2, <2>1, <2>3
  <2>4. QED
    BY <2>2, <2>3
<1>4. \A f \in Fds, k \in Kinds :
        table'[f] # 0 => \/ ~Holds(<<f, table'[f]>>, k)
                         \/ table[f] # 0 /\ table'[f] = table[f]
  BY <1>3 DEF CallInv, UnmadeAreEmpty, Holds
<1>5. \A v \in Users : call[v].op = "add" =>
        /\ call[v].fd \in Fds /\ call[v].kind \in Kinds
        /\ call[v].gen \in 0 .. MaxGen
  BY CallFacts
<1>6. \A v \in Users :
        /\ call'[v].op = call[v].op /\ call'[v].fd = call[v].fd
        /\ call'[v].kind = call[v].kind
        /\ call'[v].gen = IF v = u THEN table'[call[u].fd] ELSE call[v].gen
  <2>1. call[u] \in CallType
    BY <1>1, CallFacts
  <2>2. \A v \in Users : call'[v] =
          IF v = u THEN [call[u] EXCEPT !.gen = table'[call[u].fd]] ELSE call[v]
    BY <1>1 DEF TypeOK
  <2>3. QED
    BY <2>1, <2>2 DEF CallType
<1>7. CalledOnce'
  BY <1>6 DEF CallInv, CalledOnce
<1>8. UnmadeAreEmpty'
  <2> SUFFICES ASSUME NEW f \in Fds
               PROVE  /\ table'[f] <= made'[f]
                      /\ \A g \in 1 .. MaxGen :
                           g > made'[f] => ctx'[<<f, g>>].events = {}
    BY DEF UnmadeAreEmpty
  <2>1. \A g \in 1 .. MaxGen : g > made'[f] => g > made[f]
    BY <1>2, <1>3
  <2>2. QED
    BY <1>1, <1>3, <2>1 DEF CallInv, UnmadeAreEmpty
<1>9. CalledFresh'
  <2> SUFFICES ASSUME NEW v \in Users, call'[v].op = "add", NEW f, NEW k, NEW g,
                      f = call'[v].fd, k = call'[v].kind, g = call'[v].gen
               PROVE  FreshAt(f, k, g)'
    BY DEF CalledFresh, FreshAt, Holds
  <2>1. /\ call[v].op = "add" /\ call[v].fd = f /\ call[v].kind = k
        /\ f \in Fds /\ k \in Kinds /\ call[v].gen \in 0 .. MaxGen
    BY <1>5, <1>6
  <2>2. FreshAt(f, k, call[v].gen)
    BY <2>1 DEF CallInv, CalledFresh
  <2>3. \A h : Holds(<<f, h>>, k)' <=> Holds(<<f, h>>, k)
    BY <1>1 DEF Holds
  <2>4. call[v].gen = 0 /\ table'[f] # 0 => ~Holds(<<f, table'[f]>>, k)
    BY <1>4, <2>1, <2>2 DEF FreshAt
  <2>5. CASE v = u
    <3>1. g = table'[f] /\ call[v].gen = 0
      BY <1>1, <1>6, <2>1, <2>5
    <3>2. QED
      BY <1>3, <2>1, <2>3, <2>4, <3>1 DEF FreshAt, Holds
  <2>6. CASE v # u
    <3>1. g = call[v].gen
      BY <1>6, <2>6
    <3>2. g <= made'[f]
      BY <1>2, <1>3, <2>1, <2>2, <3>1 DEF FreshAt
    <3>3. QED
      BY <2>2, <2>3, <2>4, <3>1, <3>2 DEF FreshAt, Holds
  <2>7. QED
    BY <2>5, <2>6
<1>10. QED
  BY <1>7, <1>8, <1>9 DEF CallInv

\* addEvent() registers an event that no other call is for.
LEMMA AddLockedKeepsCalls ==
  ASSUME TypeOK, CallInv, NEW u \in Users, AddLocked(u), ~Refused(u)
  PROVE  CallInv'
<1> PICK c \in Contexts, k \in Kinds, w \in Waiters : Adds(u, c, k, w)
  BY AddedContext
<1>1. /\ c = <<call[u].fd, call[u].gen>> /\ k = call[u].kind
      /\ call[u].op = "add"
      /\ \A d \in Contexts : d # c => ctx'[d] = ctx[d]
      /\ ctx'[c].events = ctx[c].events \cup {k}
  BY DEF Adds
<1>2. UNCHANGED <<table, made>>
  BY DEF AddLocked, table_vars
<1>3. \A v \in Users : call'[v].op = "add" => v # u /\ call'[v] = call[v]
  <2>1. Return(u)
    BY DEF AddLocked
  <2>2. \A v \in Users : v # u => call'[v] = call[v]
    BY <2>1 DEF Return, TypeOK
  <2>3. QED
    BY <2>1, <2>2, ReturnKeepsCalls
<1>4. \A d \in Contexts, l \in Kinds : Holds(d, l)' <=> Holds(d, l) \/ (d = c /\ l = k)
  BY <1>1 DEF Holds
<1>5. CalledOnce'
  BY <1>3 DEF CallInv, CalledOnce
<1>6. UnmadeAreEmpty'
  <2>1. call[u].gen <= made[call[u].fd]
    BY <1>1 DEF CallInv, CalledFresh, FreshAt
  <2>2. ASSUME NEW f \in Fds, NEW g \in 1 .. MaxGen, g > made[f]
        PROVE  ctx'[<<f, g>>].events = {}
    <3>1. <<f, g>> \in Contexts /\ ctx[<<f, g>>].events = {}
      BY <2>2 DEF Contexts, CallInv, UnmadeAreEmpty
    <3>2. <<f, g>> # c
      <4>1. made[f] \in 0 .. MaxGen /\ g \in Int
        BY DEF TypeOK
      <4>2. QED
        BY <1>1, <2>1, <2>2, <4>1
    <3>3. QED
      BY <1>1, <3>1, <3>2
  <2>3. QED
    BY <1>2, <2>2 DEF CallInv, UnmadeAreEmpty
<1>7. CalledFresh'
  <2> SUFFICES ASSUME NEW v \in Users, call'[v].op = "add", NEW f, NEW l, NEW g,
                      f = call'[v].fd, l = call'[v].kind, g = call'[v].gen
               PROVE  FreshAt(f, l, g)'
    BY DEF CalledFresh, FreshAt, Holds
  <2>1. v # u /\ call'[v] = call[v] /\ call[v].op = "add"
    BY <1>3
  <2>2. f \in Fds /\ l \in Kinds /\ g \in 0 .. MaxGen
    BY <2>1, CallFacts
  <2>3. f # call[u].fd \/ l # k
    BY <1>1, <2>1, <2>2 DEF CallInv, CalledOnce
  <2>4. \A h \in 1 .. MaxGen : Holds(<<f, h>>, l)' => Holds(<<f, h>>, l)
    <3>1. \A h \in 1 .. MaxGen : <<f, h>> \in Contexts
      BY <2>2 DEF Contexts
    <3>2. QED
      BY <1>1, <1>4, <2>2, <2>3, <3>1
  <2>5. FreshAt(f, l, g)
    BY <2>1 DEF CallInv, CalledFresh
  <2>6. (g # 0 => g \in 1 .. MaxGen) /\ (table[f] # 0 => table[f] \in 1 .. MaxGen)
    BY <2>2, EventConstants DEF TypeOK
  <2>7. QED
    BY <1>2, <2>4, <2>5, <2>6 DEF FreshAt, Holds
<1>8. QED
  BY <1>5, <1>6, <1>7 DEF CallInv

LEMMA CallStep == TypeOK /\ CallInv /\ [Next]_vars => CallInv'
<1> SUFFICES ASSUME TypeOK, CallInv, [Next]_vars PROVE CallInv'
  OBVIOUS
<1>1. CASE UNCHANGED vars
  BY <1>1, ShrinkKeepsCalls DEF vars
<1>2. CASE Next
  <2>1. ASSUME NEW u \in Users, AddLocked(u), ~Refused(u) PROVE CallInv'
    BY <2>1, AddLockedKeepsCalls
  <2>2. ASSUME NEW u \in Users, Grow(u) PROVE CallInv'
    BY <2>2, GrowKeepsCalls
  <2>3. ASSUME NEW u \in Users, NEW f \in Fds, NEW k \in Kinds, NEW w \in Waiters,
               Add(u, f, k, w)
        PROVE  CallInv'
    BY <2>3, AddKeepsCalls
  <2> DEFINE Begins(u) ==
               \/ AddLocked(u) /\ ~Refused(u)
               \/ Grow(u)
               \/ \E f \in Fds, k \in Kinds, w \in Waiters : Add(u, f, k, w)
  <2>4. CASE ~\E u \in Users : Begins(u)
    <3>1. \A c \in Contexts : ctx'[c].events \subseteq ctx[c].events
      <4>1. ASSUME NEW u \in Users, DelLocked(u), ~Refused(u)
            PROVE  \A c \in Contexts : ctx'[c].events \subseteq ctx[c].events
        <5>1. \E c \in Contexts, k \in Kinds :
                /\ \A d \in Contexts : d # c => ctx'[d] = ctx[d]
                /\ ctx'[c].events = ctx[c].events \ {k}
          BY <4>1, DeletedContext
        <5>2. QED
          BY <5>1
      <4>2. ASSUME NEW c \in Contexts, NEW ks \in SUBSET Kinds, Trigger(c, ks)
            PROVE  \A d \in Contexts : ctx'[d].events \subseteq ctx[d].events
        <5>1. \/ UNCHANGED ctx
              \/ /\ \A d \in Contexts : d # c => ctx'[d] = ctx[d]
                 /\ ctx'[c].events = ctx[c].events \ ks
          BY <4>2, TriggeredContext
        <5>2. QED
          BY <5>1
      <4>3. QED
        BY <1>2, <2>4, <4>1, <4>2, StepKinds
    <3>2. /\ UNCHANGED table_vars
          /\ \A v \in Users : call'[v].op = "add" => call'[v] = call[v]
      <4>1. ASSUME NEW u \in Users, Return(u)
            PROVE  \A v \in Users : call'[v].op = "add" => call'[v] = call[v]
        <5>1. \A v \in Users : v # u => call'[v] = call[v]
          BY <4>1 DEF Return, TypeOK
        <5>2. QED
          BY <4>1, <5>1, ReturnKeepsCalls
      <4>2. ASSUME NEW u \in Users, NEW f \in Fds, NEW k \in Kinds,
                   NEW op \in Ops \ {"add"}, Lookup(u, op, f, k, None)
            PROVE  \A v \in Users : call'[v].op = "add" => call'[v] = call[v]
        BY <4>2 DEF Lookup, TypeOK
      <4>3. ASSUME NEW u \in Users, UserStep(u)
            PROVE  UNCHANGED table_vars /\ (UNCHANGED call \/ Return(u)
                     \/ \E f \in Fds, k \in Kinds, op \in Ops \ {"add"} :
                          Lookup(u, op, f, k, None))
        <5>1. CASE \E f \in Fds, k \in Kinds, op \in Ops \ {"add"} :
                     Lookup(u, op, f, k, None)
          BY <5>1 DEF Lookup
        <5>2. CASE AddLocked(u) \/ DelLocked(u) \/ CancelLocked(u)
                     \/ CancelAllLocked(u)
          BY <5>2
             DEF AddLocked, DelLocked, CancelLocked, CancelAllLocked, Refused
        <5>3. QED
          BY <2>4, <4>3, <5>1, <5>2 DEF UserStep
      <4>4. (\E i \in Idlers : IdleStep(i)) \/ Environment
              => UNCHANGED <<table_vars, call>>
        BY DEF IdleStep, EpollWait, Handle, Environment, BecomesReady, IsDrained
      <4>5. QED
        BY <1>2, <4>1, <4>2, <4>3, <4>4 DEF Next
    <3>3. QED
      BY <3>1, <3>2, ShrinkKeepsCalls
  <2>5. QED
    BY <2>1, <2>2, <2>3, <2>4
<1>3. QED
  BY <1>1, <1>2

LEMMA LeftoverStep ==
  ASSUME IInv, fault = "none" => Leftover, [Next]_vars, fault' = "none"
  PROVE  Leftover'
<1>1. CASE UNCHANGED vars
  BY <1>1 DEF vars, Leftover, Holds
<1>2. CASE Next
  <2> TypeOK /\ WakeInv /\ Leftover
    BY <1>2 DEF Next, IInv
  <2>1. CASE UNCHANGED <<ctx, fate, scheduled>>
    BY <2>1 DEF Leftover, Holds
  <2>2. ASSUME NEW u \in Users, AddLocked(u), ~Refused(u) PROVE Leftover'
    <3>1. PICK c \in Contexts, k \in Kinds, w \in Waiters : Adds(u, c, k, w)
      BY <2>2, AddedContext
    <3>2. /\ UNCHANGED scheduled
          /\ \A d \in Contexts : d # c => ctx'[d] = ctx[d]
          /\ ctx'[c].events = ctx[c].events \cup {k}
          /\ \A l \in Kinds : l # k => ctx'[c].fn[l] = ctx[c].fn[l]
      BY <3>1 DEF Adds
    <3>3. QED
      BY <3>2 DEF Leftover, Holds
  <2>3. ASSUME NEW u \in Users, DelLocked(u), ~Refused(u) PROVE Leftover'
    <3>1. PICK c \in Contexts, k \in Kinds :
            /\ UNCHANGED scheduled
            /\ \A d \in Contexts : d # c => ctx'[d] = ctx[d]
            /\ ctx'[c].events = ctx[c].events \ {k}
            /\ \A l \in Kinds : l # k => ctx'[c].fn[l] = ctx[c].fn[l]
            /\ ctx'[c].fn[k] = None
      BY <2>3, DeletedContext
    <3>2. SUFFICES ASSUME NEW d \in Contexts, NEW l \in Kinds,
                          ctx'[d].fn[l] \in Waiters, l \notin ctx'[d].events
                   PROVE  scheduled[ctx'[d].fn[l]] # 0
      BY <3>1 DEF Leftover, Holds
    <3>3. <<d, l>> # <<c, k>>
      BY <3>1, <3>2, EventConstants
    <3>4. ctx'[d].fn[l] = ctx[d].fn[l] /\ l \notin ctx[d].events
      BY <3>1, <3>2, <3>3
    <3>5. QED
      BY <3>2, <3>4 DEF Leftover, Holds
  <2>4. ASSUME NEW c \in Contexts, NEW ks \in SUBSET Kinds, Trigger(c, ks),
               ~UNCHANGED <<ctx, scheduled>>
        PROVE  Leftover'
    <3>1. /\ ks \subseteq ctx[c].events
          /\ \A d \in Contexts : d # c => ctx'[d] = ctx[d]
          /\ ctx'[c].events = ctx[c].events \ ks
          /\ ctx'[c].fn = ctx[c].fn
          /\ Schedule(WaitersOf(c, ks))
      BY <2>4, TriggeredContext
    <3>2. \A w \in Waiters : scheduled[w] \in 0 .. 2
      BY DEF TypeOK
    <3>3. \A w \in Waiters :
            scheduled[w] # 0 \/ w \in WaitersOf(c, ks) => scheduled'[w] # 0
      BY <3>1, <3>2 DEF Schedule
    <3>4. \A d \in Contexts, l \in Kinds :
            /\ ctx'[d].fn[l] = ctx[d].fn[l]
            /\ Holds(d, l) /\ ~Holds(d, l)' => d = c /\ l \in ks
      BY <3>1 DEF Holds
    <3>5. \A l \in ks : ctx[c].fn[l] \in Waiters => ctx[c].fn[l] \in WaitersOf(c, ks)
      BY EventConstants DEF WaitersOf
    <3> SUFFICES ASSUME NEW d \in Contexts, NEW l \in Kinds,
                        ctx'[d].fn[l] \in Waiters, ~Holds(d, l)'
                 PROVE  scheduled'[ctx'[d].fn[l]] # 0
      BY DEF Leftover
    <3>6. CASE Holds(d, l)
      BY <3>3, <3>4, <3>5, <3>6
    <3>7. CASE ~Holds(d, l)
      BY <3>3, <3>4, <3>7 DEF Leftover
    <3>8. QED
      BY <3>6, <3>7
  <2>5. CASE UNCHANGED <<ctx, scheduled>>
    BY <2>5 DEF Leftover, Holds
  <2>6. QED
    BY <1>2, <2>1, <2>2, <2>3, <2>4, <2>5, StepKinds
<1>3. QED
  BY <1>1, <1>2

\* No event is registered where one was triggered before.
RegistersAfresh ==
  \A u \in Users : AddLocked(u) =>
    LET w == ctx[<<call[u].fd, call[u].gen>>].fn[call[u].kind] IN
    w \in Waiters => scheduled[w] = 0

LEMMA FreeStep ==
  ASSUME TypeOK, CallInv, HasScheduler, Leftover, fault = "none",
         Next, RegistersAfresh
  PROVE  fault' # "assert_context"
<1>1. CASE fault' = fault
  BY <1>1
<1>2. ASSUME NEW c, NEW ks, Trigger(c, ks) PROVE fault' # "assert_context"
  BY <1>2 DEF Trigger
<1>3. ASSUME NEW u \in Users, AddLocked(u), ~Refused(u) PROVE fault' = fault
  <2> DEFINE c == <<call[u].fd, call[u].gen>>
             k == call[u].kind
  <2>1. c \in Contexts /\ k \in Kinds /\ call[u].op = "add" /\ call[u].gen # 0
    BY <1>3, CallFacts DEF AddLocked
  <2>2. ~Holds(c, k)
    BY <2>1 DEF CallInv, CalledFresh, FreshAt
  <2>3. k \notin ctx[c].sched
    BY <2>1, <2>2 DEF HasScheduler, Holds
  <2>4. ctx[c].fn[k] \notin Waiters
    BY <1>3, <2>1, <2>2 DEF Leftover, RegistersAfresh
  <2>5. ctx[c].fn[k] = None
    BY <2>1, <2>4 DEF TypeOK
  <2>6. QED
    BY <1>3, <2>3, <2>5 DEF AddLocked
<1>4. ASSUME NEW u \in Users, UserStep(u) PROVE fault' # "assert_context"
  <2>1. \/ fault' = fault
        \/ AddLocked(u) /\ ~Refused(u)
        \/ CancelLocked(u) /\ ~Refused(u)
        \/ CancelAllLocked(u) /\ ~Refused(u)
    BY <1>4 DEF UserStep, Add, Lookup, Grow, DelLocked, Refused
  <2>2. CancelLocked(u) /\ ~Refused(u) =>
          Trigger(<<call[u].fd, call[u].gen>>, {call[u].kind})
    BY DEF CancelLocked
  <2>3. CancelAllLocked(u) /\ ~Refused(u) =>
          Trigger(<<call[u].fd, call[u].gen>>,
                  ctx[<<call[u].fd, call[u].gen>>].events)
    BY DEF CancelAllLocked
  <2>4. QED
    BY <1>1, <1>3, <2>1, <2>2, <2>3 DEF Trigger
<1>5. ASSUME NEW i \in Idlers, IdleStep(i) PROVE fault' # "assert_context"
  BY <1>1, <1>5 DEF IdleStep, EpollWait, Handle, Trigger
<1>6. QED
  BY <1>1, <1>4, <1>5 DEF Next, Environment, BecomesReady, IsDrained

\* The assertion of addEvent() that the context of its event is free can only
\* fail because triggerEvent() leaves its waiter behind: while no event is
\* registered where one was triggered before, it never does, although calls that
\* were looked up long ago, extensions of the table and deletions interleave.
THEOREM FreeUnlessTriggered ==
  Spec /\ [][RegistersAfresh]_vars => []ContextIsFree
<1> DEFINE FreeInv ==
             /\ CallInv
             /\ fault = "none" => HasScheduler /\ Leftover
             /\ ContextIsFree
<1>1. Init => FreeInv
  <2> SUFFICES ASSUME Init PROVE FreeInv
    OBVIOUS
  <2>1. \A c \in Contexts : ctx[c] = NewContext
    BY DEF Init
  <2>2. /\ NewContext.events = {} /\ NewContext.sched = {}
        /\ \A k \in Kinds : NewContext.fn[k] = None
    BY DEF NewContext
  <2>3. HasScheduler /\ Leftover
    BY <2>1, <2>2, EventConstants DEF HasScheduler, Leftover
  <2>4. \A f \in Fds, g \in 1 .. MaxGen : ctx[<<f, g>>].events = {}
    BY <2>1, <2>2 DEF Contexts
  <2>5. UnmadeAreEmpty
    BY <2>4 DEF Init, UnmadeAreEmpty
  <2>6. \A u \in Users : call[u].op # "add"
    BY DEF Init, NoCall
  <2>7. QED
    BY <2>3, <2>5, <2>6
       DEF Init, CallInv, CalledOnce, CalledFresh, ContextIsFree
<1>2. IInv /\ FreeInv /\ [Next]_vars /\ [RegistersAfresh]_vars => FreeInv'
  <2> SUFFICES ASSUME IInv, FreeInv, [Next]_vars, [RegistersAfresh]_vars
               PROVE  FreeInv'
    OBVIOUS
  <2>1. CallInv'
    BY CallStep DEF IInv
  <2>2. fault' = "none" => HasScheduler' /\ Leftover'
    BY SchedulerStep, LeftoverStep DEF IInv
  <2>3. ContextIsFree'
    <3>1. CASE UNCHANGED vars
      BY <3>1 DEF vars, ContextIsFree
    <3>2. CASE Next /\ ~UNCHANGED vars
      BY <3>2, FreeStep DEF Next, IInv, ContextIsFree
    <3>3. QED
      BY <3>1, <3>2
  <2>4. QED
    BY <2>1, <2>2, <2>3
<1>3. FreeInv => ContextIsFree
  OBVIOUS
<1> HIDE DEF FreeInv
<1>4. QED
  BY <1>1, <1>2, <1>3, Invariance, PTL DEF Spec

=============================================================================
