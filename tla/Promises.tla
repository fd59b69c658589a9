------------------------------ MODULE Promises ------------------------------
(***************************************************************************)
(* What the timer manager and the event registration promise to a program  *)
(* that gives them a callback or a fiber: from then on it is either handed *)
(* to the scheduler, once, or taken back by the program, and the two       *)
(* exclude each other.  Between the two moments a thread may hold it that  *)
(* has collected it and not scheduled it yet: it cannot be taken back any  *)
(* more.  Timers and IOEvents implement this: see ImplementsPromises there.*)
(***************************************************************************)
EXTENDS Integers

CONSTANTS
  Things   \* what the program registers: each is registered once

VARIABLES
  pending,  \* what is registered
  held,     \* what a thread has collected and will schedule
  fires,    \* thing -> how often it was scheduled
  revoked   \* what the program has taken back

vars == <<pending, held, fires, revoked>>

Init ==
  /\ pending = {} /\ held = {} /\ revoked = {}
  /\ fires = [x \in Things |-> 0]

\* addTimer(), addEvent()
Register(x) ==
  /\ x \notin pending \cup held \cup revoked /\ fires[x] = 0
  /\ pending' = pending \cup {x}
  /\ UNCHANGED <<held, fires, revoked>>

\* Timer::cancel() and delEvent(), if they return true.
Revoke(x) ==
  /\ x \in pending
  /\ pending' = pending \ {x}
  /\ revoked' = revoked \cup {x}
  /\ UNCHANGED <<held, fires>>

\* listExpiredCb() hands some of the timers to the thread that calls it, ...
Collect(S) ==
  /\ S \subseteq pending
  /\ pending' = pending \ S
  /\ held' = held \cup S
  /\ UNCHANGED <<fires, revoked>>

\* ... which schedules their callbacks one by one.
Fire(x) ==
  /\ x \in held
  /\ held' = held \ {x}
  /\ fires' = [fires EXCEPT ![x] = @ + 1]
  /\ UNCHANGED <<pending, revoked>>

\* triggerEvent() does both under one lock, for some events of a descriptor.
Trigger(S) ==
  /\ S \subseteq pending
  /\ pending' = pending \ S
  /\ fires' = [x \in Things |-> IF x \in S THEN fires[x] + 1 ELSE fires[x]]
  /\ UNCHANGED <<held, revoked>>

Next ==
  \/ \E x \in Things : Register(x) \/ Revoke(x) \/ Fire(x)
  \/ \E S \in SUBSET Things : Collect(S) \/ Trigger(S)

Spec == Init /\ [][Next]_vars

=============================================================================
