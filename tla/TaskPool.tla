------------------------------ MODULE TaskPool ------------------------------
(***************************************************************************)
(* What a scheduler promises to the program that uses it, whatever its     *)
(* threads do: every time a job is scheduled it is executed once more,     *)
(* never by two threads at a time, never after it has ended; and stop()    *)
(* returns when nothing is left to do.  Scheduler and IOScheduler          *)
(* implement it: see ImplementsPool and IOImplementsPool.                  *)
(***************************************************************************)
CONSTANTS
  Jobs,    \* the fibers and callbacks the program may schedule
  Drains   \* does stop() wait for the tasks that any thread may execute?

VARIABLES
  waiting,  \* the jobs that are scheduled and have not been resumed since
  bound,    \* those of them that wait for one certain thread
  running,  \* the jobs that a thread executes
  ended,    \* the jobs that have returned
  stopped   \* stop() has returned

vars == <<waiting, bound, running, ended, stopped>>

Init ==
  /\ waiting = {} /\ bound = {} /\ running = {} /\ ended = {}
  /\ stopped = FALSE

\* schedule(): a job that runs may be scheduled for its next turn.
Schedule(j) ==
  /\ ~stopped
  /\ j \notin waiting \cup ended
  /\ waiting' = waiting \cup {j}
  /\ bound' \in {bound, bound \cup {j}}
  /\ UNCHANGED <<running, ended, stopped>>

\* The thread that a job waits for has come.
Claim(j) ==
  /\ ~stopped
  /\ j \in bound
  /\ bound' = bound \ {j}
  /\ UNCHANGED <<waiting, running, ended, stopped>>

Begin(j) ==
  /\ ~stopped
  /\ j \in waiting \ (bound \cup running)
  /\ waiting' = waiting \ {j}
  /\ running' = running \cup {j}
  /\ UNCHANGED <<bound, ended, stopped>>

\* The job gives the thread back until its next turn, ...
Pause(j) ==
  /\ j \in running \cap waiting
  /\ running' = running \ {j}
  /\ UNCHANGED <<waiting, bound, ended, stopped>>

\* ... or for good.
End(j) ==
  /\ j \in running \ waiting
  /\ running' = running \ {j}
  /\ ended' = ended \cup {j}
  /\ UNCHANGED <<waiting, bound, stopped>>

Stop ==
  /\ ~stopped
  /\ running = {}
  /\ Drains => waiting = bound
  /\ stopped' = TRUE
  /\ UNCHANGED <<waiting, bound, running, ended>>

\* stop() may be called once more, by the destructor for one.
StopAgain ==
  /\ stopped /\ stopped' = FALSE
  /\ UNCHANGED <<waiting, bound, running, ended>>

Next ==
  \/ \E j \in Jobs : Schedule(j) \/ Claim(j) \/ Begin(j) \/ Pause(j) \/ End(j)
  \/ Stop \/ StopAgain

Spec == Init /\ [][Next]_vars

=============================================================================
