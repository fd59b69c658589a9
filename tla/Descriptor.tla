----------------------------- MODULE Descriptor -----------------------------
(***************************************************************************)
(* One descriptor number and what FdManager (fd_manager.cpp) keeps for it: *)
(* the FdCtx that socket() and accept() make, whose constructor makes the  *)
(* descriptor non-blocking, what fcntl() and ioctl() change of both, and   *)
(* how close() deletes it before the number is free for another            *)
(* descriptor.  HookedIO adds the calls that fibers make on the number.    *)
(***************************************************************************)
EXTENDS Integers

CONSTANTS
  Directions,  \* what a timeout is for: receiving, sending
  MaxOpens     \* how often the number is opened (a bound): the last descriptor
               \* that gets it is not closed any more

ASSUME OpensAssumption == MaxOpens \in Nat

VARIABLES
  fd,       \* the descriptor: "free" while nothing has the number
  opens,    \* how often the number was opened
  entry,    \* the opening that the table's FdCtx was made for, 0: no FdCtx
  user,     \* m_userNonblock of that FdCtx
  limits,   \* the directions for which that FdCtx has a timeout
  blocks    \* the descriptor's file status: "no" is O_NONBLOCK; without it, as
            \* it was made or fcntl() left it ("yes"), or as ioctl() did

number == <<fd, opens, entry, user, limits, blocks>>

NumberInit ==
  /\ fd = "free" /\ opens = 0
  /\ entry = 0 /\ user = FALSE /\ limits = {}
  /\ blocks = "yes"

\* socket() and accept(): the system call, after which a thread that hooks
\* nothing is done, ...
Open ==
  /\ fd = "free" /\ opens < MaxOpens
  /\ fd' \in {"opening", "open"}
  /\ opens' = opens + 1
  /\ UNCHANGED <<entry, user, limits, blocks>>

\* ... and get(fd, true): FdCtx::init() makes the descriptor non-blocking, but
\* an FdCtx that the table already has for the number is taken as it is.
Register ==
  /\ fd = "opening" /\ fd' = "open"
  /\ IF entry = 0
     THEN entry' = opens /\ user' = FALSE /\ limits' = {} /\ blocks' = "no"
     ELSE UNCHANGED <<entry, user, limits, blocks>>
  /\ UNCHANGED opens

\* (mutant) the descriptor gets the flags that the program asks for
SetFlagsAsked(nonblock) ==
  /\ fd = "open"
  /\ user' = IF entry = 0 THEN user ELSE nonblock
  /\ blocks' = IF nonblock THEN "no" ELSE "yes"
  /\ UNCHANGED <<fd, opens, entry, limits>>

\* fcntl(F_SETFL): with an FdCtx the descriptor is made non-blocking, whatever
\* the program asks for.
SetFlags(nonblock) ==
  /\ fd = "open"
  /\ user' = IF entry = 0 THEN user ELSE nonblock
  /\ blocks' = IF entry # 0 \/ nonblock THEN "no" ELSE "yes"
  /\ UNCHANGED <<fd, opens, entry, limits>>

\* ioctl(FIONBIO): it is made what the program asks for.
SetFionbio(nonblock) ==
  /\ fd = "open"
  /\ user' = IF entry = 0 THEN user ELSE nonblock
  /\ blocks' = IF nonblock THEN "no" ELSE "ioctl"
  /\ UNCHANGED <<fd, opens, entry, limits>>

\* setsockopt(SO_RCVTIMEO or SO_SNDTIMEO): a timeout of 0, by which a program
\* asks for none, is one of 0 milliseconds.
SetTimeout(d) ==
  /\ fd = "open" /\ entry # 0
  /\ limits' = limits \cup {d}
  /\ UNCHANGED <<fd, opens, entry, user, blocks>>

\* close() of a descriptor with an FdCtx has cancelled its events, ...
StartClose ==
  /\ fd = "open" /\ entry # 0 /\ opens < MaxOpens
  /\ fd' = "cancelled"
  /\ UNCHANGED <<opens, entry, user, limits, blocks>>

\* ... del() deletes its FdCtx.  It copies the table's lock instead of taking
\* it: while get() of another descriptor moves the table, its reset() may be
\* lost.
Delete ==
  /\ fd = "cancelled" /\ fd' = "deleted"
  /\ \/ entry' = 0 /\ user' = FALSE /\ limits' = {}
     \/ UNCHANGED <<entry, user, limits>>
  /\ UNCHANGED <<opens, blocks>>

\* The system call, which is all there is to close() without an FdCtx, or in a
\* thread that hooks nothing.
CloseNumber ==
  /\ fd \in {"open", "deleted"} /\ opens < MaxOpens
  /\ fd' = "free"
  /\ blocks' = "yes"
  /\ UNCHANGED <<opens, entry, user, limits>>

Opening == Open \/ Register

\* What the program sets
Settings ==
  \/ \E nonblock \in BOOLEAN : SetFlags(nonblock) \/ SetFionbio(nonblock)
  \/ \E d \in Directions : SetTimeout(d)

NumberTypeOK ==
  /\ fd \in {"free", "opening", "open", "cancelled", "deleted"}
  /\ opens \in 0 .. MaxOpens /\ entry \in 0 .. opens
  /\ user \in BOOLEAN
  /\ limits \subseteq Directions
  /\ blocks \in {"no", "yes", "ioctl"}

=============================================================================
