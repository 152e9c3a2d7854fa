---------------------------- MODULE FrameStream ----------------------------
(***************************************************************************)
(* What internal/stream promises the readers of a session, without the     *)
(* ring, the channels and the lock: a log that only grows, and readers     *)
(* that move along it.  A reader starts anywhere in the log of the time it *)
(* opened and then reads frame after frame; the one place where it may     *)
(* jump is from the past (frames older than its opening) straight to the   *)
(* first frame published after it opened.                                  *)
(***************************************************************************)
EXTENDS Naturals, Sequences

CONSTANTS Readers,
          Frames    \* frames, as their sequence numbers

VARIABLES log,     \* the frames published, oldest first
          opened,  \* the readers that have opened
          mark,    \* the length of the log when each reader opened
          pos,     \* the place in the log of the last frame each reader read
          seen     \* what each reader read

vars == <<log, opened, mark, pos, seen>>

Init ==
  /\ log = <<>>
  /\ opened = {}
  /\ mark = [r \in Readers |-> 0]
  /\ pos = [r \in Readers |-> 0]
  /\ seen = [r \in Readers |-> <<>>]

\* A new frame is later than all before it.
Extend(f) ==
  /\ \A n \in DOMAIN log : log[n] < f
  /\ log' = Append(log, f)
  /\ UNCHANGED <<opened, mark, pos, seen>>

Open(r) ==
  /\ r \notin opened
  /\ opened' = opened \cup {r}
  /\ mark' = [mark EXCEPT ![r] = Len(log)]
  /\ UNCHANGED <<log, pos, seen>>

\* Where r may go from where it is.
NextPlaces(r) ==
  {n \in DOMAIN log :
     \/ seen[r] = <<>> /\ n <= mark[r] + 1
     \/ seen[r] # <<>> /\ n = pos[r] + 1
     \/ pos[r] <= mark[r] /\ n = mark[r] + 1}

Read(r) ==
  /\ r \in opened
  /\ \E n \in NextPlaces(r) :
       /\ pos' = [pos EXCEPT ![r] = n]
       /\ seen' = [seen EXCEPT ![r] = Append(@, log[n])]
  /\ UNCHANGED <<log, opened, mark>>

Next ==
  \/ \E f \in Frames : Extend(f)
  \/ \E r \in Readers : Open(r) \/ Read(r)

Spec == Init /\ [][Next]_vars
=============================================================================
