-------------------------------- MODULE Shell --------------------------------
(***************************************************************************)
(* One bash in a PTY (internal/shell/shell.go), the viewers that attach to  *)
(* it over WebSocket and the requests that delete it (server/shells.go).    *)
(*                                                                         *)
(* Output is counted in chunks, what one Read of the PTY returns; a chunk   *)
(* is its number.  The reader, the reaper, each viewer's handler and each   *)
(* delete request is a process; a section under Shell.mu is one action.     *)
(***************************************************************************)
EXTENDS Naturals, Sequences

CONSTANTS Viewers, Deletes,
          MaxChunks, \* bound on the output
          Scroll,    \* chunks the scrollback keeps
          ChanCap    \* capacity of a viewer's channel

ASSUME ShellAssumption ==
  /\ MaxChunks \in Nat /\ Scroll \in Nat \ {0} /\ ChanCap \in Nat \ {0}

VARIABLES
  proc,       \* the child: none, running, or exited
  doomed,     \* it was sent SIGKILL
  out,        \* chunks it has written to the PTY
  taken,      \* chunks the reader has read from it
  reader,     \* the reader: reads, holds a chunk, or has ended
  kept,       \* chunks that were appended to the scrollback
  ptyOpen,    \* Shell.pty
  reap,       \* the reaper: waits, noticed, closed, done (Done is closed)
  listed,     \* the shell is in the manager's map
  view,       \* where each viewer's handler is
  registered, \* its channel is in Shell.subs
  queue,      \* the chunks in its channel
  closed,     \* its channel is closed
  start,      \* what was kept when it subscribed
  got,        \* the chunks it was sent
  delete,     \* where each delete request is
  atClose,    \* history: what was kept when the reaper closed the channels
  slow        \* history: viewers there that were dropped for being slow

childVars == <<proc, doomed, out>>
readVars == <<taken, reader, kept>>
reapVars == <<ptyOpen, reap, atClose>>
subVars == <<registered, queue, closed, slow>>
viewVars == <<view, start, got>>
vars == <<childVars, readVars, reapVars, listed, subVars, viewVars, delete>>

Init ==
  /\ proc = "none" /\ doomed = FALSE /\ out = 0
  /\ taken = 0 /\ reader = "none" /\ kept = 0
  /\ ptyOpen = FALSE /\ reap = "none" /\ atClose = 0
  /\ listed = FALSE
  /\ view = [v \in Viewers |-> "idle"]
  /\ registered = [v \in Viewers |-> FALSE] /\ queue = [v \in Viewers |-> <<>>]
  /\ closed = [v \in Viewers |-> FALSE] /\ slow = {}
  /\ start = [v \in Viewers |-> 0] /\ got = [v \in Viewers |-> <<>>]
  /\ delete = [d \in Deletes |-> "idle"]

\* The output from the oldest chunk of the scrollback at n, to the chunk last.
Output(n, last) ==
  LET before == IF n > Scroll THEN n - Scroll ELSE 0
  IN  [i \in 1..(last - before) |-> before + i]
Scrollback(n) == Output(n, n)

----------------------------------------------------------------------------
(* The child and its PTY *)

\* Manager.Spawn: start, record, and only then the two goroutines.
Spawn ==
  /\ proc = "none"
  /\ proc' = "running" /\ ptyOpen' = TRUE /\ listed' = TRUE
  /\ reader' = "reads" /\ reap' = "waits"
  /\ UNCHANGED <<doomed, out, taken, kept, atClose, subVars, viewVars, delete>>

\* The child, or what it left running on the PTY.
Prints ==
  /\ proc # "none" /\ ptyOpen /\ out < MaxChunks
  /\ out' = out + 1
  /\ UNCHANGED <<proc, doomed, readVars, reapVars, listed, subVars, viewVars, delete>>

\* By itself or on a signal, which it may ignore unless it is SIGKILL.
Exits ==
  /\ proc = "running"
  /\ proc' = "exited"
  /\ UNCHANGED <<doomed, out, readVars, reapVars, listed, subVars, viewVars, delete>>

Killed == doomed /\ Exits

Reads ==
  /\ reader = "reads" /\ ptyOpen /\ taken < out
  /\ reader' = "holds" /\ taken' = taken + 1
  /\ UNCHANGED <<childVars, kept, reapVars, listed, subVars, viewVars, delete>>

\* Mutant: a full channel loses the chunk and stays.
FanOutSkips ==
  /\ reader = "holds"
  /\ reader' = "reads" /\ kept' = kept + 1
  /\ queue' = [v \in Viewers |->
       IF registered[v] /\ Len(queue[v]) < ChanCap THEN Append(queue[v], kept') ELSE queue[v]]
  /\ UNCHANGED <<childVars, taken, reapVars, listed, registered, closed, slow, viewVars, delete>>

\* Under the lock: to the scrollback and to every channel; a full one is
\* closed and removed.
FanOut ==
  LET full == {v \in Viewers : registered[v] /\ Len(queue[v]) >= ChanCap}
  IN  /\ reader = "holds"
      /\ reader' = "reads" /\ kept' = kept + 1
      /\ queue' = [v \in Viewers |->
           IF registered[v] /\ v \notin full THEN Append(queue[v], kept') ELSE queue[v]]
      /\ registered' = [v \in Viewers |-> registered[v] /\ v \notin full]
      /\ closed' = [v \in Viewers |-> closed[v] \/ v \in full]
      /\ slow' = slow \cup full
      /\ UNCHANGED <<childVars, taken, reapVars, listed, viewVars, delete>>

\* Read fails: the PTY is closed, or the child is gone and all is read.
ReaderEnds ==
  /\ reader = "reads"
  /\ ~ptyOpen \/ (proc = "exited" /\ taken = out)
  /\ reader' = "ended"
  /\ UNCHANGED <<childVars, taken, kept, reapVars, listed, subVars, viewVars, delete>>

ReapNotices ==
  /\ reap = "waits" /\ proc = "exited"
  /\ reap' = "noticed"
  /\ UNCHANGED <<childVars, readVars, ptyOpen, atClose, listed, subVars, viewVars, delete>>

\* Under the lock: the PTY and every channel.
ReapCloses ==
  /\ reap = "noticed"
  /\ reap' = "closed" /\ ptyOpen' = FALSE /\ atClose' = kept
  /\ closed' = [v \in Viewers |-> closed[v] \/ registered[v]]
  /\ registered' = [v \in Viewers |-> FALSE]
  /\ UNCHANGED <<childVars, readVars, listed, queue, slow, viewVars, delete>>

ReapDone ==
  /\ reap = "closed"
  /\ reap' = "done"
  /\ UNCHANGED <<childVars, readVars, ptyOpen, atClose, listed, subVars, viewVars, delete>>

----------------------------------------------------------------------------
(* A viewer: streamShellWS *)

\* The shell is looked up, and the upgrade of the connection takes its time.
Attaches(v) ==
  /\ view[v] = "idle" /\ listed
  /\ view' = [view EXCEPT ![v] = "upgrade"]
  /\ UNCHANGED <<childVars, readVars, reapVars, listed, subVars, start, got, delete>>

\* Shell.Subscribe, also after the shell has ended: copy of the scrollback and
\* registration under one lock.
Subscribes(v) ==
  /\ view[v] = "upgrade"
  /\ view' = [view EXCEPT ![v] = "replay"]
  /\ registered' = [registered EXCEPT ![v] = TRUE]
  /\ start' = [start EXCEPT ![v] = kept]
  /\ UNCHANGED <<childVars, readVars, reapVars, listed, queue, closed, slow, got, delete>>

Replays(v) ==
  /\ view[v] = "replay"
  /\ view' = [view EXCEPT ![v] = "wait"]
  /\ got' = [got EXCEPT ![v] = Scrollback(start[v])]
  /\ UNCHANGED <<childVars, readVars, reapVars, listed, subVars, start, delete>>

\* Writes the next chunk to the viewer.
Passes(v, from, to) ==
  /\ view[v] = from /\ queue[v] # <<>>
  /\ view' = [view EXCEPT ![v] = to]
  /\ got' = [got EXCEPT ![v] = Append(@, Head(queue[v]))]
  /\ queue' = [queue EXCEPT ![v] = Tail(@)]
  /\ UNCHANGED <<childVars, readVars, reapVars, listed, registered, closed, slow, start, delete>>

\* "shell ended".
SeesClosed(v) ==
  /\ view[v] \in {"wait", "drain"} /\ queue[v] = <<>> /\ closed[v]
  /\ view' = [view EXCEPT ![v] = "told"]
  /\ UNCHANGED <<childVars, readVars, reapVars, listed, subVars, start, got, delete>>

\* Mutant: after a ping the handler waits on, without looking at the shell.
PingsOnly(v) ==
  /\ view[v] = "wait"
  /\ UNCHANGED vars

\* Every 25 seconds; the viewer answers.
Pings(v) ==
  /\ view[v] = "wait"
  /\ view' = [view EXCEPT ![v] = "check"]
  /\ UNCHANGED <<childVars, readVars, reapVars, listed, subVars, start, got, delete>>

\* Mutant: a shell that is done ends the stream at once.
ChecksEnds(v) ==
  /\ view[v] = "check"
  /\ view' = [view EXCEPT ![v] = IF reap = "done" THEN "told" ELSE "wait"]
  /\ UNCHANGED <<childVars, readVars, reapVars, listed, subVars, start, got, delete>>

\* After every chunk and ping: is the shell done?
Checks(v) ==
  /\ view[v] = "check"
  /\ view' = [view EXCEPT ![v] = IF reap = "done" THEN "drain" ELSE "wait"]
  /\ UNCHANGED <<childVars, readVars, reapVars, listed, subVars, start, got, delete>>

\* "shell exited", 200 ms later at most.
DrainTimer(v) ==
  /\ view[v] = "drain"
  /\ view' = [view EXCEPT ![v] = "expired"]
  /\ UNCHANGED <<childVars, readVars, reapVars, listed, subVars, start, got, delete>>

\* A write or ping fails, or the client's side of the connection ends.
HangsUp(v) ==
  /\ view[v] \in {"upgrade", "replay", "wait", "check"}
  /\ view' = [view EXCEPT ![v] = "gone"]
  /\ UNCHANGED <<childVars, readVars, reapVars, listed, subVars, start, got, delete>>

\* The deferred Unsubscribe; what is left in the channel, and the record of
\* what was sent, go with the handler.
Leaves(v) ==
  /\ view[v] \in {"told", "expired", "gone"}
  /\ registered' = [registered EXCEPT ![v] = FALSE]
  /\ closed' = [closed EXCEPT ![v] = @ \/ registered[v]]
  /\ view' = [view EXCEPT ![v] = "left"]
  /\ queue' = [queue EXCEPT ![v] = <<>>] /\ slow' = slow \ {v}
  /\ start' = [start EXCEPT ![v] = 0] /\ got' = [got EXCEPT ![v] = <<>>]
  /\ UNCHANGED <<childVars, readVars, reapVars, listed, delete>>

View(v) ==
  \/ Subscribes(v) \/ Replays(v) \/ Passes(v, "wait", "check") \/ SeesClosed(v)
  \/ Checks(v) \/ Passes(v, "drain", "drain") \/ DrainTimer(v) \/ Leaves(v)

----------------------------------------------------------------------------
(* A delete request: killShell *)

\* 404: no such shell, or its process has been waited for and cannot be
\* signalled.
DeleteRefused(d) ==
  /\ delete[d] = "idle"
  /\ ~listed \/ reap # "waits"
  /\ delete' = [delete EXCEPT ![d] = "refused"]
  /\ UNCHANGED <<childVars, readVars, reapVars, listed, subVars, viewVars>>

DeleteSignals(d) ==
  /\ delete[d] = "idle"
  /\ listed /\ reap = "waits"
  /\ \E kill \in BOOLEAN :
       /\ doomed' = (doomed \/ kill)
       /\ delete' = [delete EXCEPT ![d] = IF kill THEN "kill" ELSE "term"]
  /\ UNCHANGED <<proc, out, readVars, reapVars, listed, subVars, viewVars>>

\* Mutant: the shell is forgotten only if it has gone within two seconds.
DeleteForgetsDone(d) ==
  /\ delete[d] \in {"kill", "term"}
  /\ listed' = (listed /\ reap # "done")
  /\ delete' = [delete EXCEPT ![d] = "answered"]
  /\ UNCHANGED <<childVars, readVars, reapVars, subVars, viewVars>>

\* Done, or two seconds; then 204.
DeleteForgets(d) ==
  /\ delete[d] \in {"kill", "term"}
  /\ listed' = FALSE
  /\ delete' = [delete EXCEPT ![d] = "answered"]
  /\ UNCHANGED <<childVars, readVars, reapVars, subVars, viewVars>>

Next ==
  \/ Spawn \/ Prints \/ Exits
  \/ Reads \/ FanOut \/ ReaderEnds
  \/ ReapNotices \/ ReapCloses \/ ReapDone
  \/ \E v \in Viewers : Attaches(v) \/ View(v) \/ Pings(v) \/ HangsUp(v)
  \/ \E d \in Deletes : DeleteRefused(d) \/ DeleteSignals(d) \/ DeleteForgets(d)

Spec == Init /\ [][Next]_vars

\* The goroutines run, the pings are sent, and SIGKILL kills.
FairSpec ==
  /\ Spec
  /\ WF_vars(Killed) /\ WF_vars(ReapNotices) /\ WF_vars(ReapCloses) /\ WF_vars(ReapDone)
  /\ \A v \in Viewers : WF_vars(View(v)) /\ SF_vars(Pings(v))
  /\ \A d \in Deletes : WF_vars(DeleteForgets(d))

----------------------------------------------------------------------------
(* Properties *)

\* Each variable keeps to its kind: the shapes of shell.go and shells.go.
TypeOK ==
  /\ proc \in {"none", "running", "exited"}
  /\ doomed \in BOOLEAN /\ ptyOpen \in BOOLEAN /\ listed \in BOOLEAN
  /\ out \in 0..MaxChunks /\ taken \in 0..out /\ kept \in 0..taken
  /\ taken = kept + (IF reader = "holds" THEN 1 ELSE 0)
  /\ reader \in {"none", "reads", "holds", "ended"}
  /\ reap \in {"none", "waits", "noticed", "closed", "done"}
  /\ atClose \in 0..kept /\ slow \subseteq Viewers
  /\ view \in [Viewers -> {"idle", "upgrade", "replay", "wait", "check", "drain",
                           "told", "expired", "gone", "left"}]
  /\ registered \in [Viewers -> BOOLEAN] /\ closed \in [Viewers -> BOOLEAN]
  /\ start \in [Viewers -> 0..kept]
  /\ queue \in [Viewers -> Seq(1..MaxChunks)] /\ got \in [Viewers -> Seq(1..MaxChunks)]
  /\ \A v \in Viewers : Len(queue[v]) <= ChanCap /\ (registered[v] => ~closed[v])
  /\ delete \in [Deletes -> {"idle", "refused", "kill", "term", "answered"}]

\* What a viewer was sent, with what waits for it, is the output from the start
\* of its scrollback with no chunk missing, doubled or out of order, whenever
\* it attached; and while it is registered it runs to the last chunk kept.
Seamless ==
  \A v \in Viewers : view[v] \in {"replay", "wait", "check", "drain", "told", "expired"} =>
    \E last \in start[v]..kept :
      /\ (IF view[v] = "replay" THEN Scrollback(start[v]) ELSE got[v]) \o queue[v]
           = Output(start[v], last)
      /\ registered[v] => last = kept

\* A viewer told "shell ended", unless it was slow, has all the output that was
\* kept when the reaper closed the channels.
EndComplete ==
  \A v \in Viewers :
    view[v] = "told" /\ v \notin slow => got[v] = Output(start[v], atClose)

\* Every viewer's handler ends once the shell is done, also one that
\* subscribed after the channels were closed, whose own is never closed.
ViewersEnd ==
  \A v \in Viewers : reap = "done" /\ view[v] # "idle" ~> view[v] = "left"

\* A shell deleted with SIGKILL ends, and the list forgets it.
KilledIsForgotten ==
  \A d \in Deletes : delete[d] = "kill" ~> reap = "done" /\ ~listed
=============================================================================
