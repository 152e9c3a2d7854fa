------------------------------ MODULE Session ------------------------------
(***************************************************************************)
(* internal/session: the life of one Claude Code session, from Spawn to    *)
(* the reaper that closes Done.                                            *)
(*                                                                         *)
(* The goroutines are the spawning request, the reaper, the hook callbacks *)
(* (HTTP handlers in EmitHookFrame), the transcript discovery              *)
(* (startTranscriptWatcher) and the transcript watchers the last two       *)
(* start.  A section under Session.mu is one step; so is one Publish on    *)
(* the session's bus (see Bus), of which only what the properties speak    *)
(* about is kept.  The child exits by itself or because it was signalled   *)
(* (Kill): both are ChildExits.                                            *)
(***************************************************************************)
EXTENDS Naturals, FiniteSets

CONSTANTS Hooks,      \* hook callbacks
          Finder,     \* the watcher startTranscriptWatcher starts
          NoWatcher,  \* transcriptStop is nil
          MaxLines    \* bound on the length of the transcript

ASSUME SessionAssumption ==
  /\ Finder \notin Hooks
  /\ NoWatcher \notin Hooks \cup {Finder}
  /\ MaxLines \in Nat

Watchers == Hooks \cup {Finder}   \* a watcher is named after who starts it

\* EmitHookFrame tells three kinds of event apart: SubagentStop is treated as
\* Stop is, and PreToolUse stands for all that change no state.
Events == {"UserPromptSubmit", "Stop", "PreToolUse"}

Terminal == {"stopped", "failed"}

VARIABLES
  child,       \* the claude process: none, running, or how it exited
  spawn,       \* where Spawn is
  registered,  \* the session is in Manager.sessions
  state,       \* Session.state
  told,        \* the state in the last status frame
  stopped,     \* Session.StoppedAt is set
  handle,      \* Session.transcriptStop: the watcher it cancels
  ptyOpen,     \* Session.pty is not nil
  done,        \* Session.done is closed
  reap,        \* where the reaper is
  held,        \* the reaper's local stopTranscript
  finder,      \* where startTranscriptWatcher is
  hook,        \* where each hook callback is
  ev,          \* its event
  hasPath,     \* its payload carries transcript_path
  live,        \* the watchers whose goroutine runs
  cancelled,   \* the watchers whose context is cancelled
  scanning,    \* the watchers within a pass over the file
  off,         \* how many lines each watcher has read
  lines,       \* the lines of the transcript that end in their newline
  part,        \* what follows them: nothing, a torn line, or a line without its newline
  past,        \* the watchers whose byte offset is beyond the end of the file
  again,       \* history: before the exit a watcher went back to the file's start
  copies,      \* history: how often each line was published, until then or the exit
  exits,       \* stop frames the reaper published
  turns,       \* stop frames hooks published
  busClosed,   \* CloseAll has run
  early        \* history: the watchers started before StoppedAt was set

spawnVars == <<child, spawn, registered>>
stateVars == <<state, told>>
reapVars  == <<reap, held, stopped, ptyOpen, done, busClosed, exits>>
hookVars  == <<hook, ev, hasPath, turns>>
fileVars  == <<lines, part>>
scanVars  == <<scanning, off, lines, part, past, again, copies>>
watchVars == <<handle, live, cancelled, early>>
vars == <<spawnVars, stateVars, reapVars, hookVars, scanVars, watchVars, finder>>

Init ==
  /\ child = "none" /\ spawn = "start" /\ registered = FALSE
  /\ state = "starting" /\ told = "starting"
  /\ stopped = FALSE /\ handle = NoWatcher /\ ptyOpen = FALSE /\ done = FALSE
  /\ reap = "off" /\ held = NoWatcher /\ finder = "off"
  /\ hook = [h \in Hooks |-> "none"]
  /\ ev = [h \in Hooks |-> "PreToolUse"]
  /\ hasPath = [h \in Hooks |-> FALSE]
  /\ live = {} /\ cancelled = {} /\ scanning = {} /\ early = {}
  /\ off = [w \in Watchers |-> 0]
  /\ lines = 0 /\ part = "none" /\ past = {} /\ again = FALSE
  /\ copies = [n \in 1..MaxLines |-> 0]
  /\ exits = 0 /\ turns = 0 /\ busClosed = FALSE

----------------------------------------------------------------------------
(* The child process *)

ChildExits ==
  /\ child = "running"
  /\ child' \in {"exit0", "exit1"}
  /\ UNCHANGED <<spawn, registered, stateVars, reapVars, hookVars, scanVars, watchVars, finder>>

\* claude appends a line to its transcript, with its newline at once or in
\* parts.  Growth takes the end of the file to any offset beyond it, or past it.
ChildWrites ==
  /\ child = "running"
  /\ lines < MaxLines
  /\ \/ lines' = lines + 1 /\ part' = "none"
     \/ part \in {"none", "torn"} /\ part' \in {"torn", "unended"} /\ lines' = lines
  /\ past' = {}
  /\ UNCHANGED <<spawnVars, stateVars, reapVars, hookVars, scanning, off, copies, again, watchVars,
                 finder>>

----------------------------------------------------------------------------
(* Spawn *)

\* pty.Start fails: the session ends as failed, its bus closed, and is
\* neither registered nor reaped.
SpawnFails ==
  /\ spawn = "start"
  /\ spawn' = "failed"
  /\ state' = "failed" /\ told' = "failed"
  /\ busClosed' = TRUE
  /\ UNCHANGED <<child, registered, reap, held, stopped, ptyOpen, done, exits, hookVars,
                 scanVars, watchVars, finder>>

\* pty.Start succeeds.  Nobody else has the session yet: the state, its
\* status frame and the meta frame are one step with it.
SpawnStarts ==
  /\ spawn = "start"
  /\ spawn' = "register"
  /\ child' = "running"
  /\ ptyOpen' = TRUE
  /\ state' = "idle" /\ told' = "idle"
  /\ UNCHANGED <<registered, reap, held, stopped, done, busClosed, exits, hookVars, scanVars,
                 watchVars, finder>>

SpawnRegisters ==
  /\ spawn = "register"
  /\ spawn' = "launch"
  /\ registered' = TRUE
  /\ UNCHANGED <<child, stateVars, reapVars, hookVars, scanVars, watchVars, finder>>

\* The go statements; Spawn returns.
SpawnLaunches ==
  /\ spawn = "launch"
  /\ spawn' = "returned"
  /\ finder' = "polling"
  /\ reap' = "wait"
  /\ UNCHANGED <<child, registered, stateVars, held, stopped, ptyOpen, done, busClosed, exits,
                 hookVars, scanVars, watchVars>>

----------------------------------------------------------------------------
(* reap *)

\* Mutant: the handle is left in place and not taken along.
ReapCollectsForgets ==
  /\ reap = "wait"
  /\ child \in {"exit0", "exit1"}
  /\ stopped' = TRUE
  /\ reap' = "cancel"
  /\ UNCHANGED <<spawnVars, stateVars, ptyOpen, done, busClosed, exits, hookVars, scanVars, held, handle,
                 live, cancelled, early, finder>>

\* Wait returns; under mu the exit is recorded and the watcher's handle taken.
ReapCollects ==
  /\ reap = "wait"
  /\ child \in {"exit0", "exit1"}
  /\ stopped' = TRUE
  /\ held' = handle
  /\ handle' = NoWatcher
  /\ reap' = "cancel"
  /\ UNCHANGED <<spawnVars, stateVars, ptyOpen, done, busClosed, exits, hookVars, scanVars,
                 live, cancelled, early, finder>>

ReapCancels ==
  /\ reap = "cancel"
  /\ reap' = "stop"
  /\ cancelled' = cancelled \cup ({held} \ {NoWatcher})
  /\ UNCHANGED <<spawnVars, stateVars, held, stopped, ptyOpen, done, busClosed, exits, hookVars,
                 scanVars, handle, live, early, finder>>

\* The stop frame of the session's end.
ReapPublishesStop ==
  /\ reap = "stop"
  /\ reap' = "store"
  /\ exits' = exits + 1
  /\ UNCHANGED <<spawnVars, stateVars, held, stopped, ptyOpen, done, busClosed, hookVars,
                 scanVars, watchVars, finder>>

\* The state the exit leaves.
ExitState == IF child = "exit1" THEN "failed" ELSE "stopped"

\* SetState: the state is stored, then told.
ReapStores ==
  /\ reap = "store"
  /\ reap' = "tell"
  /\ state' = ExitState
  /\ UNCHANGED <<spawnVars, told, held, stopped, ptyOpen, done, busClosed, exits, hookVars,
                 scanVars, watchVars, finder>>

ReapTells ==
  /\ reap = "tell"
  /\ reap' = "close"
  /\ told' = ExitState
  /\ UNCHANGED <<spawnVars, state, held, stopped, ptyOpen, done, busClosed, exits, hookVars,
                 scanVars, watchVars, finder>>

\* Mutant: the bus is closed as soon as the watcher is cancelled.
ReapClosesBusEarly ==
  /\ reap \in {"stop", "close"}
  /\ reap' = IF reap = "close" THEN "pty" ELSE reap
  /\ busClosed' = TRUE
  /\ UNCHANGED <<spawnVars, stateVars, held, stopped, ptyOpen, done, exits, hookVars, scanVars,
                 watchVars, finder>>

\* closeBus, its two halves.
ReapClosesBus ==
  /\ reap = "close"
  /\ reap' = "pty"
  /\ busClosed' = TRUE
  /\ UNCHANGED <<spawnVars, stateVars, held, stopped, ptyOpen, done, exits, hookVars, scanVars,
                 watchVars, finder>>

ReapClosesPty ==
  /\ reap = "pty"
  /\ reap' = "signal"
  /\ ptyOpen' = FALSE
  /\ UNCHANGED <<spawnVars, stateVars, held, stopped, done, busClosed, exits, hookVars, scanVars,
                 watchVars, finder>>

\* Mutant: Done is signalled before the stop frame and the close of the bus.
ReapSignalsEarly ==
  /\ reap \in {"stop", "signal"}
  /\ reap' = IF reap = "signal" THEN "over" ELSE reap
  /\ done' = TRUE
  /\ UNCHANGED <<spawnVars, stateVars, held, stopped, ptyOpen, busClosed, exits, hookVars,
                 scanVars, watchVars, finder>>

\* Mutant: Done is never signalled.
ReapSignalsNever ==
  /\ reap = "signal"
  /\ reap' = "over"
  /\ UNCHANGED <<spawnVars, stateVars, held, stopped, ptyOpen, done, busClosed, exits, hookVars,
                 scanVars, watchVars, finder>>

ReapSignals ==
  /\ reap = "signal"
  /\ reap' = "over"
  /\ done' = TRUE
  /\ UNCHANGED <<spawnVars, stateVars, held, stopped, ptyOpen, busClosed, exits, hookVars,
                 scanVars, watchVars, finder>>

Reap ==
  \/ ReapCollects \/ ReapCancels \/ ReapPublishesStop \/ ReapStores \/ ReapTells
  \/ ReapClosesBus \/ ReapClosesPty \/ ReapSignals

----------------------------------------------------------------------------
(* The transcript watchers *)

\* Mutant: the second starter does not look at transcriptStop.
StartWatcherBlindly(w) ==
  /\ live' = live \cup {w}
  /\ handle' = w
  /\ early' = IF stopped THEN early ELSE early \cup {w}
  /\ UNCHANGED cancelled

\* Under mu: a watcher is started unless there is one.
StartWatcher(w) ==
  IF handle = NoWatcher
  THEN /\ live' = live \cup {w}
       /\ handle' = w
       /\ early' = IF stopped THEN early ELSE early \cup {w}
       /\ UNCHANGED cancelled
  ELSE UNCHANGED watchVars

\* startTranscriptWatcher: the session's end, the deadline, or the file.
FinderSeesDone ==
  /\ finder = "polling"
  /\ done
  /\ finder' = "over"
  /\ UNCHANGED <<spawnVars, stateVars, reapVars, hookVars, scanVars, watchVars>>

FinderGivesUp ==
  /\ finder = "polling"
  /\ finder' = "over"
  /\ UNCHANGED <<spawnVars, stateVars, reapVars, hookVars, scanVars, watchVars>>

\* A tick found the file; when done is closed too, the select may take either.
FinderFinds ==
  /\ finder = "polling"
  /\ lines > 0 \/ part # "none"
  /\ finder' = "found"
  /\ UNCHANGED <<spawnVars, stateVars, reapVars, hookVars, scanVars, watchVars>>

FinderStarts ==
  /\ finder = "found"
  /\ finder' = "over"
  /\ StartWatcher(Finder)
  /\ UNCHANGED <<spawnVars, stateVars, reapVars, hookVars, scanVars>>

\* A pass over the file starts; the context is looked at only between passes.
WatcherScans(w) ==
  /\ w \in live \ (scanning \cup cancelled)
  /\ off[w] < lines \/ (part # "none" /\ w \notin past)
  /\ scanning' = scanning \cup {w}
  /\ UNCHANGED <<spawnVars, stateVars, reapVars, hookVars, off, fileVars, past, copies, again,
                 watchVars, finder>>

\* The file is shorter than the offset: the next pass starts at its beginning.
WatcherStartsAgain(w) ==
  /\ w \in (live \cap past) \ (scanning \cup cancelled)
  /\ off' = [off EXCEPT ![w] = 0]
  /\ past' = past \ {w}
  /\ again' = (again \/ ~stopped)
  /\ scanning' = scanning \cup {w}
  /\ UNCHANGED <<spawnVars, stateVars, reapVars, hookVars, fileVars, copies, watchVars, finder>>

Published(n) == IF again \/ stopped THEN copies ELSE [copies EXCEPT ![n] = @ + 1]

WatcherEmits(w) ==
  /\ w \in scanning
  /\ off[w] < lines
  /\ off' = [off EXCEPT ![w] = @ + 1]
  /\ copies' = Published(off[w] + 1)
  /\ UNCHANGED <<spawnVars, stateVars, reapVars, hookVars, scanning, fileVars, past, again, watchVars,
                 finder>>

\* The pass ends.  What the scanner gives of a last line without newline counts
\* as a line with one, so the offset is beyond the end; it is published if it
\* parses, that is when it is the whole line and no earlier pass had a part of it.
WatcherReachesEnd(w) ==
  /\ w \in scanning
  /\ off[w] >= lines
  /\ scanning' = scanning \ {w}
  /\ IF part = "none"
     THEN UNCHANGED <<off, past, copies>>
     ELSE /\ off' = [off EXCEPT ![w] = lines + 1]
          /\ past' = past \cup {w}
          /\ copies' = IF part = "unended" /\ off[w] = lines THEN Published(lines + 1) ELSE copies
  /\ UNCHANGED <<spawnVars, stateVars, reapVars, hookVars, fileVars, again, watchVars, finder>>

WatcherExits(w) ==
  /\ w \in (live \cap cancelled) \ scanning
  /\ live' = live \ {w}
  /\ UNCHANGED <<spawnVars, stateVars, reapVars, hookVars, scanVars, handle, cancelled, early, finder>>

Watcher(w) ==
  \/ WatcherScans(w) \/ WatcherStartsAgain(w)
  \/ WatcherEmits(w) \/ WatcherReachesEnd(w) \/ WatcherExits(w)

----------------------------------------------------------------------------
(* Hook callbacks: Receiver.ServeHTTP and Manager.EmitHookFrame.  The hook *)
(* command is a process of its own and may outlive claude.                 *)

\* The handler goes on; as it returns its event is forgotten.
Proceeds(h, next) ==
  /\ hook' = [hook EXCEPT ![h] = next]
  /\ IF next = "over"
     THEN ev' = [ev EXCEPT ![h] = "PreToolUse"] /\ hasPath' = [hasPath EXCEPT ![h] = FALSE]
     ELSE UNCHANGED <<ev, hasPath>>

\* CheckHookToken answers 401 for a session that is not in the map; a
\* session never leaves it, so EmitHookFrame always finds it again.
HookArrives(h, e, p) ==
  /\ child # "none"
  /\ hook[h] = "none"
  /\ IF registered
     THEN /\ hook' = [hook EXCEPT ![h] = "watch"]
          /\ ev' = [ev EXCEPT ![h] = e]
          /\ hasPath' = [hasPath EXCEPT ![h] = p]
     ELSE hook' = [hook EXCEPT ![h] = "rejected"] /\ UNCHANGED <<ev, hasPath>>
  /\ UNCHANGED <<spawnVars, stateVars, reapVars, turns, scanVars, watchVars, finder>>

\* The event is dispatched; other events than these publish nothing more.
AfterWatch(h) ==
  IF ev[h] = "PreToolUse" THEN "over" ELSE "store"

HookWatches(h) ==
  /\ hook[h] = "watch"
  /\ Proceeds(h, AfterWatch(h))
  /\ IF hasPath[h] THEN StartWatcher(h) ELSE UNCHANGED watchVars
  /\ UNCHANGED <<spawnVars, stateVars, reapVars, turns, scanVars, finder>>

HookState(h) == IF ev[h] = "UserPromptSubmit" THEN "working" ELSE "idle"

\* SetState stores the state and tells it; the handler then tells it again.
HookStores(h) ==
  /\ hook[h] = "store"
  /\ Proceeds(h, "tell")
  /\ state' = HookState(h)
  /\ UNCHANGED <<spawnVars, told, reapVars, turns, scanVars, watchVars, finder>>

HookTells(h) ==
  /\ hook[h] \in {"tell", "retell"}
  /\ Proceeds(h, IF hook[h] = "tell" THEN "retell"
                 ELSE IF ev[h] = "UserPromptSubmit" THEN "over" ELSE "turn")
  /\ told' = HookState(h)
  /\ UNCHANGED <<spawnVars, state, reapVars, turns, scanVars, watchVars, finder>>

HookEndsTurn(h) ==
  /\ hook[h] = "turn"
  /\ Proceeds(h, "over")
  /\ turns' = turns + 1
  /\ UNCHANGED <<spawnVars, stateVars, reapVars, scanVars, watchVars, finder>>

HookRuns(h) ==
  HookWatches(h) \/ HookStores(h) \/ HookTells(h) \/ HookEndsTurn(h)

----------------------------------------------------------------------------

Next ==
  \/ ChildExits \/ ChildWrites
  \/ SpawnFails \/ SpawnStarts \/ SpawnRegisters \/ SpawnLaunches
  \/ Reap
  \/ FinderSeesDone \/ FinderGivesUp \/ FinderFinds \/ FinderStarts
  \/ \E w \in Watchers : Watcher(w)
  \/ \E h \in Hooks, e \in Events, p \in BOOLEAN : HookArrives(h, e, p)
  \/ \E h \in Hooks : HookRuns(h)

Spec == Init /\ [][Next]_vars

\* Every goroutine that can go on does; nothing obliges claude to exit, to
\* write or to call a hook.
Fairness ==
  /\ WF_vars(SpawnRegisters) /\ WF_vars(SpawnLaunches)
  /\ WF_vars(Reap)
  /\ WF_vars(FinderSeesDone) /\ WF_vars(FinderStarts)
  /\ \A w \in Watchers : WF_vars(Watcher(w))
  /\ \A h \in Hooks : WF_vars(HookRuns(h))

FairSpec == Spec /\ Fairness

----------------------------------------------------------------------------
(* Properties *)

ControlTypes ==
  /\ child \in {"none", "running", "exit0", "exit1"}
  /\ spawn \in {"start", "register", "launch", "returned", "failed"}
  /\ reap \in {"off", "wait", "cancel", "stop", "store", "tell", "close", "pty", "signal", "over"}
  /\ finder \in {"off", "polling", "found", "over"}
  /\ {state, told} \subseteq {"starting", "idle", "working"} \cup Terminal
  /\ {registered, stopped, ptyOpen, done, busClosed} \subseteq BOOLEAN
  /\ exits \in Nat

HookTypes ==
  /\ hook \in [Hooks -> {"none", "watch", "store", "tell", "retell", "turn", "over", "rejected"}]
  /\ ev \in [Hooks -> Events]
  /\ hasPath \in [Hooks -> BOOLEAN]
  /\ turns \in Nat

WatchTypes ==
  /\ {handle, held} \subseteq Watchers \cup {NoWatcher}
  /\ cancelled \subseteq Watchers /\ live \subseteq Watchers
  /\ scanning \subseteq live /\ early \subseteq Watchers
  /\ past \subseteq Watchers

FileTypes ==
  /\ lines \in 0..MaxLines /\ part \in {"none", "torn", "unended"}
  /\ part # "none" => lines < MaxLines
  /\ off \in [Watchers -> 0..MaxLines]
  /\ \A w \in Watchers : off[w] <= IF part = "none" THEN lines ELSE lines + 1
  /\ copies \in [1..MaxLines -> Nat] /\ again \in BOOLEAN

TypeOK == ControlTypes /\ HookTypes /\ WatchTypes /\ FileTypes

\* Whoever waits for Done finds the session over: the exit recorded and
\* announced exactly once, the streams and the PTY closed.  (killSession
\* answers with Status after Done, clients learn of the end from the frames.)
DoneMeansOver ==
  done => stopped /\ exits = 1 /\ busClosed /\ ~ptyOpen

\* No subscriber's channel is closed before the stop frame was published.
StopFrameBeforeClose ==
  busClosed => spawn = "failed" \/ exits = 1

\* The ending in the order its readers rely on.
EndsInOrder == StopFrameBeforeClose /\ DoneMeansOver

\* At any time at most one watcher is in charge of the transcript: any other
\* that runs has been cancelled, or is about to be by the reaper.
OneWatcher ==
  live \subseteq cancelled \cup {handle} \cup (IF reap = "cancel" THEN {held} ELSE {})

\* Until the reaper takes the handle no line of the transcript is published
\* twice, whichever of the hooks and the discovery starts the watcher and
\* whether the lines are seen whole or torn, unless a watcher went back to the
\* start of the file, which it does when a pass saw a line without its newline
\* and the file has not grown by the next (watcher.go:140-142, 169).
LinesOnce ==
  ~stopped /\ ~again => \A n \in 1..MaxLines : copies[n] <= 1

\* Every watcher started before the exit was recorded is cancelled by Done.
EarlyWatchersReleased ==
  done => early \subseteq cancelled

\* A session whose child has exited gets to Done, whatever hooks and
\* watchers are doing meanwhile.
ExitLeadsToDone ==
  child \in {"exit0", "exit1"} ~> done

\* session_test.go:155-158: once Done is closed the state is stopped or failed.
DoneIsTerminal ==
  done => state \in Terminal
=============================================================================
