---------------------------- MODULE ClaudeLogin ----------------------------
(***************************************************************************)
(* internal/clauth: the login flow `claude auth login` drives, from the    *)
(* request that starts it to the reaper that waits for the process.        *)
(*                                                                         *)
(* Flow.state is an atomic value which Start, the PTY reader, the reaper,  *)
(* the idle timer, Cancel and every SubmitCode load and store on their     *)
(* own: each load and each store is one step.  Time is not kept: a timer   *)
(* that runs may fire.  A flow is named after the Start request that makes *)
(* it; a client learns its name from the answer of that request.           *)
(***************************************************************************)
EXTENDS Naturals, FiniteSets

CONSTANTS Flows,       \* Start requests and the flows they make
          Submits,     \* SubmitCode requests
          NoFlow,      \* Manager.flow is nil
          MaxRejects   \* bound on how often claude rejects a code

ASSUME LoginAssumption ==
  /\ NoFlow \notin Flows
  /\ MaxRejects \in Nat

Terminal == {"done", "failed", "cancelled", "timed_out"}

States == {"starting", "awaiting_code", "verifying"} \cup Terminal

Exited == {"exit0", "exit1"}

VARIABLES
  current,   \* Manager.flow
  state,     \* Flow.state of each flow
  proc,      \* its claude process
  ptyOpen,   \* its PTY is open
  printed,   \* how many rejections it has printed
  rejects,   \* how many of them the reader has added to Flow.output
  closed,    \* its done channel is closed
  start,     \* where its Start request is
  reader,    \* where its PTY reader is; "over": urlReady is closed, it reads on
  reaper,    \* where its reaper is
  idle,      \* where its idle timer is
  cancel,    \* where a Cancel of it is
  submit,    \* where each SubmitCode is, or what it answered
  target,    \* the flow it is about
  mark,      \* startLen: the rejections it does not look at
  before     \* history: the rejections in the output when it arrived

outVars    == <<printed, rejects>>
flowVars   == <<state, proc, ptyOpen, printed, rejects, closed>>
submitVars == <<submit, target, mark, before>>
allLoginVars == <<current, flowVars, start, reader, reaper, idle, cancel, submitVars>>

LoginInit ==
  /\ current = NoFlow
  /\ state = [f \in Flows |-> "starting"]
  /\ proc = [f \in Flows |-> "none"]
  /\ ptyOpen = [f \in Flows |-> FALSE]
  /\ printed = [f \in Flows |-> 0]
  /\ rejects = [f \in Flows |-> 0]
  /\ closed = [f \in Flows |-> FALSE]
  /\ start = [f \in Flows |-> "none"]
  /\ reader = [f \in Flows |-> "off"]
  /\ reaper = [f \in Flows |-> "off"]
  /\ idle = [f \in Flows |-> "off"]
  /\ cancel = [f \in Flows |-> "none"]
  /\ submit = [s \in Submits |-> "none"]
  /\ target = [s \in Submits |-> NoFlow]
  /\ mark = [s \in Submits |-> 0]
  /\ before = [s \in Submits |-> 0]

\* A store to Flow.state.
Store(f, s) == state' = [state EXCEPT ![f] = s]

\* The second half of fail and of Cancel's grace period.
Kill(f) == proc' = [proc EXCEPT ![f] = IF @ = "running" THEN "exit1" ELSE @]

----------------------------------------------------------------------------
(* The claude process *)

\* It exits by itself or on the interrupt of Cancel.
ClaudeExits(f) ==
  /\ proc[f] = "running"
  /\ \E e \in Exited : proc' = [proc EXCEPT ![f] = e]
  /\ UNCHANGED <<current, state, ptyOpen, outVars, closed, start, reader, reaper, idle, cancel,
                 submitVars>>

\* It prints "Invalid code", which the reader has yet to read.
ClaudeRejects(f) ==
  /\ proc[f] = "running"
  /\ printed[f] < MaxRejects
  /\ \E s \in Submits : target[s] = f /\ submit[s] \notin {"verify", "mark", "write", "refused"}
  /\ printed' = [printed EXCEPT ![f] = @ + 1]
  /\ UNCHANGED <<current, state, proc, ptyOpen, rejects, closed, start, reader, reaper, idle, cancel,
                 submitVars>>

----------------------------------------------------------------------------
(* Manager.Start *)

\* The check for a flow in flight, in a critical section of its own.
StartChecks(f) ==
  /\ start[f] = "none"
  /\ start' = [start EXCEPT ![f] =
                 IF current # NoFlow /\ state[current] \notin Terminal THEN "refused" ELSE "spawn"]
  /\ UNCHANGED <<current, flowVars, reader, reaper, idle, cancel, submitVars>>

\* No claude on the PATH, or pty.Start fails.
StartFails(f) ==
  /\ start[f] = "spawn"
  /\ start' = [start EXCEPT ![f] = "error"]
  /\ UNCHANGED <<current, flowVars, reader, reaper, idle, cancel, submitVars>>

StartSpawns(f) ==
  /\ start[f] = "spawn"
  /\ start' = [start EXCEPT ![f] = "record"]
  /\ proc' = [proc EXCEPT ![f] = "running"]
  /\ ptyOpen' = [ptyOpen EXCEPT ![f] = TRUE]
  /\ reader' = [reader EXCEPT ![f] = "reading"]
  /\ reaper' = [reaper EXCEPT ![f] = "wait"]
  /\ UNCHANGED <<current, state, outVars, closed, idle, cancel, submitVars>>

StartRecords(f) ==
  /\ start[f] = "record"
  /\ start' = [start EXCEPT ![f] = "wait"]
  /\ current' = f
  /\ UNCHANGED <<flowVars, reader, reaper, idle, cancel, submitVars>>

\* The URL is there: the idle timer is armed and the flow answered.
StartReady(f) ==
  /\ start[f] = "wait"
  /\ reader[f] = "over"
  /\ start' = [start EXCEPT ![f] = "ready"]
  /\ idle' = [idle EXCEPT ![f] = "armed"]
  /\ UNCHANGED <<current, flowVars, reader, reaper, cancel, submitVars>>

StartSeesExit(f) ==
  /\ start[f] = "wait"
  /\ closed[f]
  /\ start' = [start EXCEPT ![f] = "error"]
  /\ UNCHANGED <<current, flowVars, reader, reaper, idle, cancel, submitVars>>

\* No URL in time: fail stores the state, then closes the PTY and kills.
StartTimesOut(f) ==
  /\ start[f] = "wait"
  /\ start' = [start EXCEPT ![f] = "kill"]
  /\ Store(f, "timed_out")
  /\ UNCHANGED <<current, proc, ptyOpen, outVars, closed, reader, reaper, idle, cancel, submitVars>>

StartKills(f) ==
  /\ start[f] = "kill"
  /\ start' = [start EXCEPT ![f] = "error"]
  /\ Kill(f)
  /\ ptyOpen' = [ptyOpen EXCEPT ![f] = FALSE]
  /\ UNCHANGED <<current, state, outVars, closed, reader, reaper, idle, cancel, submitVars>>

Start(f) ==
  \/ StartFails(f) \/ StartSpawns(f) \/ StartRecords(f)
  \/ StartReady(f) \/ StartSeesExit(f) \/ StartTimesOut(f) \/ StartKills(f)

----------------------------------------------------------------------------
(* Flow.reader *)

\* A read returns the end of the URL.
ReaderFindsURL(f) ==
  /\ reader[f] = "reading"
  /\ ptyOpen[f]
  /\ reader' = [reader EXCEPT ![f] = "store"]
  /\ UNCHANGED <<current, flowVars, start, reaper, idle, cancel, submitVars>>

\* The PTY is closed, and no URL was read.
ReaderEnds(f) ==
  /\ reader[f] = "reading"
  /\ ~ptyOpen[f]
  /\ reader' = [reader EXCEPT ![f] = "ended"]
  /\ UNCHANGED <<current, flowVars, start, reaper, idle, cancel, submitVars>>

ReaderStores(f) ==
  /\ reader[f] = "store"
  /\ reader' = [reader EXCEPT ![f] = "signal"]
  /\ Store(f, "awaiting_code")
  /\ UNCHANGED <<current, proc, ptyOpen, outVars, closed, start, reaper, idle, cancel, submitVars>>

ReaderSignals(f) ==
  /\ reader[f] = "signal"
  /\ reader' = [reader EXCEPT ![f] = "over"]
  /\ UNCHANGED <<current, flowVars, start, reaper, idle, cancel, submitVars>>

\* A read after the URL: the output grows by some of what was printed.
ReaderReads(f) ==
  /\ reader[f] = "over"
  /\ ptyOpen[f]
  /\ \E n \in (rejects[f] + 1)..printed[f] : rejects' = [rejects EXCEPT ![f] = n]
  /\ UNCHANGED <<current, state, proc, ptyOpen, printed, closed, start, reader, reaper, idle, cancel,
                 submitVars>>

Reader(f) == ReaderReads(f) \/ ReaderFindsURL(f) \/ ReaderEnds(f) \/ ReaderStores(f) \/ ReaderSignals(f)

----------------------------------------------------------------------------
(* Flow.reap *)

\* Wait returns: the PTY is closed, then done.
ReapEnds(f) ==
  /\ reaper[f] = "wait"
  /\ proc[f] \in Exited
  /\ reaper' = [reaper EXCEPT ![f] = "look"]
  /\ ptyOpen' = [ptyOpen EXCEPT ![f] = FALSE]
  /\ closed' = [closed EXCEPT ![f] = TRUE]
  /\ UNCHANGED <<current, state, proc, outVars, start, reader, idle, cancel, submitVars>>

\* A state Cancel or fail has left is kept.
ReapLooks(f) ==
  /\ reaper[f] = "look"
  /\ reaper' = [reaper EXCEPT ![f] =
                  IF state[f] \in Terminal \ {"done"} THEN "over" ELSE "store"]
  /\ UNCHANGED <<current, flowVars, start, reader, idle, cancel, submitVars>>

ReapStores(f) ==
  /\ reaper[f] = "store"
  /\ reaper' = [reaper EXCEPT ![f] = "over"]
  /\ Store(f, IF proc[f] = "exit0" THEN "done" ELSE "failed")
  /\ UNCHANGED <<current, proc, ptyOpen, outVars, closed, start, reader, idle, cancel, submitVars>>

Reap(f) == ReapEnds(f) \/ ReapLooks(f) \/ ReapStores(f)

----------------------------------------------------------------------------
(* Flow.armIdleTimeout *)

IdleEnds(f) ==
  /\ idle[f] = "armed"
  /\ closed[f]
  /\ idle' = [idle EXCEPT ![f] = "over"]
  /\ UNCHANGED <<current, flowVars, start, reader, reaper, cancel, submitVars>>

\* The timer fires, once: a flow that is not awaiting a code is let be.
IdleFires(f) ==
  /\ idle[f] = "armed"
  /\ idle' = [idle EXCEPT ![f] = IF state[f] = "awaiting_code" THEN "fail" ELSE "over"]
  /\ UNCHANGED <<current, flowVars, start, reader, reaper, cancel, submitVars>>

IdleFails(f) ==
  /\ idle[f] = "fail"
  /\ idle' = [idle EXCEPT ![f] = "kill"]
  /\ Store(f, "timed_out")
  /\ UNCHANGED <<current, proc, ptyOpen, outVars, closed, start, reader, reaper, cancel, submitVars>>

IdleKills(f) ==
  /\ idle[f] = "kill"
  /\ idle' = [idle EXCEPT ![f] = "over"]
  /\ Kill(f)
  /\ ptyOpen' = [ptyOpen EXCEPT ![f] = FALSE]
  /\ UNCHANGED <<current, state, outVars, closed, start, reader, reaper, cancel, submitVars>>

Idle(f) == IdleEnds(f) \/ IdleFires(f) \/ IdleFails(f) \/ IdleKills(f)

----------------------------------------------------------------------------
(* Flow.Cancel, from the request *)

\* GetFlow knows the manager's flow only; an ended flow is let be.
CancelArrives(f) ==
  /\ cancel[f] = "none"
  /\ start[f] = "ready"
  /\ cancel' = [cancel EXCEPT ![f] =
                  IF current = f /\ state[f] \notin Terminal THEN "store" ELSE "over"]
  /\ UNCHANGED <<current, flowVars, start, reader, reaper, idle, submitVars>>

CancelStores(f) ==
  /\ cancel[f] = "store"
  /\ cancel' = [cancel EXCEPT ![f] = "grace"]
  /\ Store(f, "cancelled")
  /\ UNCHANGED <<current, proc, ptyOpen, outVars, closed, start, reader, reaper, idle, submitVars>>

\* Mutant: the interrupt is left to do its work.
CancelWaitsForExit(f) ==
  /\ cancel[f] = "grace"
  /\ closed[f]
  /\ cancel' = [cancel EXCEPT ![f] = "over"]
  /\ UNCHANGED <<current, flowVars, start, reader, reaper, idle, submitVars>>

\* claude was interrupted: it ends within the grace period or is killed.
CancelEnds(f) ==
  /\ cancel[f] = "grace"
  /\ cancel' = [cancel EXCEPT ![f] = "over"]
  /\ IF closed[f] THEN UNCHANGED proc ELSE Kill(f)
  /\ UNCHANGED <<current, state, ptyOpen, outVars, closed, start, reader, reaper, idle, submitVars>>

Cancel(f) == CancelStores(f) \/ CancelEnds(f)

----------------------------------------------------------------------------
(* Flow.SubmitCode, from the request *)

\* The flow is looked up, and its state loaded.
SubmitArrives(s, f) ==
  /\ submit[s] = "none"
  /\ start[f] = "ready"
  /\ submit' = [submit EXCEPT ![s] =
                  IF current = f /\ state[f] = "awaiting_code" THEN "verify" ELSE "refused"]
  /\ target' = [target EXCEPT ![s] = f]
  /\ before' = [before EXCEPT ![s] = rejects[f]]
  /\ UNCHANGED <<current, flowVars, start, reader, reaper, idle, cancel, mark>>

SubmitStores(s) ==
  /\ submit[s] = "verify"
  /\ submit' = [submit EXCEPT ![s] = "mark"]
  /\ Store(target[s], "verifying")
  /\ UNCHANGED <<current, proc, ptyOpen, outVars, closed, start, reader, reaper, idle, cancel,
                 target, mark, before>>

\* Mutant: the whole output is scanned.
SubmitMarksNothing(s) ==
  /\ submit[s] = "mark"
  /\ submit' = [submit EXCEPT ![s] = "write"]
  /\ UNCHANGED <<current, flowVars, start, reader, reaper, idle, cancel, target, mark, before>>

SubmitMarks(s) ==
  /\ submit[s] = "mark"
  /\ submit' = [submit EXCEPT ![s] = "write"]
  /\ mark' = [mark EXCEPT ![s] = rejects[target[s]]]
  /\ UNCHANGED <<current, flowVars, start, reader, reaper, idle, cancel, target, before>>

\* The write fails only on a PTY whose process has gone.
SubmitWrites(s) ==
  /\ submit[s] = "write"
  /\ \/ ptyOpen[target[s]] /\ submit' = [submit EXCEPT ![s] = "wait"]
     \/ proc[target[s]] \in Exited /\ submit' = [submit EXCEPT ![s] = "unsent"]
  /\ UNCHANGED <<current, flowVars, start, reader, reaper, idle, cancel, target, mark, before>>

\* Mutant: a closed done is taken for success.
SubmitTrustsDone(s) ==
  /\ submit[s] = "wait"
  /\ closed[target[s]]
  /\ submit' = [submit EXCEPT ![s] = "ok"]
  /\ UNCHANGED <<current, flowVars, start, reader, reaper, idle, cancel, target, mark, before>>

SubmitSeesExit(s) ==
  /\ submit[s] = "wait"
  /\ closed[target[s]]
  /\ submit' = [submit EXCEPT ![s] = IF state[target[s]] = "done" THEN "ok" ELSE "error"]
  /\ UNCHANGED <<current, flowVars, start, reader, reaper, idle, cancel, target, mark, before>>

\* The request's context ends: the client has gone, or the handler's minute.
SubmitGivesUp(s) ==
  /\ submit[s] = "wait"
  /\ submit' = [submit EXCEPT ![s] = "gone"]
  /\ UNCHANGED <<current, flowVars, start, reader, reaper, idle, cancel, target, mark, before>>

\* The hard deadline: fail.
SubmitTimesOut(s) ==
  /\ submit[s] = "wait"
  /\ submit' = [submit EXCEPT ![s] = "kill"]
  /\ Store(target[s], "failed")
  /\ UNCHANGED <<current, proc, ptyOpen, outVars, closed, start, reader, reaper, idle, cancel,
                 target, mark, before>>

SubmitKills(s) ==
  /\ submit[s] = "kill"
  /\ submit' = [submit EXCEPT ![s] = "error"]
  /\ Kill(target[s])
  /\ ptyOpen' = [ptyOpen EXCEPT ![target[s]] = FALSE]
  /\ UNCHANGED <<current, state, outVars, closed, start, reader, reaper, idle, cancel,
                 target, mark, before>>

\* A tick finds a rejection past the mark, and the state is put back.  When
\* done is closed too the select may take either.
SubmitSeesRejection(s) ==
  /\ submit[s] = "wait"
  /\ rejects[target[s]] > mark[s]
  /\ submit' = [submit EXCEPT ![s] = "reset"]
  /\ UNCHANGED <<current, flowVars, start, reader, reaper, idle, cancel, target, mark, before>>

SubmitResets(s) ==
  /\ submit[s] = "reset"
  /\ submit' = [submit EXCEPT ![s] = "invalid"]
  /\ Store(target[s], "awaiting_code")
  /\ UNCHANGED <<current, proc, ptyOpen, outVars, closed, start, reader, reaper, idle, cancel,
                 target, mark, before>>

Submit(s) ==
  \/ SubmitStores(s) \/ SubmitMarks(s) \/ SubmitWrites(s) \/ SubmitSeesExit(s)
  \/ SubmitTimesOut(s) \/ SubmitKills(s) \/ SubmitSeesRejection(s) \/ SubmitResets(s)

----------------------------------------------------------------------------

LoginNext ==
  \/ \E f \in Flows :
       \/ ClaudeExits(f) \/ ClaudeRejects(f)
       \/ StartChecks(f) \/ Start(f) \/ Reader(f) \/ Reap(f) \/ Idle(f)
       \/ CancelArrives(f) \/ Cancel(f)
  \/ \E s \in Submits :
       \/ \E f \in Flows : SubmitArrives(s, f)
       \/ Submit(s) \/ SubmitGivesUp(s)

LoginSpec == LoginInit /\ [][LoginNext]_allLoginVars

\* Timers fire and goroutines go on; claude need not exit, print or reject,
\* and no client need submit, cancel or hang up.
LoginFairness ==
  /\ \A f \in Flows :
       /\ WF_allLoginVars(Start(f)) /\ WF_allLoginVars(ReaderStores(f) \/ ReaderSignals(f) \/ ReaderReads(f))
       /\ WF_allLoginVars(Reap(f)) /\ WF_allLoginVars(Idle(f)) /\ WF_allLoginVars(Cancel(f))
  /\ \A s \in Submits : WF_allLoginVars(Submit(s))

LoginFairSpec == LoginSpec /\ LoginFairness

----------------------------------------------------------------------------
(* Properties *)

LoginTypeOK ==
  /\ current \in Flows \cup {NoFlow}
  /\ state \in [Flows -> States]
  /\ proc \in [Flows -> {"none", "running"} \cup Exited]
  /\ ptyOpen \in [Flows -> BOOLEAN] /\ closed \in [Flows -> BOOLEAN]
  /\ printed \in [Flows -> 0..MaxRejects] /\ rejects \in [Flows -> 0..MaxRejects]
  /\ start \in [Flows -> {"none", "spawn", "record", "wait", "kill", "ready", "error", "refused"}]
  /\ reader \in [Flows -> {"off", "reading", "store", "signal", "over", "ended"}]
  /\ reaper \in [Flows -> {"off", "wait", "look", "store", "over"}]
  /\ idle \in [Flows -> {"off", "armed", "fail", "kill", "over"}]
  /\ cancel \in [Flows -> {"none", "store", "grace", "over"}]
  /\ submit \in [Submits -> {"none", "verify", "mark", "write", "wait", "kill", "reset",
                            "ok", "error", "unsent", "gone", "invalid", "refused"}]
  /\ target \in [Submits -> Flows \cup {NoFlow}]
  /\ \A s \in Submits : submit[s] # "none" => target[s] \in Flows
  /\ mark \in [Submits -> 0..MaxRejects] /\ before \in [Submits -> 0..MaxRejects]

\* A login is reported done, as a flow's state or as the answer to a code,
\* only if claude has exited successfully: no timer, cancel, or retry that
\* races the exit makes one up (on the answer the handler deletes every API
\* provider, auth_claude.go:108-116).
DoneIsReal ==
  /\ \A f \in Flows : state[f] = "done" => proc[f] = "exit0" /\ closed[f]
  /\ \A s \in Submits : submit[s] = "ok" => proc[target[s]] = "exit0"

\* A retry is never told that its code is invalid because of a rejection that
\* was in the output before it came; so one that has answered a code never
\* answers a code that comes after that answer.  (A rejection that was printed
\* but not read when the retry takes its mark does answer the retry: SubmitCode
\* marks the output, not the code.)
RejectionIsNew ==
  \A s \in Submits : submit[s] = "invalid" => rejects[target[s]] > before[s]

\* A process is never left behind: once a flow is cancelled, its claude is
\* reaped, even if it ignores the interrupt.
CancelEndsProcess ==
  \A f \in Flows : cancel[f] = "grace" ~> closed[f]

\* clauth.go:58-60: there is at most one login flow in flight.
OneFlow ==
  \A f, g \in Flows :
    {f, g} \subseteq {x \in Flows : start[x] = "ready" /\ state[x] \notin Terminal} => f = g
=============================================================================
