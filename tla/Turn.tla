-------------------------------- MODULE Turn --------------------------------
(***************************************************************************)
(* One turn asked of claude over HTTP, from the prompt to the answer.       *)
(*                                                                         *)
(* "send" is POST /api/sessions/{id}/send on a session there is             *)
(* (WaitForTurn, server/send.go); "run" is a model API request for a whole  *)
(* answer (anthropicRunTurn), which spawns a session, waits until claude is *)
(* ready, asks through WaitForTurn and kills it; "stream" is one for a      *)
(* stream of events (anthropicMessagesStream, openaiChatStream).            *)
(*                                                                         *)
(* Of the session there are its end, as the reaper brings it about, and its *)
(* bus, as one subscription sees it (see Bus and EventsStream).             *)
(***************************************************************************)
EXTENDS Naturals, Sequences, SequencesExt

CONSTANTS Calls,     \* the handlers considered
          MaxFrames, \* bound on the frames published
          RingCap, ChanCap

ASSUME TurnAssumption ==
  /\ Calls \subseteq {"send", "run", "stream"}
  /\ MaxFrames \in Nat /\ RingCap \in Nat \ {0} /\ ChanCap \in Nat \ {0}

VARIABLES
  call,       \* the handler
  log,        \* what was published; a frame's place is its number
  stage,      \* the session: none, live, stopped, closed (bus) or gone (PTY)
  lock,       \* its mu: free, or held across a write to the PTY, this handler's
              \* ("turn") or another's ("other")
  pc,         \* where the request is
  mark,       \* the number after which it looks
  registered, \* its subscription is in the bus
  queue,      \* the numbers of the frames in its channel
  closed,     \* its channel is closed
  due,        \* its context is done: deadline, or the client has gone
  stopAt,     \* the stop frame it has received
  said,       \* the assistant's texts it has sent, or answered with
  preamble,   \* the event stream: not begun, open, or shut
  ends,       \* terminators written to it
  result,     \* how the turn ended
  signalled,  \* Kill has been called on the spawned session
  overrun,    \* history: frames since the mark that its replay lacked: the ring had
              \* forgotten them, or the channel was full
  evicted     \* history: how far the ring had forgotten at the answer

busVars == <<log, registered, queue, closed>>
outVars == <<said, preamble, ends>>
vars == <<call, lock, busVars, stage, pc, mark, due, stopAt, outVars, result, signalled, overrun, evicted>>

\* Frames: a text of the assistant's, what else has a line in the chat (a text of
\* the user's, the start of a tool's use), a stop, and the transcript's first line
\* ("meta"), which also stands for what is none of these; Spawn's own frame is
\* "started".
Kinds == {"text", "line", "stop", "meta"}

Init ==
  /\ call \in Calls
  /\ log = <<>>
  /\ stage = IF call = "send" THEN "live" ELSE "none"
  /\ pc = IF call = "send" THEN "mark" ELSE "spawn"
  /\ lock = "free"
  /\ mark = 0 /\ registered = FALSE /\ queue = <<>> /\ closed = FALSE
  /\ due = FALSE /\ stopAt = 0
  /\ said = {} /\ preamble = "no" /\ ends = 0
  /\ result = "none" /\ signalled = FALSE
  /\ overrun = {} /\ evicted = 0

\* What the ring has forgotten, and the frames it holds that are newer than seq.
Forgotten == IF Len(log) > RingCap THEN Len(log) - RingCap ELSE 0

Newer(seq) ==
  LET first == IF Forgotten > seq THEN Forgotten ELSE seq
  IN  [i \in 1..(IF first < Len(log) THEN Len(log) - first ELSE 0) |-> first + i]

\* aggregateChat and filterSince: texts of the assistant's in a row are one bubble,
\* unless another line lies between; it is answered with if its last frame is
\* newer than the mark.
Answered ==
  {n \in Forgotten + 1 .. Len(log) :
     /\ log[n] = "text"
     /\ \E m \in n..Len(log) :
          /\ m > mark /\ log[m] = "text"
          /\ \A k \in n..m : log[k] # "line"}

----------------------------------------------------------------------------
(* The session *)

\* Mutant: the channel grows.
FanOutUnbounded(k) ==
  /\ log' = Append(log, k)
  /\ queue' = IF registered THEN Append(queue, Len(log) + 1) ELSE queue
  /\ UNCHANGED <<registered, closed>>

\* Bus.Publish: a subscriber whose channel is full is dropped.
FanOut(k) ==
  /\ log' = Append(log, k)
  /\ IF registered /\ Len(queue) >= ChanCap
     THEN registered' = FALSE /\ closed' = TRUE /\ UNCHANGED queue
     ELSE /\ queue' = IF registered THEN Append(queue, Len(log) + 1) ELSE queue
          /\ UNCHANGED <<registered, closed>>

\* Reader, watcher and hooks publish, the last two after the end as well.
Publish(k) ==
  /\ stage # "none"
  /\ Len(log) < MaxFrames
  /\ FanOut(k)
  /\ UNCHANGED <<call, lock, stage, pc, mark, due, stopAt, outVars, result, signalled, overrun, evicted>>

\* claude exits; the reaper records it under mu and publishes the stop frame ...
SessionStops ==
  /\ stage = "live" /\ lock = "free"
  /\ stage' = "stopped"
  /\ FanOut("stop")
  /\ UNCHANGED <<call, lock, pc, mark, due, stopAt, outVars, result, signalled, overrun, evicted>>

\* ... closes the bus ...
SessionCloses ==
  /\ stage = "stopped"
  /\ stage' = "closed"
  /\ registered' = FALSE /\ closed' = (closed \/ registered)
  /\ UNCHANGED <<call, lock, log, queue, pc, mark, due, stopAt, outVars, result, signalled, overrun, evicted>>

\* ... and, under mu, the PTY.
PtyCloses ==
  /\ stage = "closed" /\ lock = "free"
  /\ stage' = "gone"
  /\ UNCHANGED <<call, lock, busVars, pc, mark, due, stopAt, outVars, result, signalled, overrun, evicted>>

\* Session.Write keeps mu until the PTY has taken all the bytes.  Somebody else's
\* may begin while there is a PTY; it returns when claude has read enough, or is
\* gone, and not before.
OthersWrite ==
  /\ stage \notin {"none", "gone"} /\ lock = "free"
  /\ lock' = "other"
  /\ UNCHANGED <<call, busVars, stage, pc, mark, due, stopAt, outVars, result, signalled, overrun, evicted>>

OthersWriteReturns ==
  /\ lock = "other"
  /\ lock' = "free"
  /\ UNCHANGED <<call, busVars, stage, pc, mark, due, stopAt, outVars, result, signalled, overrun, evicted>>

----------------------------------------------------------------------------
(* The request *)

\* The client hangs up or the deadline passes ...
Due ==
  /\ ~due /\ pc # "done"
  /\ due' = TRUE
  /\ UNCHANGED <<call, lock, busVars, stage, pc, mark, stopAt, outVars, result, signalled, overrun, evicted>>

\* ... which for a spawned session runs from before the spawn, and for /send from
\* after the write ...
Deadline == Due /\ (call = "send" => pc \notin {"mark", "write", "writing"})

\* ... and the goroutine of Bus.Subscribe may close the channel before the
\* handler, busy with a frame, comes back to its select.
ContextCloses ==
  /\ due /\ registered
  /\ registered' = FALSE /\ closed' = TRUE
  /\ UNCHANGED <<call, lock, log, queue, stage, pc, mark, due, stopAt, outVars, result, signalled, overrun,
                 evicted>>

\* Mutant: the subscription starts from now.
SubscribeNow(from, to) ==
  /\ pc = from /\ pc' = to
  /\ registered' = TRUE /\ closed' = FALSE /\ queue' = <<>>
  /\ UNCHANGED <<call, lock, log, stage, mark, due, stopAt, outVars, result, signalled, overrun, evicted>>

\* Bus.Subscribe after the mark: the replay fills the channel with the oldest.
Subscribe(from, to) ==
  /\ pc = from /\ pc' = to
  /\ registered' = TRUE /\ closed' = FALSE
  /\ queue' = SubSeq(Newer(mark), 1, IF Len(Newer(mark)) < ChanCap THEN Len(Newer(mark)) ELSE ChanCap)
  /\ overrun' = (mark + 1 .. Len(log)) \ ToSet(queue')
  /\ UNCHANGED <<call, lock, log, stage, mark, due, stopAt, outVars, result, signalled, evicted>>

Unsubscribe == registered' = FALSE /\ queue' = <<>> /\ closed' = FALSE

SpawnFails ==
  /\ pc = "spawn"
  /\ pc' = "done" /\ result' = "spawn"
  /\ UNCHANGED <<call, lock, busVars, stage, mark, due, stopAt, outVars, signalled, overrun, evicted>>

\* Spawn publishes "session started".
Spawns ==
  /\ pc = "spawn"
  /\ pc' = "look"
  /\ stage' = "live"
  /\ log' = <<"started">>
  /\ UNCHANGED <<call, lock, registered, queue, closed, mark, due, stopAt, outVars, result, signalled,
                 overrun, evicted>>

\* waitForClaudeReady: the transcript's first line is in the ring, or is waited
\* for after it.
LooksForReady ==
  /\ pc = "look"
  /\ IF \E n \in ToSet(Newer(0)) : log[n] = "meta"
     THEN pc' = "settle" /\ UNCHANGED mark
     ELSE pc' = "listen" /\ mark' = Len(log)
  /\ UNCHANGED <<call, lock, busVars, stage, due, stopAt, outVars, result, signalled, overrun, evicted>>

SeesReady ==
  /\ pc = "await" /\ queue # <<>>
  /\ IF log[Head(queue)] = "meta"
     THEN pc' = "settle" /\ Unsubscribe
     ELSE queue' = Tail(queue) /\ UNCHANGED <<pc, registered, closed>>
  /\ UNCHANGED <<call, lock, log, stage, mark, due, stopAt, outVars, result, signalled, overrun, evicted>>

\* Mutant: the handler returns before its deferred Kill is set up.
NotReadyLeaves ==
  /\ pc \in {"await", "settle"}
  /\ pc' = "done" /\ result' = "ready"
  /\ Unsubscribe
  /\ UNCHANGED <<call, lock, log, stage, mark, due, stopAt, outVars, signalled, overrun, evicted>>

\* Thirty seconds pass, the channel closes, or the context is done.
NotReady ==
  /\ pc = "await" \/ (pc = "settle" /\ due)
  /\ pc' = "leave" /\ result' = "ready"
  /\ Unsubscribe
  /\ UNCHANGED <<call, lock, log, stage, mark, due, stopAt, outVars, signalled, overrun, evicted>>

\* Three seconds for the welcome screen.
Settles ==
  /\ pc = "settle"
  /\ pc' = "mark"
  /\ UNCHANGED <<call, lock, busVars, stage, mark, due, stopAt, outVars, result, signalled, overrun, evicted>>

\* The mark is the newest number.  An event stream begins with its preamble;
\* it subscribes first and writes then, WaitForTurn the other way about.
Marks ==
  /\ pc = "mark"
  /\ mark' = Len(log)
  /\ IF call = "stream"
     THEN pc' = "subscribe" /\ preamble' = "open"
     ELSE pc' = "write" /\ UNCHANGED preamble
  /\ UNCHANGED <<call, lock, busVars, stage, due, stopAt, said, ends, result, signalled, overrun, evicted>>

\* closeStream: the terminators, unless they are written.
CloseStream ==
  IF preamble = "open" THEN ends' = ends + 1 /\ preamble' = "shut" ELSE UNCHANGED <<ends, preamble>>

\* Session.Write takes mu and hands the prompt to the PTY ...
WriteBegins ==
  /\ pc = "write" /\ lock = "free" /\ stage # "gone"
  /\ pc' = "writing" /\ lock' = "turn"
  /\ UNCHANGED <<call, busVars, stage, mark, due, stopAt, outVars, result, signalled, overrun, evicted>>

\* ... which returns once claude has read enough of it.
WriteReturns ==
  /\ pc = "writing"
  /\ pc' = IF call = "stream" THEN "wait" ELSE "subscribe"
  /\ lock' = "free"
  /\ UNCHANGED <<call, busVars, stage, mark, due, stopAt, outVars, result, signalled, overrun, evicted>>

WriteError(at) ==
  /\ pc = at
  /\ pc' = "leave" /\ result' = "write"
  /\ CloseStream
  /\ lock' = "free"
  /\ UNCHANGED <<call, busVars, stage, mark, due, stopAt, said, signalled, overrun, evicted>>

\* closeBus has taken the PTY away; or claude is gone, perhaps before the reaper
\* has noticed.
WriteRefused == lock = "free" /\ stage = "gone" /\ WriteError("write")
WriteFails == WriteError("writing")

\* The handler sees its context done.
TimesOut ==
  /\ pc = "wait" /\ due
  /\ pc' = "leave" /\ result' = "timeout"
  /\ said' = IF call = "stream" THEN said ELSE Answered
  /\ CloseStream
  /\ UNCHANGED <<call, lock, busVars, stage, mark, due, stopAt, signalled, overrun, evicted>>

SeesClosed ==
  /\ pc = "wait" /\ queue = <<>> /\ closed
  /\ pc' = "answer" /\ result' = "closed"
  /\ UNCHANGED <<call, lock, busVars, stage, mark, due, stopAt, outVars, signalled, overrun, evicted>>

\* An event stream passes the assistant's texts on.
Passes(n) == said' = IF call = "stream" /\ log[n] = "text" THEN said \cup {n} ELSE said

Receives ==
  /\ pc = "wait" /\ queue # <<>>
  /\ queue' = Tail(queue)
  /\ Passes(Head(queue))
  /\ IF log[Head(queue)] = "stop"
     THEN pc' = "drain" /\ stopAt' = Head(queue) /\ result' = "ok"
     ELSE UNCHANGED <<pc, stopAt, result>>
  /\ UNCHANGED <<call, lock, log, registered, closed, stage, mark, due, preamble, ends, signalled, overrun,
                 evicted>>

\* The transcript lags behind the hook: 400 ms of what still comes.
Drains ==
  /\ pc = "drain" /\ queue # <<>>
  /\ queue' = Tail(queue)
  /\ Passes(Head(queue))
  /\ UNCHANGED <<call, lock, log, registered, closed, stage, pc, mark, due, stopAt, preamble, ends, result,
                 signalled, overrun, evicted>>

DrainEnds ==
  /\ pc = "drain"
  /\ pc' = "answer"
  /\ UNCHANGED <<call, lock, busVars, stage, mark, due, stopAt, outVars, result, signalled, overrun, evicted>>

\* Mutant: the answer is what came after the stop frame.
AnswersTail ==
  /\ pc = "answer" /\ call # "stream"
  /\ pc' = "leave"
  /\ said' = Answered \ (0..stopAt)
  /\ evicted' = Forgotten
  /\ UNCHANGED <<call, lock, busVars, stage, mark, due, stopAt, preamble, ends, result, signalled, overrun>>

\* WaitForTurn answers with what is new in the snapshot.
Answers ==
  /\ pc = "answer" /\ call # "stream"
  /\ pc' = "leave"
  /\ said' = Answered
  /\ evicted' = Forgotten
  /\ UNCHANGED <<call, lock, busVars, stage, mark, due, stopAt, preamble, ends, result, signalled, overrun>>

\* Mutant: the deferred closeStream is not told.
EndsStreamOpen ==
  /\ pc = "answer" /\ call = "stream"
  /\ pc' = "leave"
  /\ ends' = ends + 1
  /\ UNCHANGED <<call, lock, busVars, stage, mark, due, stopAt, said, preamble, result, signalled, overrun,
                 evicted>>

EndsStream ==
  /\ pc = "answer" /\ call = "stream"
  /\ pc' = "leave"
  /\ ends' = ends + 1 /\ preamble' = "shut"
  /\ UNCHANGED <<call, lock, busVars, stage, mark, due, stopAt, said, result, signalled, overrun, evicted>>

\* The deferred calls: Cancel, closeStream, and Kill for a session of its own,
\* which needs its mu.
Leaves ==
  /\ pc = "leave"
  /\ pc' = IF call = "send" THEN "done" ELSE "kill"
  /\ Unsubscribe
  /\ CloseStream
  /\ UNCHANGED <<call, lock, log, stage, mark, due, stopAt, said, result, signalled, overrun, evicted>>

Kills ==
  /\ pc = "kill" /\ lock = "free"
  /\ pc' = "done"
  /\ signalled' = TRUE
  /\ UNCHANGED <<call, lock, busVars, stage, mark, due, stopAt, outVars, result, overrun, evicted>>

Serve ==
  \/ SpawnFails \/ Spawns \/ LooksForReady \/ Subscribe("listen", "await") \/ SeesReady \/ NotReady
  \/ Settles \/ Marks \/ WriteRefused
  \/ Subscribe("subscribe", IF call = "stream" THEN "write" ELSE "wait")
  \/ TimesOut \/ SeesClosed \/ Receives \/ Drains \/ DrainEnds \/ Answers \/ EndsStream \/ Leaves

Next ==
  \/ \E k \in Kinds : Publish(k)
  \/ SessionStops \/ SessionCloses \/ PtyCloses
  \/ OthersWrite \/ OthersWriteReturns \/ WriteBegins \/ WriteReturns \/ WriteFails \/ Kills
  \/ Due \/ ContextCloses
  \/ Serve

Spec == Init /\ [][Next]_vars

\* The handler runs, its deadline passes, and a mutex that is free again and again
\* is got (sync.Mutex serves its waiters in turn).  No write need ever return.
FairSpec == Spec /\ WF_vars(Serve) /\ SF_vars(WriteBegins \/ Kills) /\ WF_vars(Deadline)

----------------------------------------------------------------------------
(* Properties *)

TypeOK ==
  /\ call \in Calls
  /\ log \in Seq(Kinds \cup {"started"})
  /\ stage \in {"none", "live", "stopped", "closed", "gone"}
  /\ pc \in {"spawn", "look", "listen", "await", "settle", "mark", "subscribe", "write", "writing",
             "wait", "drain", "answer", "leave", "kill", "done"}
  /\ lock \in {"free", "turn", "other"} /\ (lock = "turn" <=> pc = "writing")
  /\ mark \in Nat /\ mark <= Len(log) /\ stopAt \in Nat /\ evicted \in Nat
  /\ registered \in BOOLEAN /\ closed \in BOOLEAN /\ due \in BOOLEAN /\ signalled \in BOOLEAN
  /\ queue \in Seq(1..Len(log)) /\ Len(queue) <= ChanCap
  /\ said \subseteq 1..Len(log) /\ overrun \subseteq 1..Len(log)
  /\ preamble \in {"no", "open", "shut"} /\ ends \in Nat
  /\ result \in {"none", "spawn", "ready", "write", "timeout", "closed", "ok"}

\* The stop of a turn is not missed, however soon it comes after the prompt
\* and however late the handler subscribes: while it waits, every stop frame
\* since the mark is still to be received.
StopPending ==
  pc = "wait" /\ ~closed =>
    \A n \in mark + 1 .. Len(log) : log[n] = "stop" => n \in ToSet(queue) \cup overrun

\* A turn that ended with a stop frame has a stop frame of its own, not an
\* earlier one, and its answer holds every text of the assistant up to it,
\* except what the ring or a full channel had lost.
AnswerHasTurn ==
  pc = "done" /\ result = "ok" =>
    /\ stopAt > mark /\ log[stopAt] = "stop"
    /\ \A n \in mark + 1 .. stopAt :
         log[n] = "text" => \/ n \in said
                            \/ IF call = "stream" THEN n \in overrun ELSE n <= evicted

\* A turn's stop is met, and its answer is whole.
TurnComplete == StopPending /\ AnswerHasTurn

\* anthropic.go:273-275: once a stream has begun, SDK iterators hang unless
\* it is terminated.  It is, exactly once, on every path.
EndsOnce ==
  /\ ends <= 1
  /\ pc = "done" /\ preamble # "no" => ends = 1

\* A session spawned for a request is killed in the end, however it goes -- unless
\* a write to its PTY, this handler's or another's, never returns: a claude that
\* does not read holds up the write, the write mu, and mu Kill (session.go:234-273),
\* and neither the deadline nor the client can help.
SpawnedIsKilled ==
  []<>(lock = "free") => ((call # "send" /\ stage = "live") ~> signalled)
=============================================================================
