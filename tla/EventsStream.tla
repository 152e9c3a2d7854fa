---------------------------- MODULE EventsStream ----------------------------
(***************************************************************************)
(* A client that follows the frames of one session over many requests,     *)
(* each resuming after the last frame it has rendered.                     *)
(*                                                                         *)
(* With aes it is a device on /aes/.../events/stream (aesEventsStream,     *)
(* internal/server/aes.go): the ring's snapshot is written first, then the *)
(* handler subscribes from the bus's newest sequence number.  Without, it  *)
(* is a browser on /ws or /sse (streamWS, streamSSE and web/src/lib/ws.ts):*)
(* the subscription itself replays.  The bus is kept as far as one         *)
(* subscription sees it; each use of its lock is one step (see Bus).       *)
(***************************************************************************)
EXTENDS Naturals, Sequences, SequencesExt

CONSTANTS Transports, \* the values aes may have
          Shapes,     \* frames: wanted by the kinds filter, length, escapes
          MaxFrames,  \* bound on the frames published
          RingCap, ChanCap,
          Budgets,    \* max_records of a device's request; 0 is no limit
          MaxBeats,   \* bound on the heartbeats of a request
          Plain,      \* payload of a record: MaxRecordPlain - InnerHeaderLen
          Slack,      \* what writeFrame leaves for the outer fields: 256
          Outer,      \* length of a frame's outer fields
          Marker      \* length of the truncation marker

ASSUME StreamAssumption ==
  /\ Transports \subseteq BOOLEAN
  /\ Shapes \subseteq [want : BOOLEAN, len : Nat, escapes : Nat]
  /\ {MaxFrames, RingCap, ChanCap} \subseteq Nat \ {0}
  /\ Budgets \subseteq Nat /\ {MaxBeats, Plain, Slack, Outer, Marker} \subseteq Nat
  /\ Slack < Plain

VARIABLES
  aes,       \* the client is a device
  log,       \* the frames published; a frame's place is its number
  over,      \* the session has ended: CloseAll has run
  pc,        \* where the request is
  from,      \* its resume point
  budget,    \* its max_records
  beats,     \* heartbeats written
  sent,      \* frames written
  snap,      \* the numbers of the snapshot's frames it has not come to yet
  registered,\* the subscription is in the bus
  queue,     \* the numbers of the frames in its channel
  closed,    \* its channel is closed
  rendered,  \* the numbers of the frames the client has rendered
  told,      \* the client was told that the session has ended
  refused,   \* a frame could not be written for its length
  passed,    \* history: frames published between snapshot and resume point
  overrun    \* history: frames a replay left out: the ring had forgotten them, or the
             \* channel was full

reqVars == <<from, budget, beats, sent>>
subVars == <<registered, queue, closed>>
cliVars == <<rendered, told, refused>>
vars == <<aes, log, over, pc, reqVars, snap, subVars, cliVars, passed, overrun>>

Init ==
  /\ aes \in Transports
  /\ log = <<>> /\ over = FALSE
  /\ pc = "idle" /\ from = 0 /\ budget = 0 /\ beats = 0 /\ sent = 0 /\ snap = <<>>
  /\ registered = FALSE /\ queue = <<>> /\ closed = FALSE
  /\ rendered = <<>> /\ told = FALSE /\ refused = FALSE
  /\ passed = {} /\ overrun = {}

\* The frames the ring holds that are newer than seq, oldest first.
Newer(seq) ==
  LET first == IF Len(log) > seq + RingCap THEN Len(log) - RingCap ELSE seq
  IN  IF first < Len(log) THEN [i \in 1..(Len(log) - first) |-> first + i] ELSE <<>>

\* The frames after seq that a reader who is given ns does not get.
LeftOut(seq, ns) == (seq + 1 .. Len(log)) \ ToSet(ns)

\* Mutant: the cut leaves nothing for the outer fields.
WireWithoutSlack(f) ==
  IF Outer + f.len <= Plain
  THEN Outer + f.len
  ELSE Outer + Marker + Plain + (IF f.escapes <= Plain THEN f.escapes ELSE Plain)

\* The length of a frame's record: a long one has its data cut to what the
\* slack leaves and quoted, which escapes the quotes in it once more.
Wire(f) ==
  IF Outer + f.len <= Plain \/ f.len <= Plain - Slack
  THEN Outer + f.len
  ELSE Outer + Marker + (Plain - Slack)
       + (IF f.escapes <= Plain - Slack THEN f.escapes ELSE Plain - Slack)

Writable(f) == aes => Wire(f) <= Plain

LastRendered == IF rendered = <<>> THEN 0 ELSE Last(rendered)

----------------------------------------------------------------------------
(* The session *)

\* Mutant: a slow subscriber's frame is skipped.
PublishSkips(f) ==
  /\ Len(log) < MaxFrames
  /\ log' = Append(log, f)
  /\ queue' = IF registered /\ Len(queue) < ChanCap THEN Append(queue, Len(log) + 1) ELSE queue
  /\ passed' = IF pc = "replay" THEN passed \cup {Len(log) + 1} ELSE passed
  /\ UNCHANGED <<aes, over, pc, reqVars, snap, registered, closed, cliVars, overrun>>

\* Bus.Publish: a subscriber whose channel is full is dropped.  Hooks and
\* watchers may publish after the end too.
Publish(f) ==
  /\ Len(log) < MaxFrames
  /\ log' = Append(log, f)
  /\ IF registered /\ Len(queue) >= ChanCap
     THEN registered' = FALSE /\ closed' = TRUE /\ UNCHANGED queue
     ELSE /\ queue' = IF registered THEN Append(queue, Len(log) + 1) ELSE queue
          /\ UNCHANGED <<registered, closed>>
  /\ passed' = IF pc = "replay" THEN passed \cup {Len(log) + 1} ELSE passed
  /\ UNCHANGED <<aes, over, pc, reqVars, snap, cliVars, overrun>>

SessionEnds ==
  /\ ~over
  /\ over' = TRUE
  /\ registered' = FALSE
  /\ closed' = (closed \/ registered)
  /\ UNCHANGED <<aes, log, pc, reqVars, snap, queue, cliVars, passed, overrun>>

----------------------------------------------------------------------------
(* The request *)

\* The handler returns: its deferred Cancel takes the subscription out.
Leave ==
  /\ pc' = "idle"
  /\ registered' = FALSE /\ queue' = <<>> /\ closed' = FALSE
  /\ snap' = <<>>

\* Mutant: the client asks again for the last frame it has.
RequestAgain(b) ==
  /\ pc = "idle"
  /\ aes \/ b = 0
  /\ pc' = IF aes THEN "snapshot" ELSE "subscribe"
  /\ from' = IF LastRendered > 0 THEN LastRendered - 1 ELSE 0
  /\ budget' = b /\ beats' = 0 /\ sent' = 0
  /\ UNCHANGED <<aes, log, over, snap, subVars, cliVars, passed, overrun>>

\* A request resumes after the last frame the client has.
Request(b) ==
  /\ pc = "idle"
  /\ aes \/ b = 0
  /\ pc' = IF aes THEN "snapshot" ELSE "subscribe"
  /\ from' = LastRendered
  /\ budget' = b /\ beats' = 0 /\ sent' = 0
  /\ UNCHANGED <<aes, log, over, snap, subVars, cliVars, passed, overrun>>

TakeSnapshot ==
  /\ pc = "snapshot"
  /\ pc' = "replay"
  /\ snap' = Newer(from)
  /\ overrun' = overrun \cup LeftOut(from, snap')
  /\ UNCHANGED <<aes, log, over, reqVars, subVars, cliVars, passed>>

\* Mutant: max_records is looked at in the live loop only.
WriteReplayFreely ==
  /\ pc = "replay" /\ snap # <<>>
  /\ log[Head(snap)].want /\ Writable(log[Head(snap)])
  /\ rendered' = Append(rendered, Head(snap))
  /\ sent' = sent + 1
  /\ snap' = Tail(snap)
  /\ UNCHANGED <<aes, log, over, pc, from, budget, beats, subVars, told, refused, passed, overrun>>

\* A frame is written to the client, who renders it; with max_records
\* records written, heartbeats among them, the request is over.
Deliver(n) ==
  /\ rendered' = Append(rendered, n)
  /\ sent' = sent + 1
  /\ UNCHANGED <<aes, log, over, from, budget, beats, told, refused, passed, overrun>>

BudgetSpent == budget > 0 /\ sent + 1 + beats >= budget

WriteReplay ==
  /\ pc = "replay" /\ snap # <<>>
  /\ log[Head(snap)].want /\ Writable(log[Head(snap)])
  /\ Deliver(Head(snap))
  /\ IF BudgetSpent THEN Leave ELSE snap' = Tail(snap) /\ UNCHANGED <<pc, subVars>>

\* A frame longer than a record closes the sink; the client tries again.
WriteRefused ==
  /\ \/ pc = "replay" /\ snap # <<>> /\ log[Head(snap)].want /\ ~Writable(log[Head(snap)])
     \/ pc = "live" /\ queue # <<>> /\ log[Head(queue)].want /\ ~Writable(log[Head(queue)])
  /\ refused' = TRUE
  /\ Leave
  /\ UNCHANGED <<aes, log, over, reqVars, rendered, told, passed, overrun>>

\* The subscription's resume point, sess.LastSeq(), read on its own.
ReadResume ==
  /\ pc = "replay" /\ snap = <<>>
  /\ pc' = "subscribe"
  /\ from' = Len(log)
  /\ UNCHANGED <<aes, log, over, budget, beats, sent, snap, subVars, cliVars, passed, overrun>>

\* Mutant: the replay does not look at the channel's capacity.
SubscribeUnbounded ==
  /\ pc = "subscribe"
  /\ pc' = "live"
  /\ registered' = TRUE
  /\ queue' = Newer(from)
  /\ UNCHANGED <<aes, log, over, reqVars, snap, closed, cliVars, passed, overrun>>

\* The replay fills the channel with the oldest of them.
Subscribe ==
  /\ pc = "subscribe"
  /\ pc' = "live"
  /\ registered' = TRUE
  /\ queue' = SubSeq(Newer(from), 1, IF Len(Newer(from)) < ChanCap THEN Len(Newer(from)) ELSE ChanCap)
  /\ overrun' = overrun \cup LeftOut(from, queue')
  /\ UNCHANGED <<aes, log, over, reqVars, snap, closed, cliVars, passed>>

\* The kinds filter, in the replay and in the live loop.
Skip ==
  /\ \/ /\ pc = "replay" /\ snap # <<>> /\ ~log[Head(snap)].want
        /\ snap' = Tail(snap) /\ UNCHANGED queue
     \/ /\ pc = "live" /\ queue # <<>> /\ ~log[Head(queue)].want
        /\ queue' = Tail(queue) /\ UNCHANGED snap
  /\ UNCHANGED <<aes, log, over, pc, reqVars, registered, closed, cliVars, passed, overrun>>

WriteLive ==
  /\ pc = "live" /\ queue # <<>>
  /\ log[Head(queue)].want /\ Writable(log[Head(queue)])
  /\ Deliver(Head(queue))
  /\ IF BudgetSpent
     THEN Leave
     ELSE queue' = Tail(queue) /\ UNCHANGED <<pc, snap, registered, closed>>

\* A heartbeat is a record too.
Beat ==
  /\ aes /\ pc = "live"
  /\ beats < MaxBeats
  /\ beats' = beats + 1
  /\ UNCHANGED <<aes, log, over, pc, from, budget, sent, snap, subVars, cliVars, passed, overrun>>

\* An AES request's deadline has passed, and the goroutine that Subscribe
\* started for it closes the channel before the handler's select has looked.
DeadlineCloses ==
  /\ aes /\ registered
  /\ registered' = FALSE /\ closed' = TRUE
  /\ UNCHANGED <<aes, log, over, pc, reqVars, snap, queue, cliVars, passed, overrun>>

\* The channel is closed: stream end, "event: end" or a normal close.
SeesEnd ==
  /\ pc = "live" /\ queue = <<>> /\ closed
  /\ told' = TRUE
  /\ Leave
  /\ UNCHANGED <<aes, log, over, reqVars, rendered, refused, passed, overrun>>

\* The deadline passes and the select sees it, or the connection breaks.
Cut ==
  /\ pc \in {"replay", "live"}
  /\ Leave
  /\ UNCHANGED <<aes, log, over, reqVars, cliVars, passed, overrun>>

Serve ==
  \/ TakeSnapshot \/ WriteReplay \/ WriteRefused \/ ReadResume \/ Subscribe
  \/ Skip \/ WriteLive \/ SeesEnd

Next ==
  \/ \E f \in Shapes : Publish(f)
  \/ SessionEnds
  \/ \E b \in Budgets : Request(b)
  \/ Serve \/ Beat \/ DeadlineCloses \/ Cut

Spec == Init /\ [][Next]_vars

----------------------------------------------------------------------------
(* Properties *)

TypeOK ==
  /\ log \in Seq(Shapes) /\ Len(log) <= MaxFrames
  /\ pc \in {"idle", "snapshot", "replay", "subscribe", "live"}
  /\ aes \in Transports
  /\ {over, registered, closed, told, refused} \subseteq BOOLEAN
  /\ registered => pc = "live" /\ ~closed
  /\ from \in 0..Len(log) /\ budget \in Budgets \cup {0} /\ beats \in 0..MaxBeats
  /\ Len(queue) <= ChanCap
  /\ snap # <<>> => pc = "replay"
  /\ \A s \in {snap, queue, rendered} : s \in Seq(1..Len(log))

\* Over all its requests the client renders no frame twice and none after a
\* newer one, however they are cut, dropped and resumed.
InOrder ==
  \A i, j \in DOMAIN rendered : i < j => rendered[i] < rendered[j]

\* The client misses a wanted frame only in two places: between the snapshot
\* and the resume point of an AES request, and in a replay of more frames than
\* the ring or the channel holds.  A dropped or cut request loses nothing.
MissedOnlyThere ==
  \A n \in 1..LastRendered :
    log[n].want => n \in ToSet(rendered) \cup passed \cup overrun

\* At most max_records frames are written (docs/AES-TRANSPORT.md:282), whether
\* they come from the snapshot or live.
BudgetKept ==
  budget > 0 => sent <= budget

\* A frame is refused for its length, which ends the stream at it at every
\* attempt, only if the quoting of its cut data escapes more characters than
\* the slack has room for; however long it is otherwise, its record fits.
RefusedOnlyQuoted ==
  refused => \E n \in DOMAIN log : log[n].want /\ Outer + Marker + log[n].escapes > Slack

\* The two limits of a device's request, on records and on their length.
WithinLimits == BudgetKept /\ RefusedOnlyQuoted
=============================================================================
