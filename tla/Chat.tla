-------------------------------- MODULE Chat --------------------------------
(***************************************************************************)
(* The slim chat of a session (internal/server/messages.go, chat_stream.go  *)
(* and their AES counterparts): a client that polls /chat or follows the    *)
(* event stream, and resumes after the last number it was given.            *)
(*                                                                         *)
(* Two programs turn the frames into messages: aggregateChat, over a        *)
(* snapshot, and chatAgg, frame by frame; a stream starts with the first    *)
(* and goes on with the second.  A frame's place in the log is its number   *)
(* and a message's text is the numbers of the text frames in it.            *)
(***************************************************************************)
EXTENDS Naturals, Sequences, FiniteSets, SequencesExt

CONSTANTS Tools,     \* tool_use_ids
          Questions, \* those of AskUserQuestion
          Other,     \* frames the full list alone shows: thinking, usage, ...
          Hidden,    \* and those no list shows: status, raw, hook
          MaxFrames, \* bound on the frames published
          RingCap, ChanCap

ASSUME ChatAssumption ==
  /\ {MaxFrames, RingCap, ChanCap} \subseteq Nat \ {0}
  /\ IsFiniteSet(Tools) /\ Questions \subseteq Tools
  /\ Other \cap {"text", "start", "result", "stop"} = {}
  /\ Hidden \cap (Other \cup {"text", "start", "result", "stop"}) = {}

Texts == {"user", "assistant"}
Frames == [kind : {"text"}, of : Texts] \cup [kind : {"start", "result"}, of : Tools]
          \cup [kind : {"stop"} \cup Other \cup Hidden, of : {"session"}]

VARIABLES
  log,        \* the frames published
  pc,         \* where the client's request is
  last,       \* the number the client resumes after
  since,      \* the request's resume point
  snap,       \* the numbers of the stream's snapshot
  hist,       \* its messages not written yet
  agg,        \* chatAgg: the open bubbles and the tools without a result
  registered, queue, closed, \* the subscription and its channel
  sent,       \* history: the events this stream has written
  view,       \* history: its messages, each as last written
  rendered,   \* history: the text frames any answer has shown
  gone,       \* history: frames the ring had lost when they were asked for
  overrun,    \* history: frames a replay left out of a full channel
  between,    \* history: frames between a poll's snapshot and its last_seq
  unwritten   \* history: text in the messages a cut stream had not written

subVars == <<registered, queue, closed>>
lostVars == <<gone, overrun, between, unwritten>>
vars == <<log, pc, last, since, snap, hist, agg, subVars, sent, view, rendered, lostVars>>

None == [role |-> "none"]
NoAgg == [open |-> [r \in Texts |-> None], tools |-> [t \in Tools |-> None]]

\* A message: its first frame, its number, and a tool's summary.
Bubble(n) == [first |-> n, seq |-> n, role |-> log[n].of, text |-> <<n>>, summary |-> ""]
Tool(n) == [first |-> n, seq |-> n, role |-> "tool", text |-> <<>>, summary |-> "running"]
Grown(m, n) == [m EXCEPT !.seq = n, !.text = Append(@, n)]
Ended(m, n, sum) == [m EXCEPT !.seq = n, !.summary = sum]

\* The ring keeps the last RingCap frames; those after n that are still there.
Forgotten == IF Len(log) > RingCap THEN Len(log) - RingCap ELSE 0
Newer(n) ==
  LET first == IF Forgotten > n THEN Forgotten ELSE n
  IN  [i \in 1..(IF first < Len(log) THEN Len(log) - first ELSE 0) |-> first + i]
Snapshot == Newer(0)
TextOf(ms) == UNION {ToSet(ms[i].text) : i \in DOMAIN ms}
IsText(n) == log[n].kind = "text"

----------------------------------------------------------------------------
(* The projections of a snapshot *)

ChatStep(acc, n) ==
  LET f == log[n]
      out == acc.out
  IN  CASE f.kind = "text" /\ out # <<>> /\ Last(out).role = f.of ->
             [acc EXCEPT !.out = Append(Front(out), Grown(Last(out), n))]
        [] f.kind = "text" /\ ~(out # <<>> /\ Last(out).role = f.of) ->
             [acc EXCEPT !.out = Append(out, Bubble(n))]
        [] f.kind = "start" ->
             [out |-> Append(out, Tool(n)), tools |-> [acc.tools EXCEPT ![f.of] = Len(out) + 1]]
        [] f.kind = "result" /\ acc.tools[f.of] > 0 ->
             [out |-> [out EXCEPT ![acc.tools[f.of]] = Ended(@, n, "ok")],
              tools |-> [acc.tools EXCEPT ![f.of] = 0]]
        [] OTHER -> acc

NoChat == [out |-> <<>>, tools |-> [t \in Tools |-> 0]]

\* What the first frames of ns make, for each number of them.
ChatOf(ns) ==
  LET acc[k \in 0..Len(ns)] == IF k = 0 THEN NoChat ELSE ChatStep(acc[k - 1], ns[k])
  IN  acc

aggregateChat(ns) == ChatOf(ns)[Len(ns)].out

\* Mutant: a result goes to the newest message.
AtNewest(acc, n) == Len(acc.out)

\* Where a result's tool is in the list.
AtTool(acc, n) == acc.tools[log[n].of]

\* The full messages: one without text or result, and what is written to one.
Card(n) == [first |-> n, seq |-> n, role |-> log[n].of, text |-> <<>>, summary |-> ""]
Widened(m, n) == [m EXCEPT !.text = Append(@, n)]
WithResult(m) == [m EXCEPT !.summary = "ok"]

\* aggregateMessages: a bubble keeps the number of its first frame, a tool takes
\* every result of its id, a question none, and a result whose tool is not in
\* the list is a tool of its own.
MessageStep(acc, n) ==
  LET f == log[n]
      out == acc.out
      merge == out # <<>> /\ Last(out).role = f.of
      asked == f.of \in Questions
  IN  CASE IsText(n) /\ merge -> [acc EXCEPT !.out = Append(Front(out), Widened(Last(out), n))]
        [] IsText(n) /\ ~merge -> [acc EXCEPT !.out = Append(out, Bubble(n))]
        [] f.kind = "start" ->
             [out |-> Append(out, IF asked THEN Card(n) ELSE Tool(n)),
              tools |-> [acc.tools EXCEPT ![f.of] = Len(out) + 1]]
        [] f.kind = "result" /\ acc.tools[f.of] > 0 /\ ~asked ->
             [acc EXCEPT !.out = [out EXCEPT ![AtTool(acc, n)] = WithResult(@)]]
        [] f.kind = "result" /\ acc.tools[f.of] = 0 -> [acc EXCEPT !.out = Append(out, WithResult(Tool(n)))]
        [] f.kind \in Other \cup {"stop"} -> [acc EXCEPT !.out = Append(out, Card(n))]
        [] OTHER -> acc

\* What the first frames of ns make of it, for each number of them.
MessagesOf(ns) ==
  LET acc[k \in 0..Len(ns)] == IF k = 0 THEN NoChat ELSE MessageStep(acc[k - 1], ns[k])
  IN  acc

aggregateMessages(ns) == MessagesOf(ns)[Len(ns)].out

\* The messages of ms whose number is above n.
filterSince(ms, n) ==
  LET kept[k \in 0..Len(ms)] ==
        IF k = 0 THEN <<>>
        ELSE IF ms[k].seq > n THEN Append(kept[k - 1], ms[k]) ELSE kept[k - 1]
  IN  kept[Len(ms)]

----------------------------------------------------------------------------
(* The projection of a stream: chatAgg.step *)

Event(name, m) == [event |-> name, msg |-> m]

\* What the aggregator a does with frame n: its new state, and what it emits.
Step(a, n) ==
  LET f == log[n]
      shut == [r \in Texts |-> None]
      waits == {t \in Tools : a.tools[t] # None}
  IN  CASE f.kind = "text" /\ a.open[f.of] = None ->
             [agg |-> [a EXCEPT !.open = [shut EXCEPT ![f.of] = Bubble(n)]],
              out |-> <<Event("chat", Bubble(n))>>]
        [] f.kind = "text" /\ a.open[f.of] # None ->
             [agg |-> [a EXCEPT !.open[f.of] = Grown(@, n)],
              out |-> <<Event("update", Grown(a.open[f.of], n))>>]
        [] f.kind = "start" ->
             [agg |-> [open |-> shut, tools |-> [a.tools EXCEPT ![f.of] = Tool(n)]],
              out |-> <<Event("chat", Tool(n))>>]
        [] f.kind = "result" /\ a.tools[f.of] # None ->
             [agg |-> [a EXCEPT !.tools[f.of] = None],
              out |-> <<Event("update", Ended(a.tools[f.of], n, "ok"))>>]
        [] f.kind = "stop" ->
             [agg |-> NoAgg,
              out |-> SetToSeq({Event("update", Ended(a.tools[t], n, "orphan")) : t \in waits})
                      \o <<Event("stop", None)>>]
        [] OTHER -> [agg |-> a, out |-> <<>>]

\* warmup: the frames of the snapshot, with what they emit swallowed.
Warm(ns) ==
  LET a[k \in 0..Len(ns)] == IF k = 0 THEN NoAgg ELSE Step(a[k - 1], ns[k]).agg
  IN  a[Len(ns)]

\* The message an update is of, which no event tells a client: a tool's is the
\* one that began with its frame, a text's the last bubble of the role.  One
\* from before the resume point is new to this stream.
Shown(ms, e) ==
  LET m == e.msg
      same == {i \in DOMAIN ms : /\ ms[i].role = m.role
                                 /\ m.role = "tool" => ms[i].first = m.first}
  IN  IF e.event = "stop" THEN ms
      ELSE IF e.event = "chat" \/ same = {} THEN Append(ms, m)
      ELSE [ms EXCEPT ![Max(same)] = m]

\* The messages after the events es.
Reads(ms, es) ==
  LET v[k \in 0..Len(es)] == IF k = 0 THEN ms ELSE Shown(v[k - 1], es[k])
  IN  v[Len(es)]

----------------------------------------------------------------------------

Init ==
  /\ log = <<>> /\ pc = "idle" /\ last = 0 /\ since = 0
  /\ snap = <<>> /\ hist = <<>> /\ agg = NoAgg
  /\ registered = FALSE /\ queue = <<>> /\ closed = FALSE
  /\ sent = <<>> /\ view = <<>> /\ rendered = {}
  /\ gone = {} /\ overrun = {} /\ between = {} /\ unwritten = {}

\* Mutant: a slow subscriber's frame is skipped.
PublishSkips(f) ==
  /\ Len(log) < MaxFrames
  /\ log' = Append(log, f)
  /\ queue' = IF registered /\ Len(queue) < ChanCap THEN Append(queue, Len(log')) ELSE queue
  /\ between' = IF pc = "polled" THEN between \cup {Len(log')} ELSE between
  /\ UNCHANGED <<pc, last, since, snap, hist, agg, registered, closed, sent, view, rendered,
                 gone, overrun, unwritten>>

\* Bus.Publish: a subscriber whose channel is full is dropped.
Publish(f) ==
  /\ Len(log) < MaxFrames
  /\ log' = Append(log, f)
  /\ IF registered /\ Len(queue) >= ChanCap
     THEN registered' = FALSE /\ closed' = TRUE /\ UNCHANGED queue
     ELSE /\ queue' = IF registered THEN Append(queue, Len(log')) ELSE queue
          /\ UNCHANGED <<registered, closed>>
  /\ between' = IF pc = "polled" THEN between \cup {Len(log')} ELSE between
  /\ UNCHANGED <<pc, last, since, snap, hist, agg, sent, view, rendered, gone, overrun, unwritten>>

\* chatMessages: the messages of a snapshot,
Poll ==
  /\ pc = "idle"
  /\ pc' = "polled" /\ since' = last
  /\ rendered' = rendered \cup TextOf(filterSince(aggregateChat(Snapshot), last))
  /\ gone' = gone \cup (last + 1)..Forgotten
  /\ UNCHANGED <<log, last, snap, hist, agg, subVars, sent, view, overrun, between, unwritten>>

\* ... and the newest number, read on its own, for the next poll.
PollEnds ==
  /\ pc = "polled"
  /\ pc' = "idle" /\ last' = Len(log)
  /\ UNCHANGED <<log, since, snap, hist, agg, subVars, sent, view, rendered, lostVars>>

\* chatStream takes its snapshot.
Connect ==
  /\ pc = "idle"
  /\ pc' = "history" /\ since' = last
  /\ snap' = Snapshot /\ hist' = filterSince(aggregateChat(Snapshot), last)
  /\ sent' = <<>> /\ view' = <<>>
  /\ gone' = gone \cup (last + 1)..Forgotten
  /\ UNCHANGED <<log, last, agg, subVars, rendered, overrun, between, unwritten>>

\* A message of the snapshot is written, and its number becomes the client's.
WriteHistory ==
  /\ pc = "history" /\ hist # <<>>
  /\ hist' = Tail(hist)
  /\ sent' = Append(sent, Event("chat", Head(hist)))
  /\ view' = Append(view, Head(hist)) /\ last' = Head(hist).seq
  /\ rendered' = rendered \cup ToSet(Head(hist).text)
  /\ UNCHANGED <<log, pc, since, snap, agg, subVars, lostVars>>

\* The greatest number written.
SubFrom == Max({0} \cup {view[i].seq : i \in DOMAIN view})

\* Registration from number n, with the replay the ring and the channel allow.
Register(n) ==
  /\ pc' = "live" /\ registered' = TRUE
  /\ queue' = SubSeq(Newer(n), 1, IF Len(Newer(n)) < ChanCap THEN Len(Newer(n)) ELSE ChanCap)
  /\ overrun' = overrun \cup (ToSet(Newer(n)) \ ToSet(queue'))
  /\ gone' = gone \cup (n + 1)..Forgotten
  /\ UNCHANGED <<log, last, since, snap, hist, closed, sent, view, rendered, between, unwritten>>

\* Mutant: the aggregator starts afresh.
SubscribeCold ==
  /\ pc = "history" /\ hist = <<>>
  /\ agg' = NoAgg
  /\ Register(IF view = <<>> THEN since ELSE SubFrom)

\* Mutant: the subscription starts at the client's own number.
SubscribeSince ==
  /\ pc = "history" /\ hist = <<>>
  /\ agg' = Warm(snap)
  /\ Register(since)

\* Mutant: the subscription starts at the bus's newest number.
SubscribeNewest ==
  /\ pc = "history" /\ hist = <<>>
  /\ agg' = Warm(snap)
  /\ Register(Len(log))

\* The aggregator is warmed up with the snapshot, and the subscription starts
\* after the newest message written.
Subscribe ==
  /\ pc = "history" /\ hist = <<>>
  /\ agg' = Warm(snap)
  /\ Register(IF view = <<>> THEN since ELSE SubFrom)

WriteLive ==
  /\ pc = "live" /\ queue # <<>>
  /\ LET n == Head(queue)
         s == Step(agg, n)
     IN  /\ agg' = s.agg
         /\ sent' = sent \o s.out /\ view' = Reads(view, s.out)
         /\ last' = IF s.out = <<>> THEN last ELSE n
         /\ rendered' = rendered \cup (IF IsText(n) THEN ToSet(s.out[1].msg.text) ELSE {})
  /\ queue' = Tail(queue)
  /\ UNCHANGED <<log, pc, since, snap, hist, registered, closed, lostVars>>

\* Mutant: the subscription outlives the request.
LeaveRegistered ==
  /\ pc' = "idle" /\ sent' = <<>> /\ view' = <<>> /\ agg' = NoAgg /\ snap' = <<>> /\ hist' = <<>>
  /\ queue' = <<>> /\ closed' = FALSE /\ UNCHANGED registered

\* The handler returns, with its deferred Cancel.
Leave ==
  /\ pc' = "idle" /\ sent' = <<>> /\ view' = <<>> /\ agg' = NoAgg /\ snap' = <<>> /\ hist' = <<>>
  /\ queue' = <<>> /\ closed' = FALSE /\ registered' = FALSE

\* "event: end", at the end of the session or when the stream was dropped.
SeesClosed ==
  /\ pc = "live" /\ queue = <<>> /\ closed
  /\ Leave
  /\ UNCHANGED <<log, last, since, rendered, lostVars>>

\* The connection is cut, with messages of the snapshot still to be written.
Cut ==
  /\ pc \in {"history", "live"}
  /\ Leave
  /\ unwritten' = unwritten \cup TextOf(hist)
  /\ UNCHANGED <<log, last, since, rendered, gone, overrun, between>>

Next ==
  \/ \E f \in Frames : Publish(f)
  \/ Poll \/ PollEnds
  \/ Connect \/ WriteHistory \/ Subscribe \/ WriteLive \/ SeesClosed \/ Cut

Spec == Init /\ [][Next]_vars

----------------------------------------------------------------------------
(* Properties *)

Message(m) ==
  /\ m.first \in 1..Len(log) /\ m.seq \in m.first..Len(log)
  /\ m.role \in Texts \cup {"tool"} /\ m.summary \in {"", "running", "ok", "orphan"}
  /\ ToSet(m.text) \subseteq m.first..m.seq

\* The shapes of messages.go and chat_stream.go; a client without a request
\* has no subscription.
TypeOK ==
  /\ log \in Seq(Frames) /\ Len(log) <= MaxFrames
  /\ pc \in {"idle", "polled", "history", "live"}
  /\ last \in 0..Len(log) /\ since \in 0..Len(log)
  /\ \A i \in DOMAIN hist : Message(hist[i])
  /\ \A i \in DOMAIN view : Message(view[i])
  /\ \A r \in Texts : agg.open[r] # None => Message(agg.open[r]) /\ agg.open[r].role = r
  /\ \A t \in Tools : agg.tools[t] # None => Message(agg.tools[t])
  /\ registered \in BOOLEAN /\ closed \in BOOLEAN /\ Len(queue) <= ChanCap
  /\ registered => pc = "live" /\ ~closed
  /\ rendered \cup gone \cup overrun \cup between \cup unwritten \subseteq 1..MaxFrames

\* A stream whose client has read all there is.
CaughtUp == pc = "live" /\ registered /\ queue = <<>>

\* The messages with the bubbles of one role in a row made one.
Join(out, m) ==
  IF out # <<>> /\ m.role # "tool" /\ Last(out).role = m.role
  THEN Append(Front(out), [Last(out) EXCEPT !.text = @ \o m.text])
  ELSE Append(out, [role |-> m.role, first |-> m.first, text |-> m.text])

Joined(ms) ==
  LET j[k \in 0..Len(ms)] == IF k = 0 THEN <<>> ELSE Join(j[k - 1], ms[k])
  IN  j[Len(ms)]

\* The texts of a list of messages, one after the other.
TextsOf(ms) ==
  LET t[k \in 0..Len(ms)] == IF k = 0 THEN <<>> ELSE t[k - 1] \o ms[k].text
  IN  t[Len(ms)]

StopIn(ns) == \E i \in DOMAIN ns : log[ns[i]].kind = "stop"

\* The streamed chat follows the rules of the polled one across the seam of
\* snapshot, warm-up and subscription: the messages of a stream from the start,
\* each as last written, are what aggregateChat makes of the whole log, number
\* and summary included, until a stop, which closes a bubble only in the stream;
\* after one that the stream has seen live they are the same up to where the
\* bubbles are split.
StreamFollows ==
  CaughtUp /\ since = 0 /\ gone \cup overrun = {} /\ ~StopIn(snap) =>
    LET all == [n \in 1..Len(log) |-> n]
    IN  /\ Joined(view) = Joined(aggregateChat(all))
        /\ ~StopIn(all) => view = aggregateChat(all)

\* Every text after the resume point is in the messages of a stream that has
\* read all there is, unless the ring or the replay had no room for it, or an
\* update of a bubble that went on after a stop has taken it away.
StreamComplete ==
  CaughtUp =>
    LET missing == {n \in (since + 1)..Len(log) : IsText(n)} \ (gone \cup overrun \cup TextOf(view))
    IN  missing \subseteq rendered /\ (missing # {} => StopIn(snap))

\* A message that a stream writes has texts of its role alone, each once and in
\* their order; of two that it writes either the later repeats the texts of the
\* earlier and goes on, or no text is in both, unless a stop in the snapshot made
\* of a bubble of the list two of the stream.
OnceEach ==
  LET written == {i \in DOMAIN sent : sent[i].event # "stop"}
      text(i) == sent[i].msg.text
  IN  /\ \A i \in written : \A k \in DOMAIN text(i) :
           /\ log[text(i)[k]].of = sent[i].msg.role
           /\ k > 1 => text(i)[k - 1] < text(i)[k]
      /\ ~StopIn(snap) => \A i, j \in written : i < j =>
           ToSet(text(i)) \cap ToSet(text(j)) = {} \/ IsPrefix(text(i), text(j))

\* A client that resumes, by polls or streams in any order, after the number
\* it was given has been shown all text up to there, but for what the ring had
\* lost, what a replay left out, what came between a poll's snapshot and its
\* last_seq, and what a cut stream had not written yet.
MissedOnlyThere ==
  \A n \in 1..last :
    IsText(n) => n \in rendered \cup TextOf(hist) \cup gone \cup overrun \cup between \cup unwritten

\* The full and the slim projection of a snapshot show the same text in the
\* same order, and give a result to the same tools, but that a question has its
\* result in the slim list alone, and a result without its tool is shown by the
\* full one alone.
Results == {n \in 1..Len(log) : log[n].kind = "result"}
Asked == {n \in 1..Len(log) : log[n].kind = "start" /\ log[n].of \in Questions}
ProjectionsAgree ==
  LET full == aggregateMessages(Snapshot)
      slim == aggregateChat(Snapshot)
      Finished(ms) == {ms[i].first : i \in {k \in DOMAIN ms : ms[k].summary = "ok"}}
  IN  TextsOf(full) = TextsOf(slim) /\ Finished(full) \ Results = Finished(slim) \ Asked

\* The three programs that make messages of frames follow the same rules.
SameRules == StreamFollows /\ ProjectionsAgree
=============================================================================
