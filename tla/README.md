# A verification project for claude-in-box

claude-in-box (`cib`) runs interactive Claude Code processes in a container and
exposes each as a *session*: a PTY, a stream of typed frames, an input channel
and life-cycle controls, behind REST, SSE, WebSocket, an encrypted (AES)
transport and two emulated model APIs. This directory holds TLA+ modules
translated from the Go source, TLC configurations that check them on small
instances, and TLAPS proofs for arbitrary ones. `PROJECT.json` maps every
definition to the lines it models and lists components, runs, mutants,
findings, hazards and theorems.

## 1. Inventory

| Part (source) | State it keeps | Operations | Hard behaviour | What makes it correct |
|---|---|---|---|---|
| Frame bus (`internal/stream/bus.go`) | `seq`, ring buffer, subscriptions with bounded channels | Publish, Subscribe (replay + registration), Cancel, CloseAll, Snapshot | wrap of the ring, slow consumers, the seam of replay and live frames, three ways to close a channel | ring = newest end of the log; each consumer an ordered run without repetition; one close per channel |
| Session (`internal/session`) | `state`, `StoppedAt`, `transcriptStop`, `pty`, `done`, metadata, usage counters, `meta.json` | Spawn, reap, EmitHookFrame, SetState, Write, Kill, SetModel, SetTitle, SetGoal, AddUsage | reaper, hooks, discovery and watchers run at once; nothing is ever removed from the manager | the order stop frame, close, Done; one watcher in charge; a final state stays final |
| Transcript watcher (`internal/cctranscript`) | byte offset, tool names | run, HistoryReplay, Stop | file grows or shrinks under the scan; last line without newline; a line beyond the scanner's buffer | every line that was only seen whole published once, in order; a cancelled watcher ends |
| Turns and chat (`server/send.go`, `messages.go`, `chat_stream.go`) | none between requests; aggregate under construction | WaitForTurn, aggregateMessages, aggregateChat, chatStream | deadline against stop frame, replay overrun, batch against streaming | a turn returns what was said after it was sent; both aggregations agree |
| SSE / WebSocket (`server/sse.go`, `ws.go`) | resume point | stream until end or disconnect | stream of a session that has stopped | every stream ends |
| AES transport (`internal/aes`) | replay cache, stream counters | CheckAndRecord, CheckTimestamp, SealRecord, OpenRecord | eviction at the edge of the window; checks under different locks; reordering, truncation | no envelope accepted twice; a record stream is read as written or rejected |
| AES endpoints (`server/aes.go`, `aes_sessions.go`) | per request | events, messages, chat, session control | snapshot, then subscription | no frame lost in between |
| Model API adapters (`server/anthropic.go`, `openai.go`) | one session per request | run turn, stream, kill | readiness, deadline | the session is killed in every path |
| Session endpoints (`server/sessions.go`) | `providerHost` shared by requests | create, list, kill | concurrent creates | each session gets the host of its own provider |
| Claude login (`internal/clauth`) | the flow: state, PTY, code, timers | Start, SubmitCode, Cancel, reader, reap, idle timeout | one flow, several goroutines writing its state | at most one flow; a final state stays final; nobody waits for ever |
| API tokens (`internal/auth`) | token map, master hash, file | Mint, Revoke, SetMaster, Lookup | save fails after memory changed; restart | what was answered survives a restart |
| Providers, preferences (`internal/providers`, `prefs`) | maps, files | Add, Replace, Delete, Set, Patch | login and API key exclude each other | as above; never both active |
| Ports (`internal/ports`) | mapping to a socat process | Expose, Unexpose, CloseAll | process dies by itself; shutdown | a mapping has a process; none is left behind |
| Shells (`internal/shell`, `server/shells.go`) | PTY, scrollback, subscribers | Spawn, Write, Subscribe, Kill, Forget, a viewer's WebSocket | subscribe after exit; slow viewer; forget of a running shell | a viewer gets the output without a seam and to its end; every handler ends |
| Hook receiver (`internal/hooks`) | none | ServeHTTP | callback for a session not yet, or no more, there | a callback of a dead session changes nothing |
| Process entry (`cmd/cib`) | none | load of the stores, SetMaster | boot with another master token | one master token |
| File API, web UI, client libraries, image | - | - | - | not modelled, see section 7 |

Interaction: HTTP handlers call the session manager and read its sessions; the
manager owns one `Session` per child; each session owns one `Bus`. The PTY
reader, the transcript watchers, hook callbacks and the reaper publish on the
bus; SSE, WebSocket, AES, `/send`, the adapters and the usage accumulator
subscribe to it. The claude child calls back into the hook receiver, which ends
in `Manager.EmitHookFrame`.

## 2. Plan

Order, most important first. Modules marked * exist.

1. `Bus`*, `FrameStream`* (abstract), `BusProofs`*: the bus, and what it promises.
2. `Session`*, `SessionProofs`*: life cycle, hooks, watchers. `Transcript`*,
   `TranscriptProofs`*: what a watcher makes of the file.
3. `EventsStream`*, `EventsStreamProofs`*: AES events, WebSocket, SSE and their
   reconnecting clients.
4. `ClaudeLogin`*, `Credentials`*, `AuthProofs`* (providers,
   preferences and claude's credentials across failed saves and restarts; creation of
   sessions with them).
5. `Turn`*, `TurnProofs`* (WaitForTurn and the model API adapters over a bus);
   `Chat`*, `ChatProofs`* (batch against streaming aggregation, polls and streams that
   resume).
6. `Access`* (tokens across failed saves, crashes and boots; the replay check of
   envelopes), proved about in `AuthProofs`; `Shell`*, `ShellProofs`*.
7. Left: `SessionMeta` (usage accumulator, `writeMeta`, restart); `Ports`; the record
   stream of the AES transport.

Composition: `EventsStream`, `Turn` and `Chat` keep of the bus what one
subscription sees of it, with every use of the bus's lock as one step, which `Bus`
and its refinement of `FrameStream` justify. `Session` treats a transcript as lines
and `Transcript` the lines as bytes.

## 3. The modules

### Bus, FrameStream (`internal/stream/bus.go`)

A frame is its sequence number; the bus looks at nothing else. `Publish`
(`Store`, then `FanOut`), `Cancel` and `CloseAll` run wholly under `Bus.mu` and
are one action each. `Subscribe` also holds the lock, but its replay loop is
unrolled (`SubscribeBegin`, `ReplayStep` per buffered frame, `SubscribeEnd`;
`mu` names the subscription that holds the lock) so that the loop, and not its
intended result, is checked. `PublishFails` is the marshalling error that spends
a number. `Receive` takes no lock. `EndContext` and `CancelOnDone` are the end
of a consumer's context and the goroutine that waits for it. The history
variables (`log`, `joined`, `base`, `replayed`, `got`) record what was
published, and what each subscription's replay left out, sent and delivered.

`FrameStream` says what a reader may see without ring, channels or lock: it
moves along a growing log frame by frame and may jump once, from the past to
the first frame published after it opened. `Bus` implements it under the
mapping `StreamSpec` (`pos` is the log place of the last frame received).

### Session (`internal/session`, `internal/hooks/receiver.go`)

One session. Each goroutine is a program counter: `spawn`, `reap`, `finder`
(startTranscriptWatcher), `hook[h]` for each callback, and the watchers, named
after whoever starts them. A section under `Session.mu` is one action, so is
one Publish; `SetState` is two (`ReapStores`/`ReapTells`,
`HookStores`/`HookTells`) because it is two in the code. Of the bus only the
last status frame (`told`), the stop frames and `busClosed` are kept; of the
transcript, its whole lines, what follows them (`part`: nothing, a torn line, or a
line without its newline), and how often each line was published. A pass that meets
such a last line leaves the watcher's byte offset beyond the end of the file
(`past`); if the file has not grown by the next look, the watcher starts again at
its beginning (`WatcherStartsAgain`; `again` is the history of it). `ChildExits`
covers exit and signal. A hook callback is an external process and may arrive or be
in its handler after the child has exited. Not in this module: input, `SetModel`,
titles, usage and `meta.json`.

### EventsStream (`server/aes.go`, `server/ws.go`, `server/sse.go`, `web/src/lib/ws.ts`)

One client that follows one session over many requests, each from the last frame
it has rendered. `aes` tells the transport: a device on `events/stream`, where
the handler writes the ring's snapshot (`TakeSnapshot`, `WriteReplay`), reads the
resume point (`ReadResume`) and subscribes, or a browser, where the subscription
replays. A frame is three facts (`Shapes`): whether the kinds filter wants it,
its length, and how many of its characters JSON escapes; `Wire` is the length of
the record that `writeFrame` makes of it. `Cut` stands for a deadline and a broken
connection; `DeadlineCloses` is the bus's context goroutine getting there first.
A client that gets a frame renders it: bytes in flight are not modelled, nor are
a WebSocket's input messages and the heartbeats of SSE and WebSocket, which
carry no frame and count towards no budget. Two histories record where the code
lets a frame go by: `overrun`, what a replay left out because the ring had
forgotten it or the channel was full (`LeftOut`), and `passed`, what came between a
device's snapshot and the reading of its resume point.

### ClaudeLogin (`internal/clauth`)

Each flow has a program counter for its Start request, its PTY reader, its reaper, its
idle timer and a Cancel; each `SubmitCode` has its own. `Flow.state` is an atomic that
all of them load and store, so every load and every store is a step, and a decision
may be stale when it is carried out. Of the PTY's output only rejections are kept: how
many claude has printed (`printed`) and how many of them the reader has put into
`Flow.output` (`rejects`), which is a step of its own, so that one can lie unread when
a request takes its mark. Of each request there are the number it starts from (`mark`)
and the number read when it came (`before`, history). A timer that runs may fire at
any time. A client knows a flow's name only once Start has answered, and `GetFlow`
knows only the manager's current flow.

### Credentials (`internal/providers`, `internal/prefs`, `server/providers.go`, `auth_claude.go`, `sessions.go`)

The provider store and the mode in memory (`items`, `mode`) and in their files
(`disk`, `modeDisk`), claude's own credentials (`creds`), and every request that
touches them as a program counter (`write`, `login`, `create`). A store's lock is
held from the change in memory to the rename, so change and save are one action;
the save may fail (`ok`), which leaves memory changed and the file not, and
`Crash` reloads the files and loses the requests under way. A record is named
after the request that wrote it, so that a record that comes back is seen
(`kept`, `gone`, `removed` are the history of what requests were told). A login is
the tail of `ClaudeLogin`: claude has written its credentials, and the code
request either sees that and deletes the providers one by one, or misses it
(`LoginMissed`). `createSession` is five steps because `Server.providerHost`, which
carries the host from its stash to the environment of the child, is shared by
all requests and has no lock; `alone` tells the creations that overlapped no
other. The mode that a user sets with PATCH /api/prefs is not in the model: the
user may name any mode.

### Turn (`server/send.go`, `anthropic.go`, `openai.go`, part of `messages.go`)

One request that asks claude one turn, as a program counter: `send` on a session there
is, `run` and `stream` on a session spawned for it, which first wait for claude to be
ready. A frame is its kind, its number its place in `log`. The bus is what one
subscription sees of it; any frame may come at any time, also a stop nobody asked for.
`WaitForTurn` marks, writes and then subscribes; the event streams mark, subscribe and
then write. Both wait for a stop and drain what still comes; `WaitForTurn` answers
with the texts of every bubble that has grown since the mark (`Answered`), a stream
has passed each text on. `lock` is `Session.mu`, which `Session.Write` keeps until the
PTY has taken all the bytes: a write begins (`WriteBegins`), and it returns or fails
later or never, whether it is this request's or another's (`OthersWrite`). `Kill`, the
reaper's record of the exit and its close of the PTY need the same lock. The deadline
of `/send` runs from after the write, that of a spawned session from before the spawn
(`Deadline`); a client may hang up at any time (`Due`). The two adapters take the same
steps, so `stream` is both. Left out: the wording of prompts and answers, and what
tools did.

### Shell (`internal/shell/shell.go`, `server/shells.go`)

One shell, its child, reader and reaper, and for each viewer and each DELETE the
handler as a program counter (`view`, `delete`). Output is counted in chunks, one
per Read of the PTY. A section under `Shell.mu` is one action: `FanOut` (scrollback
and channels), `Subscribes`, `ReapCloses`. The reader holds a chunk between its
Read and the lock, and the reaper may close the PTY and the channels meanwhile.
A viewer may subscribe at any time after it was looked up, also when the shell is
over. `slow` and `atClose` are history. Input and resizing are left out.

### Access (`internal/auth/tokens.go`, `internal/aes/replay.go`, `server/tokens.go`, part of `server/aes.go`)

The token map in memory and on disk (`mem`, `tokensJson`), where a device token is its
id and the master the secret it was set from. A save may fail after memory was
changed; `ProcessDies` may come at any instant and `Boot` loads, drops the old master and
sets the new. `pending` are the successes not yet answered, `told` those that
reached a client. An envelope's handler has the steps of `readEnvelope1`: the
timestamp (`Receives`), the key (`Keys`), the replay cache (`Records`), each under a
lock of its own or none, with a clock that ticks in between. The clock counts instants,
`Fine` of them in a millisecond, because the code compares the timestamp with whole
milliseconds (`Millis`) and the age of what the cache has seen with instants. A boot
may also be one without a master token (`NoSecret`, with authentication disabled),
which leaves the store as it was loaded; `Down` is the state without a process.
`passed` is the history of what was let through since the boot.

### Chat (`server/messages.go`, `server/chat_stream.go`)

One client that polls or streams, and resumes after the number it was last given.
`aggregateChat`, `aggregateMessages` and `chatAgg.step` are one step per frame and its
repetition over a list of them (`ChatOf`, `Warm` and `Reads` as recursive functions),
so that they can be compared: a message's text is the numbers of the text frames in
it, which tells apart what is lost, doubled, misplaced and reordered. A tool may be a
question (`Questions`, AskUserQuestion), whose result the full list drops; a result
whose tool is not in the list is a tool of its own there and nothing in the slim one;
`Other` are the frames the full list alone shows and `Hidden` those that no list
shows. The stream is its steps: snapshot (`Connect`), its messages one by one
(`WriteHistory`), the warm-up of the aggregator and the subscription (`Subscribe`),
frame by frame (`WriteLive`), end, cut. `sent` is the history of the events it has
written, and `view` that of its messages, each as last written: which message an
update is of is known to this history and not to a client, for an event carries
neither an id nor a number that stays (see section 6). Both are there for the
properties and steer nothing but the number the subscription starts from, the greatest
the handler has written. `gone`, `overrun`, `between` and `unwritten` are the four
ways in which the code lets a text go by, recorded when they happen, so that
`MissedOnlyThere` can say there is no fifth.

### Transcript (`internal/cctranscript/watcher.go`)

A file of bytes, each of which knows its line and place, a writer that adds a line
whole or in parts, and the passes of `Watcher.run`: `Stats`, `Scans` per line,
`ScansTorn` for what is left at the end without a newline, `EndsPass` at the end or
before a line beyond the scanner's buffer. `emit` publishes nothing of a part of a
line. `off` is the offset kept between passes, `at` where the pass is. History:
`out`, `ever`, `torn`.

## 4. The runs

| Run | Shows | Bounds, and why they suffice |
|---|---|---|
| `bus` | unbroken live runs, complete replays, one close per channel; `Bus` implements `FrameStream`; the end of a context closes the channel | two subscriptions with channels 1 and 2 on a ring of 2, 3 frames: the ring wraps, the first subscription fills and is dropped, replays overrun, all three closers meet |
| `session` | order of the ending, watchers, no line twice while it runs unless a watcher has started again, an exit leads to Done | one callback with every event, two lines, each whole, torn or without its newline: hook against discovery, reaper and watchers, a pass at any moment of the writing (the proofs cover any number of callbacks) |
| `session_terminal` (violation) | see section 6 | one callback is enough |
| `login` | done only after a successful exit; a rejection that was read before a code came does not answer that code; a cancelled flow is reaped | one flow, two submissions, two rejections, printed and read apart: a retry, two codes at once, a rejection unread when the retry marks |
| `login_one` (violation) | see section 6 | two flows |
| `events` | a client renders in order, without repetition, misses frames only where the code leaves a gap; a device gets no more than `max_records`, and a frame is refused only if quotes make it too long | 4 frames, ring 3, channel 2, both transports, frames wanted or not, long and quoted: a drop, a full replay, a frame the ring has forgotten, a replay overrun, a cut in either loop, several requests |
| `creds` | what was answered survives; never both ways to log in, and the mode agrees (`OneWayIn`); a lone session's host | two provider requests (an add and a replacement or deletion of it), one login, two creations, one failure, one restart: every pair of requests overlaps, and a fault falls anywhere |
| `turn` | no stop is missed and the answer is complete (`TurnComplete`), a stream is terminated once, a spawned session is killed unless a write keeps its lock | 4 frames, ring 3, channel 2, each handler: a stop before the subscription, a drop, a replay overrun, an evicted text, a stop of an earlier turn, a write of the request or of another that never returns |
| `shell` | a viewer's output has no seam, and is complete when the end is told; every handler ends; a shell deleted with SIGKILL goes | two viewers and a delete, 2 chunks, scrollback and channel of one: the scrollback loses a chunk, a channel fills, a viewer comes before, between and after each step of reader and reaper |
| `access` | what a client was told of a token is so; one master token; an envelope gets in again only after the window, and only by a handler that was delayed, but for the millisecond that one check cuts off | two devices, two secrets and none, one envelope, two handlers, a window of 2 ms on a clock of three milliseconds of two instants: deliveries at either edge and within the last millisecond, a copy between any two checks, an eviction at the very end of the window. Secrets are alike and so are handlers, and no property names one, so TLC takes them up to permutation |
| `chat` | the streamed chat, the polled one and the full one follow the same rules (`SameRules`); a stream is complete; a message never has a text twice, and of two that a stream writes the later goes on with the earlier or shares nothing with it (`OnceEach`); a resuming client misses texts only in the four known ways | 4 frames, ring 3, channel 2, a tool and a question: a question's result, a result without its tool, a stop in the snapshot or live, a frame no list shows, a drop, an overrun, an evicted frame, several requests. `Other` is empty: its frames take the step of a stop in the full list and of a hidden one elsewhere |
| `transcript` | lines once and in order; every line gets published; a cancelled watcher ends | 3 lines of two bytes, of every type, in parts, the third too long: a pass at every byte, a torn line before and after whole ones |

Frames, lines and callbacks are bounded, so runs stop and deadlock is not
checked where a cfg says so.

Fairness: `Bus` assumes that a Subscribe which holds the lock runs on (weak) and
that the goroutine waiting on a done context gets the lock in the end (strong:
other users take it again and again; a Go mutex does not starve a waiter).
`Session` assumes weak fairness of every goroutine of `cib`; nothing obliges
claude to exit, to write or to call a hook. `ClaudeLogin` assumes the same of its
goroutines and timers; nothing obliges a client to submit, cancel or hang up, or
claude to print, reject or exit (an unkilled process may live for ever). `Turn`
assumes that the handler runs, that its deadline passes once it has been set, as every
one has a timer, and that a mutex which is free again and again is got (strong, as for
`Bus`); nothing obliges claude or the session to do anything, and no write to a PTY need
ever return. `SpawnedIsKilled` therefore promises the kill only if the lock is free
again and again. `Shell` assumes weak
fairness of the goroutines and of the handlers, that a ping which is due again and
again is sent (strong: chunks may come first, but the ticker keeps its tick), and
that SIGKILL kills; nothing obliges the shell to exit on anything less, and a viewer
that hangs up is an environment step. `Transcript` assumes that the watcher's
goroutine runs and that claude finishes a line it has begun.

Every property of a passing run has a mutant in `PROJECT.json`, those that are a
conjunction of two statements one for each: a form of a mapped definition as a
plausible bug would leave it, which TLC finds under the same configuration.

## 5. The proofs

`BusProofs` proves for every ring size, channel capacities, set of
subscriptions and number of frames, from `BusAssumption` alone (capacities
positive, `NoSub` not a subscription):

* `TypeCorrect`, `RingCorrect`, `OrderCorrect`, `OverrunBound`: the types, that the
  ring holds the latest frames, the order of what is received, and that only a
  channel smaller than the ring is overrun;
* `LiveRunCorrect`, `ReplayCorrect`, `ClosedOnce`: the invariants of `bus`;
* `Refinement`: `Spec => StreamSpec`.

None of the invariants is inductive alone. `IInv` ties every frame to a *place*
in the log: what a subscription was handed is two runs, the replay after `base`
and the live frames after `joined` (`Runs`, `Placed`); the ring's slots hold the
last `bufLen` places (`RingHolds`); a running replay loop has reached `idx`
(`InLoop`); what a replay left out is gone from the ring, already seen, or
refused by a full channel (`LeftOut`). One lemma per action shows that it keeps
`IInv`; steps that move no frame share `QuietStep`. The ring needs one fact of
arithmetic, the modulus below two turns (`OneTurn`), from which different places
have different slots. The properties follow because places grow along what a
subscription was handed (`PlacesGrow`) and sequence numbers grow along the log.
TLC checked `IInv` as an invariant before it was proved.

`SessionProofs` proves for every set of hook callbacks and every transcript
length, from `SessionAssumption` (the discovery, the callbacks and "no watcher"
are different):

* `TypeCorrect`; `DoneCorrect` and `CloseCorrect`, together `EndCorrect`, from
  `ReapInv`, which says what is done at each step of the reaper;
* `OneWatcherCorrect` and `EarlyCorrect` from `WatchInv`: a running watcher is
  cancelled, or its handle is kept in the session, or the reaper is holding it.
  `OneWatcher` alone is nearly that, but says nothing of the watchers that have
  stopped, on which `EarlyWatchersReleased` depends;
* `LinesCorrect` from `LineInv`: until the exit is recorded, or a watcher goes back to
  the start of the file, the one watcher that ever ran is the one whose handle is kept,
  and what is published are lines it has read. `LinesOnce` is not inductive without it:
  a second watcher would start from the beginning.

`AuthProofs` proves of `ClaudeLogin`, for every set of flows and submissions and every number
of rejections, from `LoginAssumption`:

* `LoginTypeCorrect`, which includes that every submission under way knows its flow;
* `DoneCorrect` from `DoneInv`: the reaper leaves "wait" only when the process has
  exited and closes `done` there, so that the one store of "done" finds "exit0";
  `DoneIsReal` alone does not say where the reaper is;
* `RejectCorrect` from `RejectInv`: the mark of a submission that waits is at
  least what had been read when it came, and what is read only grows. It says nothing
  of a rejection that was printed and not read by then (section 6).

Of `Credentials` it proves for all sets of requests and all bounds on faults, from
`CredentialsAssumption` ("no record" is not a record):

* `CredsTypeCorrect`;
* `SurvivesCorrect` from `SurviveInv`: a record lies under one id at most, a request
  that has not begun has left its record nowhere, and the file holds nothing that
  memory does not, except what was removed. Without these a removal could leave a
  copy behind, or a failed save hide one;
* `NotBothCorrect` from `ExcludeInv`: while both are there, some request under way is
  about to take one away;
* `ModeCorrect` from `ModeInv`, which adds that a request about to set the mode to
  `api_key` has logged claude out, and that a login has listed all that is stored;
* `OneWayCorrect`, which is `NotBothCorrect` and `ModeCorrect` in one;
* `HostCorrect` from `HostInv`: what the shared field holds at each step of a
  creation that is alone.

Of `Access` it proves for all sets of devices, secrets, envelopes and handlers, and
every window, from `AccessAssumption` (devices are not secrets):

* `AccessTypeCorrect`, which includes that a process that is down keeps nothing in memory;
* `TokensCorrect` from `TokenInv`: what `TokensAsTold` says holds from the moment the
  save succeeded, before the answer is sent;
* `MasterCorrect`: `OneMaster` is inductive;
* `GuardCorrect`, which is `OneGuard`, from `CacheInv`: every passage was in time when it
  began (`Near`), and lies in the cache unless the window has gone by since (`Noted`).
  Eviction keeps `Noted` because it drops only what is older than the window, so two
  passages are more than the window apart (`TwiceApart`). How long a repeat was delayed
  is then arithmetic (`RepeatsAreSlow`): two timely arrivals are at most twice half the
  window apart and a little less than a millisecond, the part that `Millis` cuts off.

`ShellProofs` proves for any viewers, deletes, output, scrollback and channel sizes,
from `ShellAssumption` (sizes positive):

* `TypeCorrect` from `TypeInv`, which adds that a viewer who has not subscribed has an
  empty open channel;
* `SeamCorrect` and `EndCorrect` from `StreamInv`. `Seamless` is inductive but for the
  close; `Ended` says what `EndComplete` leaves out: a channel that is closed and was
  not slow was closed by the reaper, and with what was sent it holds all that was
  kept then. Three facts of sequences carry the steps: output grows by one chunk
  (`OutputGrows`), the append goes to the second part (`AppendSecond`), and a chunk that
  passes from the channel to the viewer leaves the whole as it is (`HeadPasses`).

`EventsStreamProofs` proves for every set of frame shapes, of budgets and of transports, and
every ring and channel size, from `StreamAssumption` (sizes positive, a record has
room for more than the slack):

* `TypeCorrect` from `TypeInv`, which adds that a request has a subscription, and
  something in its channel, only in its live loop;
* `OrderCorrect` from `OrderInv`: what is still to be written (`snap`, `queue`) increases
  and is newer than all that was rendered, and a request goes on no earlier than
  there. `InOrder` says nothing of what is on its way;
* `MissedCorrect` from `CoverInv`: a frame is *covered* if it was rendered, may be
  missed, or is not wanted. Up to the resume point all are; in a replay the rest
  is in the snapshot; in the live loop the rest is in the channel, and a channel that
  was closed holds a run without gaps. A frame that is delivered is the least of an
  increasing sequence that holds all that is not covered, so that all before it is
  covered (`DeliverCovers`), which is what a client that resumes after it relies on;
* `LimitsCorrect` from `LimitInv`: a request that runs has not reached its limit yet.
  That a refused frame is one with too many quotes is arithmetic (`TooLongIsQuoted`).

`TurnProofs` proves for every number of frames and every ring and channel size, from
`TurnAssumption` (sizes positive, the calls are among the three handlers):

* `TypeCorrect` from `TypeInv`: nothing is published before the session is there, and a
  channel that is registered is open;
* `EndsCorrect` from `EndsInv`: the count of terminators is one exactly when the
  stream is shut, which happens on the way out only, and no handler leaves with a
  stream that is open. `EndsOnce` alone does not say that a handler which has shut
  its stream does not come back to the loop;
* `TurnCorrect`, both halves of `TurnComplete`. `WatchInv` says that every frame since
  the mark is *met* (taken from the channel and no stop, or left out by the replay)
  or still in the channel, so a stop cannot go by a request that waits
  (`StopIsPending`). `AnswerInv` says that a turn which was answered has met a stop of
  its own, and that the answer holds all texts up to it but for what the ring had
  forgotten (`AnsweredHolds`).

`TranscriptProofs` proves for files and lines of any length, from
`TranscriptAssumption`:

* `TypeCorrect`: the offset stays within the file, or one byte beyond its end and then
  only after a torn line, and a pass never leaves the file. It rests on the first
  newline lying in what is left to read (`NewlineLies`);
* `LinesCorrect`: while no pass has met a torn line, what is published are the frames
  of the first lines of the file, each once and in order. `LayoutInv` says what the
  bytes of the file are, however the writer cut them: line k begins at `Start(k)`, and
  the last line may be there in part. `LinesInv` ties the place of the pass, or the
  offset kept between passes, to such a beginning, and what is published to the lines
  before it. A pass that meets a newline has therefore read exactly one line
  (`ReadsLine`), and published its frames (`EmitsLine`).

The induction these need (the least newline, what `FlattenSeq` of the community
modules makes of a sequence with one part more) is done with the least number of a
set (`LeastNumber`), taken from the well-foundedness of the naturals, because the
theorems of induction take an operator as a parameter.

`ChatProofs` proves for every set of tools and of other frames, every number of frames and
every ring and channel size, from `ChatAssumption` (sizes positive, finitely many
tools, the questions are among them, the kinds of frames are different):

* `TypeCorrect`, `NothingElseMissed` and `StreamShowsAll`, all from the one inductive
  invariant `ChatInv`;
* `EachTextOnce`, which is `OnceEach`, from `ChatInv` and `SentInv`;
* `OneSetOfRules`, which is `SameRules`, from `ChatInv` and `FollowInv`.

What the programs compute is proved first, one lemma per step and per list. A step of
`aggregateChat` keeps every text where it is and adds its own (`ChatStepKind`, `Told`), and
keeps the list tidy: a message has the texts of its role in their order, and the texts
of an earlier message come before those of a later one (`ListStep`, `Tidy`). After the same
frames, what `chatAgg` has open is the end of the list's last message, and all of it
until a stop (`AgreeStep`, `Agree`). What the client sees is tied to what is open in the
same way (`Seen`): an update never takes a text away unless the snapshot had a stop
(`SeenStep`). `UpTo` carries these along the frames of a snapshot and the events of a step.

`ChatInv` then says, beyond types: while the snapshot's messages are written
(`HistoryInv`), those written and those to come are a tidy list that agrees with the
aggregator the snapshot will warm up, and no bubble that is open was last grown after
the greatest number of the list, or the resume point if the list is empty; that is why
a subscription from `SubFrom` hands the aggregator only frames that are new to it. In
the live loop (`LiveInv`) aggregator, view and resume point are all of frames before
those in the channel. `MissInv` is `MissedOnlyThere` for frames that are under way too,
in the channel, in the ring or in messages still to be written; `CompleteInv` the
same for one stream. None of the properties is inductive alone: `MissedOnlyThere`
fails after `WriteLive` without the order of the channel.

`SentInv` is about the events that a stream has written. While the snapshot's are
written they are the view (`AsHistory`), whose messages share no text. From then on each
is neat (texts of its role alone, in order), of any two the later goes on with the earlier
or has none of its texts (`Chained`), and what the aggregator has open goes on in the same
way with every event that shares a text with it (`Leads`). That is what makes the next
update go on with all that was written of its bubble, and it fails at `Subscribe`
without what `ChatInv` says of the list and the aggregator: an open bubble is the list's
last message and all of it. A stop in the snapshot breaks exactly this, as the list does
not close its bubble there, which is the exception `OnceEach` makes.

`FollowInv` says that a stream from the start that has lost nothing, and saw no stop in
its snapshot, follows the lists `aggregateChat` makes of the beginnings of the log (`All`).
While the snapshot is written, what is written and what is to come are the list of a
beginning of the log; in the live loop the view fits the list of all frames before
those in the channel (`UpToDate`). Until a stop the two are equal, and what the aggregator
has open or waits for is the last bubble and the tools of that list (`Matches`). A stop
closes a bubble only in the stream, so after one the two are no longer equal, and equality
of the joined bubbles (`Joined`) is not inductive alone: an update could reach a bubble that
is not the last, or a tool the view does not have. `Fits` adds that an open bubble is the
view's last message (`OpenLast`) and that every waiting tool is among its messages
(`ToolsIn`); then what an event does to the view changes the joined lists as the frame
changes the batch's list (the lemmas on `Join`). `StreamFollows` is `FollowInv` with an empty
channel.

The other half, `ProjectionsAgree`, compares what two programs compute of one snapshot, and
is an induction over its frames (`MessagesFollow`): after each, the full and the slim list
have the same texts (`TextsOf`), the same tools with a result but for questions and for results
that are tools of their own (`EndedOf`), and a tool waits at two places of the same frame,
or in the full list alone, where it has its result already (`Paired`). That last case is
needed because `aggregateMessages` keeps the place of a tool that has its result, and puts
a second result there too; `aggregateChat` forgets the place.

TLC checked each of these inductive invariants on the instance of the module's run
before it was proved. `AuthProofs` extends three components, which is why operators of
two of them carry the prefixes `Login` and `Creds` where they would have the same name.

Only model-checked: liveness (`ContextEndsSubscription`, `ExitLeadsToDone`,
`CancelEndsProcess`, `SpawnedIsKilled`, `ViewersEnd`, `KilledIsForgotten`, `AllPublished`,
`CancelEnds`), which is out of the prover's reach. Every other property of a passing run is
a theorem.

## 6. Findings

* `session_terminal`: a hook whose handler runs across the exit puts the dead
  session back to `idle` or `working`.
* `login_one`: two Starts at once both pass the check for a flow in flight.

Seen while modelling, in the models but not the subject of a run.

Bus and streams: a replay of more frames than the channel holds leaves out the
newest of them, though `bus.go:10-12` promises every frame or a drop
(`bus.go:97`); a frame published between the AES handler's snapshot and the reading
of its resume point is never sent to that device (`aes.go:406` against
`docs/AES-TRANSPORT.md:280`); a long frame with many quotes is still too long after
truncation and ends the stream at every attempt (`aes.go:444`); a consumer dropped
for being slow is told that the session has closed (`aes.go:421`, `sse.go`, `ws.go`).

Sessions: two `SetState` at once can leave the last status frame contradicting the
state (`session.go:206`); a hook of a stopped session is accepted (`manager.go:463`); a
transcript watcher started after the reaper took the handle is never cancelled
(`manager.go:598`). A pass that meets the last line torn, or without its newline, leaves
its offset beyond the end; if the file has not grown by the next look it is read from the
start again, without a pause, and all its lines are published a second time while the
session runs (`watcher.go:140-142`); if it has, a byte is skipped (`watcher.go:169`).
`Session.LinesOnce` ends there, and `Transcript.LinesOnce` at a torn line. A line over
4 MB is met again at every pass, without a pause (`watcher.go:165`).

Login and credentials: `done` of a login is closed before its state is stored, so a
code that logged in can be answered with an error (`clauth.go:293`); a rejected code
can be answered "try again" after claude has exited (`clauth.go:390`); a rejection that
claude printed for an earlier code, and that the reader has not read when the retry takes
its mark, answers the retry, and one rejection answers two codes submitted at once
(`clauth.go:385`); the idle timer
fires only once (`clauth.go:441`); a client that hangs up leaves its flow `verifying`
(`clauth.go:371`); a login whose code request fails all the same leaves providers and
subscription side by side, against `README.md:101` (`auth_claude.go:96`); a provider
request and a login at once can leave a mode that names the one that is gone
(`providers.go:61`); of two sessions created at once, one can get the other's upstream
host, or none (`sessions.go:128`, though `server.go:50` says "per-request scratch").

Turns and chat: a PTY write that claude does not read keeps `Session.mu`
(`session.go:234`), so that the deferred `Kill` of a model API request waits for ever, and
`/send` has no deadline until its own write has returned (`send.go:75-79`); a deadline or the drop of a slow consumer can be answered 200
"closed" instead of 408 (`send.go:99`, `docs/API.md:367`). A chat stream writes the
snapshot's messages in the order of their first frames, so a client that is cut
there resumes past messages it has not got (`chat_stream.go:72`,
`docs/API.md:466-468`); the `last_seq` of a poll is read after its snapshot
(`messages.go:86`). An update does not keep the number of the message it is of:
`chat_stream.go:179` and `:238` give every one that of its newest frame, and no other field
names the message. `docs/API.md:443-453` shows both under one `seq` and says the "client can
blind-replace by `seq`" (464-465); a client that does keeps "hello " and "hello world" as two
messages. What it keeps is still in order and never contradicts itself (`OnceEach`). Of two
tools of one name that run at once, a client cannot tell which an update ended; the
updates a stop makes of several unfinished tools all carry the stop's number, so that of
those a client by `seq` keeps one; and an update of a bubble that goes on after a stop
carries only its later text. The full list drops the result of a question, which the
slim one shows as "ok", and shows a result without its tool, which the slim one drops
(`messages.go:251-261`, `:294-302`). A tool whose stop lies in the warm-up stays "running"; the full projection
does not raise a bubble's number as it grows, so `/messages?since` misses growth.

Shells: a DELETE of a shell that has exited by itself is answered 404 and the shell
stays listed for ever (`shell.go:170`, `shells.go:114`, `docs/API.md:512`); one that
ignores SIGTERM is forgotten and runs on (`shell.go:175`); a viewer dropped for being
slow is told "shell ended"; the reaper closes the PTY though the reader may not have
drained it.

Tokens and envelopes: an envelope whose first delivery comes in the first millisecond
its timestamp allows can be let through again undelayed in the last one, since
`CheckTimestamp` cuts the clock down to milliseconds and the eviction does not
(`replay.go:64`, `:86`); a revocation whose save fails is answered 404 and the token
comes back at the next boot (`tokens.go:302`); a mint whose save fails leaves a token
nobody was given (`tokens.go:229`); the replay cache lives as long as the process.

Hazards without a property, and so not in the list of `PROJECT.json`: a subscription
after `CloseAll`, which only its context ends (`bus.go:136`); the two steps of `SetState`
(`session.go:206`); a hook that calls before its session is registered
(`manager.go:184`); the session's PTY closed before it is drained (`manager.go:191`); the
usage accumulator, which never subscribes again once dropped (`manager.go:200`);
`meta.json`, written in place and without the lock (`session.go:302`).

## 7. Not modelled

* `Ports`, `SessionMeta` (usage, titles, `SetModel`, `meta.json`) and the counters of the AES
  record stream: in the plan of section 2.
* Of the modelled parts: a shell's input and resizing; expiry, `LastUsed` and `Lookup` of
  tokens, and the comparison of scopes; `HistoryReplay` of a resumed session and a
  transcript that claude rewrites; the one-shot endpoints of `aes_sessions.go`, which call session operations; heartbeats and input messages of
  the streams.
* Routing, rendering, the web UI, client libraries, the container image, the file
  API (stateless), and cryptographic primitives, which are taken as ideal.
