-------------------------------- MODULE Bus --------------------------------
(***************************************************************************)
(* internal/stream/bus.go: the fan-out of one session's frames to its      *)
(* subscribers, with a ring buffer of past frames for replay.              *)
(*                                                                         *)
(* A frame is represented by its sequence number: the bus never looks at   *)
(* anything else.  Publish, Cancel and CloseAll run entirely under Bus.mu  *)
(* and are one step each.  Subscribe also holds Bus.mu, but its replay     *)
(* loop is unrolled into one step per buffered frame so that the loop, and *)
(* not its intended result, is what is checked; `mu` is the subscription   *)
(* whose Subscribe holds the lock.  A consumer's channel receive takes no  *)
(* lock and interleaves with everything.                                   *)
(***************************************************************************)
EXTENDS Naturals, Sequences

CONSTANTS Subs,     \* subscription ids (subID hands out each one once)
          NoSub,    \* no Subscribe is running
          BufCap,   \* Bus.bufCap, positive once NewBus has defaulted it
          ChanCap,  \* capacity of each subscription's channel
          MaxSeq    \* bound on the number of Publish calls

ASSUME BusAssumption ==
  /\ NoSub \notin Subs
  /\ BufCap \in Nat \ {0}
  /\ ChanCap \in [Subs -> Nat \ {0}]
  /\ MaxSeq \in Nat

VARIABLES
  seq,        \* Bus.seq, the last number assigned
  buf,        \* Bus.buf
  bufHead,    \* Bus.bufHead
  bufLen,     \* Bus.bufLen
  subs,       \* the keys of Bus.subs
  mu,         \* the subscription whose Subscribe holds Bus.mu, or NoSub
  idx,        \* the index i of that Subscribe's replay loop
  created,    \* the subscriptions Subscribe has made
  fromSeq,    \* Subscribe's argument of each
  ch,         \* what each subscription's channel holds
  closes,     \* how often each channel has been closed
  ctxDone,    \* the subscriptions whose context is done
  cancelled,  \* the subscriptions whose cancelOnce has fired
  \* history: what the properties talk about
  log,        \* the frames published (a failed marshal publishes none)
  joined,     \* how many frames were in log when each subscription was made
  base,       \* how many of them its replay left out as gone or already seen
  replayed,   \* how many of them its replay sent
  got         \* the frames each consumer has received, in order

ringVars == <<seq, buf, bufHead, bufLen, log>>
loopVars == <<mu, idx>>
subVars  == <<created, fromSeq, joined, base, replayed>>
vars == <<ringVars, loopVars, subVars, subs, ch, closes, ctxDone, cancelled, got>>

----------------------------------------------------------------------------
(* The ring buffer. *)

\* Mutant: the rotation of the ring is forgotten.
SlotUnrotated(i) == i

Slot(i) == (bufHead + i) % BufCap

\* The i-th oldest retained frame, i counted from 0.
At(i) == buf[Slot(i)]

\* Bus.Snapshot, a copy of what is retained, oldest first.
Snapshot == [i \in 1..bufLen |-> At(i - 1)]

----------------------------------------------------------------------------

Init ==
  /\ seq = 0
  /\ buf = [i \in 0..(BufCap - 1) |-> 0]
  /\ bufHead = 0
  /\ bufLen = 0
  /\ subs = {}
  /\ mu = NoSub
  /\ idx = 0
  /\ created = {}
  /\ fromSeq = [s \in Subs |-> 0]
  /\ ch = [s \in Subs |-> <<>>]
  /\ closes = [s \in Subs |-> 0]
  /\ ctxDone = {}
  /\ cancelled = {}
  /\ log = <<>>
  /\ joined = [s \in Subs |-> 0]
  /\ base = [s \in Subs |-> 0]
  /\ replayed = [s \in Subs |-> 0]
  /\ got = [s \in Subs |-> <<>>]

\* Publish when NewFrame cannot marshal the payload: the number is spent.
PublishFails ==
  /\ mu = NoSub
  /\ seq < MaxSeq
  /\ seq' = seq + 1
  /\ UNCHANGED <<buf, bufHead, bufLen, log, loopVars, subVars, subs, ch, closes,
                 ctxDone, cancelled, got>>

\* The frame goes into the next free slot, or over the oldest one.
Store(f) ==
  IF bufLen < BufCap
  THEN /\ buf' = [buf EXCEPT ![Slot(bufLen)] = f]
       /\ bufLen' = bufLen + 1
       /\ UNCHANGED bufHead
  ELSE /\ buf' = [buf EXCEPT ![bufHead] = f]
       /\ bufHead' = (bufHead + 1) % BufCap
       /\ UNCHANGED bufLen

Full(s) == Len(ch[s]) = ChanCap[s]

\* Mutant: a slow subscriber misses the frame and stays.
FanOutSkipsSlow(f) ==
  /\ ch' = [s \in Subs |-> IF s \in subs /\ ~Full(s) THEN Append(ch[s], f) ELSE ch[s]]
  /\ UNCHANGED <<closes, subs>>

\* The non-blocking send to every subscriber; one whose channel is full is
\* removed and its channel closed.
FanOut(f) ==
  /\ ch' = [s \in Subs |-> IF s \in subs /\ ~Full(s) THEN Append(ch[s], f) ELSE ch[s]]
  /\ closes' = [s \in Subs |-> IF s \in subs /\ Full(s) THEN closes[s] + 1 ELSE closes[s]]
  /\ subs' = {s \in subs : ~Full(s)}

Publish ==
  /\ mu = NoSub
  /\ seq < MaxSeq
  /\ seq' = seq + 1
  /\ log' = Append(log, seq + 1)
  /\ Store(seq + 1)
  /\ FanOut(seq + 1)
  /\ UNCHANGED <<loopVars, subVars, ctxDone, cancelled, got>>

\* Subscribe up to its loop: a new id and channel, and the lock.  A client
\* names any resume point, also one the bus has not reached.
SubscribeBegin(s, from) ==
  /\ mu = NoSub
  /\ s \notin created
  /\ created' = created \cup {s}
  /\ fromSeq' = [fromSeq EXCEPT ![s] = from]
  /\ mu' = s
  /\ idx' = 0
  /\ joined' = [joined EXCEPT ![s] = Len(log)]
  /\ base' = [base EXCEPT ![s] = Len(log) - bufLen]
  /\ UNCHANGED <<ringVars, replayed, subs, ch, closes, ctxDone, cancelled, got>>

\* Mutant: the frame after the resume point is taken as seen.
AlreadySeenOneMore(s, f) == f <= fromSeq[s] + 1

AlreadySeen(s, f) == f <= fromSeq[s]

\* One iteration of the replay loop: skip an old frame, send a newer one, or
\* find the channel full and go on without it.
ReplayStep ==
  /\ mu # NoSub
  /\ idx < bufLen
  /\ idx' = idx + 1
  /\ \/ /\ AlreadySeen(mu, At(idx))
        /\ base' = [base EXCEPT ![mu] = @ + 1]
        /\ UNCHANGED <<ch, replayed>>
     \/ /\ ~AlreadySeen(mu, At(idx))
        /\ ~Full(mu)
        /\ ch' = [ch EXCEPT ![mu] = Append(@, At(idx))]
        /\ replayed' = [replayed EXCEPT ![mu] = @ + 1]
        /\ UNCHANGED base
     \/ /\ ~AlreadySeen(mu, At(idx))
        /\ Full(mu)
        /\ UNCHANGED <<ch, base, replayed>>
  /\ UNCHANGED <<ringVars, mu, created, fromSeq, joined, subs, closes, ctxDone,
                 cancelled, got>>

\* The end of Subscribe: the subscription is registered, the lock released.
SubscribeEnd ==
  /\ mu # NoSub
  /\ idx = bufLen
  /\ subs' = subs \cup {mu}
  /\ mu' = NoSub
  /\ UNCHANGED <<ringVars, idx, subVars, ch, closes, ctxDone, cancelled, got>>

\* The consumer receives; what was sent before a close can still be received.
Receive(s) ==
  /\ s # mu
  /\ ch[s] # <<>>
  /\ got' = [got EXCEPT ![s] = Append(@, Head(ch[s]))]
  /\ ch' = [ch EXCEPT ![s] = Tail(@)]
  /\ UNCHANGED <<ringVars, loopVars, subVars, subs, closes, ctxDone, cancelled>>

\* Mutant: the channel is closed whether or not the bus still has it.
CancelAlwaysCloses(s) ==
  /\ mu = NoSub
  /\ s \in created
  /\ s \notin cancelled
  /\ cancelled' = cancelled \cup {s}
  /\ subs' = subs \ {s}
  /\ closes' = [closes EXCEPT ![s] = @ + 1]
  /\ UNCHANGED <<ringVars, loopVars, subVars, ch, ctxDone, got>>

\* Subscription.Cancel, once per subscription; it closes the channel only if
\* the bus still has the subscription.
Cancel(s) ==
  /\ mu = NoSub
  /\ s \in created
  /\ s \notin cancelled
  /\ cancelled' = cancelled \cup {s}
  /\ subs' = subs \ {s}
  /\ closes' = IF s \in subs THEN [closes EXCEPT ![s] = @ + 1] ELSE closes
  /\ UNCHANGED <<ringVars, loopVars, subVars, ch, ctxDone, got>>

\* The context a consumer subscribed with ends (a request is over).
EndContext(s) ==
  /\ s \in created \ ctxDone
  /\ ctxDone' = ctxDone \cup {s}
  /\ UNCHANGED <<ringVars, loopVars, subVars, subs, ch, closes, cancelled, got>>

\* The goroutine Subscribe left waiting on the context.
CancelOnDone(s) == s \in ctxDone /\ Cancel(s)

\* Mutant: the subscriptions are forgotten, their channels left open.
CloseAllForgets ==
  /\ mu = NoSub
  /\ subs # {}
  /\ subs' = {}
  /\ UNCHANGED <<ringVars, loopVars, subVars, ch, closes, ctxDone, cancelled, got>>

\* The bus has no closed state: it can be published to and subscribed to
\* after CloseAll.
CloseAll ==
  /\ mu = NoSub
  /\ subs # {}
  /\ closes' = [s \in Subs |-> IF s \in subs THEN closes[s] + 1 ELSE closes[s]]
  /\ subs' = {}
  /\ UNCHANGED <<ringVars, loopVars, subVars, ch, ctxDone, cancelled, got>>

Next ==
  \/ PublishFails
  \/ Publish
  \/ \E s \in Subs, from \in 0..(seq + 1) : SubscribeBegin(s, from)
  \/ ReplayStep
  \/ SubscribeEnd
  \/ \E s \in Subs : Receive(s)
  \/ \E s \in Subs : Cancel(s)
  \/ \E s \in Subs : CancelOnDone(s)
  \/ \E s \in Subs : EndContext(s)
  \/ CloseAll

Spec == Init /\ [][Next]_vars

\* A Subscribe that holds the lock runs on, and the goroutine waiting on a
\* done context gets the lock in the end (a Go mutex does not starve).
Fairness ==
  /\ WF_vars(ReplayStep)
  /\ WF_vars(SubscribeEnd)
  /\ \A s \in Subs : SF_vars(CancelOnDone(s))

FairSpec == Spec /\ Fairness

----------------------------------------------------------------------------
(* Properties *)

RingTypes ==
  /\ seq \in Nat
  /\ buf \in [0..(BufCap - 1) -> Nat]
  /\ bufHead \in 0..(BufCap - 1)
  /\ bufLen \in 0..BufCap
  /\ log \in Seq(Nat)
  /\ bufLen <= Len(log)

SubTypes ==
  /\ created \subseteq Subs
  /\ mu \in created \cup {NoSub}
  /\ idx \in 0..BufCap
  /\ fromSeq \in [Subs -> Nat]
  /\ joined \in [Subs -> Nat]
  /\ base \in [Subs -> Nat]
  /\ replayed \in [Subs -> Nat]

ChanTypes ==
  /\ subs \subseteq created
  /\ ctxDone \subseteq created
  /\ cancelled \subseteq created
  /\ closes \in [Subs -> Nat]
  /\ got \in [Subs -> Seq(Nat)]
  /\ ch \in [Subs -> Seq(Nat)]
  /\ \A s \in Subs : Len(ch[s]) <= ChanCap[s]

\* Types, and the bounds the code keeps without checking them: a channel
\* never holds more than its capacity, the ring index stays in range.
TypeOK == RingTypes /\ SubTypes /\ ChanTypes

\* What is retained is the newest end of what was published, in publication
\* order, and is all of it while the ring has room, however often the ring
\* has wrapped.  (Snapshot is what /transcript, /messages and /chat read.)
RingIsLatest ==
  /\ bufLen < BufCap => bufLen = Len(log)
  /\ Snapshot = SubSeq(log, Len(log) - bufLen + 1, Len(log))

\* What the bus has handed to s so far: received, or waiting in its channel.
Handed(s) == got[s] \o ch[s]

\* A consumer sees every frame at most once and in publication order, also
\* across the seam between the replay and the live frames.
InOrder ==
  \A s \in Subs : \A i, j \in DOMAIN Handed(s) : i < j => Handed(s)[i] < Handed(s)[j]

\* Of the frames published since a subscription was made it is handed an
\* unbroken run; a registered subscription all of them, and one that was
\* dropped, cancelled or closed a run that stops: a slow consumer never
\* misses a frame and then sees a later one.
LiveRunUnbroken ==
  \A s \in created \ {mu} : \E n \in joined[s]..Len(log) :
    /\ SubSeq(Handed(s), replayed[s] + 1, Len(Handed(s))) = SubSeq(log, joined[s] + 1, n)
    /\ s \in subs => n = Len(log)

\* Every frame the ring still held that is newer than the resume point was
\* replayed, unless the replay filled the channel.
ReplayComplete ==
  \A s \in created \ {mu} : \A n \in 1..joined[s] :
    n + BufCap > joined[s] /\ log[n] > fromSeq[s] =>
      \/ \E i \in 1..replayed[s] : Handed(s)[i] = log[n]
      \/ replayed[s] = ChanCap[s]

\* A replay loses frames only where the channel is smaller than the ring.
OverrunOnlyIfSmaller ==
  \A s \in created \ {mu} : base[s] + replayed[s] < joined[s] => ChanCap[s] < BufCap

\* The place in log of the k-th frame handed to s: its replay is a run that
\* starts after base, what follows is a run that starts at joined.
Place(s, k) == IF k <= replayed[s] THEN base[s] + k ELSE joined[s] + (k - replayed[s])

\* The place in log of the last frame the consumer of s received.
LastPlace(s) == IF got[s] = <<>> THEN 0 ELSE Place(s, Len(got[s]))

\* The bus implements FrameStream: whatever consumers do and whenever they
\* come, fall behind or go, each reads along the log of published frames and
\* skips at most once, between its replay and the live frames.
Stream == INSTANCE FrameStream WITH
  Readers <- Subs,
  Frames  <- 1..MaxSeq,
  opened  <- created,
  mark    <- joined,
  pos     <- [s \in Subs |-> LastPlace(s)],
  seen    <- got

StreamSpec == Stream!Spec

\* No channel is closed twice or sent to after its close (either panics):
\* the drop in Publish, Cancel and CloseAll agree on who closes.
CloseOnce ==
  \A s \in Subs : closes[s] <= 1 /\ (s \in subs \cup {mu} => closes[s] = 0)

\* Once a consumer's context is done its channel is closed, so a consumer
\* that only ranges over the channel cannot be left waiting on a dead request.
ContextEndsSubscription ==
  \A s \in Subs : s \in ctxDone ~> closes[s] > 0
=============================================================================
