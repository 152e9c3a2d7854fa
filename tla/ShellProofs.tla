----------------------------- MODULE ShellProofs -----------------------------
(***************************************************************************)
(* Proofs about Shell, for any viewers and delete requests, any amount of   *)
(* output, any scrollback and any capacity of a viewer's channel.           *)
(***************************************************************************)
EXTENDS Shell, SequenceTheorems, TLAPS

USE ShellAssumption

\* A viewer that has not subscribed has an empty open channel.
Fresh == \A v \in Viewers : view[v] \in {"idle", "upgrade"} =>
           ~registered[v] /\ ~closed[v] /\ queue[v] = <<>>

\* Each process has its own part of the type invariant.
CountOK ==
  /\ proc \in {"none", "running", "exited"}
  /\ doomed \in BOOLEAN /\ ptyOpen \in BOOLEAN /\ listed \in BOOLEAN
  /\ out \in 0..MaxChunks /\ taken \in 0..out /\ kept \in 0..taken
  /\ taken = kept + (IF reader = "holds" THEN 1 ELSE 0)
  /\ reader \in {"none", "reads", "holds", "ended"}
  /\ proc = "none" => reader = "none" /\ reap = "none"
  /\ reap \in {"none", "waits", "noticed", "closed", "done"}
  /\ atClose \in 0..kept
  /\ delete \in [Deletes -> {"idle", "refused", "kill", "term", "answered"}]

ViewOK ==
  /\ slow \subseteq Viewers
  /\ view \in [Viewers -> {"idle", "upgrade", "replay", "wait", "check", "drain",
                           "told", "expired", "gone", "left"}]
  /\ registered \in [Viewers -> BOOLEAN] /\ closed \in [Viewers -> BOOLEAN]
  /\ start \in [Viewers -> 0..kept]
  /\ queue \in [Viewers -> Seq(1..MaxChunks)] /\ got \in [Viewers -> Seq(1..MaxChunks)]
  /\ \A v \in Viewers : Len(queue[v]) <= ChanCap /\ (registered[v] => ~closed[v])

\* The output that is left out of a scrollback.
Before(n) == IF n > Scroll THEN n - Scroll ELSE 0

\* A stretch of output is a sequence of chunks.
LEMMA OutputKind ==
  ASSUME NEW last \in 0..MaxChunks, NEW n \in 0..last
  PROVE  Output(n, last) \in Seq(1..MaxChunks)
<1> DEFINE b == Before(n)
<1>1. b \in 0..last /\ last - b \in Nat
  BY DEF Before
<1>2. Output(n, last) = [i \in 1..(last - b) |-> b + i]
  BY DEF Output, Before
<1>3. \A i \in 1..(last - b) : b + i \in 1..MaxChunks
  BY <1>1
<1> HIDE DEF b
<1>4. QED
  BY <1>1, <1>2, <1>3

\* The next chunk makes a stretch of output one longer.
LEMMA OutputGrows ==
  ASSUME NEW last \in Nat, NEW n \in 0..last
  PROVE  Append(Output(n, last), last + 1) = Output(n, last + 1)
<1> DEFINE b == Before(n)
           s == [i \in 1..(last - b) |-> b + i]
<1>1. b \in 0..last /\ last - b \in Nat
  BY DEF Before
<1>2. Output(n, last) = s /\ Output(n, last + 1) = [i \in 1..(last + 1 - b) |-> b + i]
  BY DEF Output, Before
<1>3. s \in Seq(Nat) /\ Len(s) = last - b
  BY <1>1
<1>4. Append(s, last + 1) = [i \in 1..(last - b + 1) |-> IF i <= last - b THEN s[i] ELSE last + 1]
  BY <1>1, <1>3
<1>5. \A i \in 1..(last - b + 1) : (IF i <= last - b THEN s[i] ELSE last + 1) = b + i
  BY <1>1
<1>6. last + 1 - b = last - b + 1
  BY <1>1
<1>7. QED
  BY <1>2, <1>4, <1>5, <1>6

\* What is appended to the second part is appended to the whole.
LEMMA AppendSecond ==
  ASSUME NEW S, NEW s \in Seq(S), NEW t \in Seq(S), NEW x \in S
  PROVE  s \o Append(t, x) = Append(s \o t, x)
<1>1. s \o t \in Seq(S) /\ Append(t, x) \in Seq(S)
  BY ConcatProperties
<1>2. /\ s \o Append(t, x) \in Seq(S) /\ Append(s \o t, x) \in Seq(S)
      /\ Len(s) \in Nat /\ Len(t) \in Nat /\ Len(s \o t) = Len(s) + Len(t)
      /\ Len(s \o Append(t, x)) = Len(s) + Len(t) + 1
      /\ Len(Append(s \o t, x)) = Len(s) + Len(t) + 1
  BY <1>1, ConcatProperties
<1>3. ASSUME NEW i \in 1..(Len(s) + Len(t) + 1)
      PROVE  (s \o Append(t, x))[i] = Append(s \o t, x)[i]
  <2>1. CASE i <= Len(s)
    <3>1. (s \o Append(t, x))[i] = s[i] /\ (s \o t)[i] = s[i]
      BY <1>1, <1>2, <2>1, ConcatProperties
    <3>2. Append(s \o t, x)[i] = (s \o t)[i]
      BY <1>1, <1>2, <2>1
    <3>3. QED
      BY <3>1, <3>2
  <2>2. CASE i > Len(s) /\ i <= Len(s) + Len(t)
    <3>1. (s \o Append(t, x))[i] = Append(t, x)[i - Len(s)] /\ (s \o t)[i] = t[i - Len(s)]
      BY <1>1, <1>2, <2>2, ConcatProperties
    <3>2. Append(s \o t, x)[i] = (s \o t)[i] /\ Append(t, x)[i - Len(s)] = t[i - Len(s)]
      BY <1>1, <1>2, <2>2
    <3>3. QED
      BY <3>1, <3>2
  <2>3. CASE i = Len(s) + Len(t) + 1
    <3>1. (s \o Append(t, x))[i] = Append(t, x)[i - Len(s)]
      BY <1>1, <1>2, <2>3, ConcatProperties
    <3>2. i - Len(s) = Len(t) + 1
      BY <1>2, <2>3
    <3>3. Append(t, x)[Len(t) + 1] = x /\ Append(s \o t, x)[i] = x
      BY <1>1, <1>2, <2>3
    <3>4. QED
      BY <3>1, <3>2, <3>3
  <2>4. QED
    BY <1>2, <2>1, <2>2, <2>3
<1>4. QED
  BY <1>2, <1>3, SeqEqual

\* The head of the second part passed to the first leaves the whole as it is.
LEMMA HeadPasses ==
  ASSUME NEW S, NEW s \in Seq(S), NEW t \in Seq(S), t # <<>>
  PROVE  Append(s, Head(t)) \o Tail(t) = s \o t
<1> DEFINE u == Append(s, Head(t))
<1>1. /\ Head(t) \in S /\ Head(t) = t[1] /\ Tail(t) \in Seq(S)
      /\ Len(t) \in Nat \ {0} /\ Len(s) \in Nat
      /\ Len(Tail(t)) = Len(t) - 1 /\ \A i \in 1..(Len(t) - 1) : Tail(t)[i] = t[i + 1]
  BY HeadTailProperties, EmptySeq
<1>2. /\ u \in Seq(S) /\ Len(u) = Len(s) + 1 /\ u[Len(s) + 1] = t[1]
      /\ \A i \in 1..Len(s) : u[i] = s[i]
  BY <1>1
<1> HIDE DEF u
<1>3. /\ u \o Tail(t) \in Seq(S) /\ s \o t \in Seq(S)
      /\ Len(u \o Tail(t)) = Len(s) + Len(t) /\ Len(s \o t) = Len(s) + Len(t)
  <2>1. Len(u \o Tail(t)) = Len(u) + Len(Tail(t)) /\ u \o Tail(t) \in Seq(S)
    BY <1>1, <1>2, ConcatProperties
  <2>2. Len(s \o t) = Len(s) + Len(t) /\ s \o t \in Seq(S)
    BY ConcatProperties
  <2>3. QED
    BY <1>1, <1>2, <2>1, <2>2
<1>4. ASSUME NEW i \in 1..(Len(s) + Len(t))
      PROVE  (u \o Tail(t))[i] = (s \o t)[i]
  <2>1. (u \o Tail(t))[i] = IF i <= Len(s) + 1 THEN u[i] ELSE Tail(t)[i - (Len(s) + 1)]
    <3>1. i \in 1..(Len(u) + Len(Tail(t)))
      BY <1>1, <1>2
    <3>2. (u \o Tail(t))[i] = IF i <= Len(u) THEN u[i] ELSE Tail(t)[i - Len(u)]
      BY <1>1, <1>2, <3>1, ConcatProperties
    <3>3. QED
      BY <1>2, <3>2
  <2>2. (s \o t)[i] = IF i <= Len(s) THEN s[i] ELSE t[i - Len(s)]
    BY ConcatProperties
  <2>3. CASE i <= Len(s) + 1
    <3>1. CASE i <= Len(s)
      BY <1>1, <1>2, <2>1, <2>2, <3>1
    <3>2. CASE i = Len(s) + 1
      <4>1. i - Len(s) = 1 /\ ~(i <= Len(s)) /\ i <= Len(s) + 1
        BY <1>1, <3>2
      <4>2. (u \o Tail(t))[i] = u[Len(s) + 1] /\ (s \o t)[i] = t[1]
        BY <2>1, <2>2, <3>2, <4>1
      <4>3. QED
        BY <1>2, <4>2
    <3>3. i <= Len(s) \/ i = Len(s) + 1
      <4>1. i \in Int /\ Len(s) \in Int
        BY <1>1
      <4>2. QED
        BY <4>1, <2>3
    <3>4. QED
      BY <3>1, <3>2, <3>3
  <2>4. CASE i > Len(s) + 1
    <3>1. i - (Len(s) + 1) \in 1..(Len(t) - 1) /\ i - (Len(s) + 1) + 1 = i - Len(s)
      BY <1>1, <2>4
    <3>2. Tail(t)[i - (Len(s) + 1)] = t[i - Len(s)]
      BY <1>1, <3>1
    <3>3. QED
      <4>1. ~(i <= Len(s)) /\ ~(i <= Len(s) + 1)
        BY <1>1, <2>4
      <4>2. QED
        BY <2>1, <2>2, <3>2, <4>1
  <2>5. i <= Len(s) + 1 \/ i > Len(s) + 1
    <3>1. i \in Int /\ Len(s) \in Int
      BY <1>1
    <3>2. QED
      BY <3>1
  <2>6. QED
    BY <2>3, <2>4, <2>5
<1>5. u \o Tail(t) = s \o t
  BY <1>3, <1>4, SeqEqual
<1>6. QED
  BY <1>5 DEF u
----------------------------------------------------------------------------
(* The types *)

\* Every step keeps the types of the shell's processes.
LEMMA CountStep == CountOK /\ [Next]_vars => CountOK'
<1> SUFFICES ASSUME CountOK, [Next]_vars
             PROVE  CountOK'
  OBVIOUS
<1> USE DEF CountOK, childVars, readVars, reapVars
<1>1. CASE Spawn
  BY <1>1 DEF Spawn
<1>2. CASE Prints \/ Exits
  BY <1>2 DEF Prints, Exits
<1>3. CASE Reads
  BY <1>3 DEF Reads
<1>4. CASE FanOut
  BY <1>4 DEF FanOut
<1>5. CASE ReaderEnds \/ ReapNotices \/ ReapCloses \/ ReapDone
  <2>1. CASE ReaderEnds
    BY <2>1 DEF ReaderEnds
  <2>2. CASE ReapNotices \/ ReapDone
    BY <2>2 DEF ReapNotices, ReapDone
  <2>3. CASE ReapCloses
    <3>1. /\ reap' = "closed" /\ ptyOpen' = FALSE /\ atClose' = kept
          /\ UNCHANGED <<proc, doomed, out, taken, reader, kept, listed, delete>>
          /\ proc # "none"
      BY <2>3 DEF ReapCloses
    <3>2. kept \in 0..kept
      OBVIOUS
    <3>3. QED
      BY <3>1, <3>2
  <2>4. QED
    BY <1>5, <2>1, <2>2, <2>3
<1>6. ASSUME NEW v \in Viewers, Attaches(v) \/ View(v) \/ Pings(v) \/ HangsUp(v)
      PROVE  CountOK'
  BY <1>6 DEF Attaches, Pings, HangsUp, View, Subscribes, Replays, Passes, SeesClosed, Checks,
              DrainTimer, Leaves
<1>7. ASSUME NEW d \in Deletes, DeleteRefused(d) \/ DeleteSignals(d) \/ DeleteForgets(d)
      PROVE  CountOK'
  BY <1>7 DEF DeleteRefused, DeleteSignals, DeleteForgets
<1>8. CASE UNCHANGED vars
  BY <1>8 DEF vars
<1>9. QED
  <2> HIDE DEF CountOK
  <2> QED
    BY <1>1, <1>2, <1>3, <1>4, <1>5, <1>6, <1>7, <1>8 DEF Next

\* The bounds the counters keep in a step.
LEMMA KeptGrows ==
  ASSUME CountOK, [Next]_vars
  PROVE  /\ kept \in 0..MaxChunks /\ kept' \in Nat
         /\ kept' = kept \/ (FanOut /\ kept' = kept + 1 /\ kept' \in 1..MaxChunks)
<1> USE DEF CountOK, childVars, readVars, reapVars
<1>1. kept \in 0..MaxChunks
  OBVIOUS
<1>2. CASE FanOut
  BY <1>1, <1>2 DEF FanOut
<1>3. CASE ~FanOut
  <2>1. CASE Spawn \/ Prints \/ Exits \/ Reads \/ ReaderEnds \/ ReapNotices \/ ReapCloses \/ ReapDone
    BY <2>1 DEF Spawn, Prints, Exits, Reads, ReaderEnds, ReapNotices, ReapCloses, ReapDone
  <2>2. ASSUME NEW v \in Viewers, Attaches(v) \/ View(v) \/ Pings(v) \/ HangsUp(v)
        PROVE  kept' = kept
    BY <2>2 DEF Attaches, Pings, HangsUp, View, Subscribes, Replays, Passes, SeesClosed, Checks,
                DrainTimer, Leaves
  <2>3. ASSUME NEW d \in Deletes, DeleteRefused(d) \/ DeleteSignals(d) \/ DeleteForgets(d)
        PROVE  kept' = kept
    BY <2>3 DEF DeleteRefused, DeleteSignals, DeleteForgets
  <2>4. CASE UNCHANGED vars
    BY <2>4 DEF vars
  <2>5. kept' = kept
    BY <1>3, <2>1, <2>2, <2>3, <2>4 DEF Next
  <2>6. QED
    BY <1>1, <2>5
<1>4. QED
  BY <1>2, <1>3

\* What the steps that leave the viewers alone leave alone.
ViewsStay == UNCHANGED <<subVars, viewVars>>

\* Every step is the reader's, the reaper's, a viewer's, or leaves them alone.
LEMMA ViewSteps ==
  ASSUME CountOK, [Next]_vars
  PROVE  \/ ViewsStay /\ UNCHANGED <<reap, kept, atClose>>
         \/ FanOut
         \/ ReapCloses
         \/ ViewsStay /\ UNCHANGED <<kept, atClose>>
              /\ (reap \in {"closed", "done"} => reap' \in {"closed", "done"})
         \/ \E v \in Viewers : View(v) \/ Attaches(v) \/ Pings(v) \/ HangsUp(v)
<1> USE DEF ViewsStay, childVars, readVars, reapVars
<1>1. ASSUME Spawn
      PROVE  /\ ViewsStay /\ UNCHANGED <<kept, atClose>>
             /\ reap' = "waits" /\ reap \notin {"closed", "done"}
  BY <1>1 DEF Spawn, CountOK
<1>2. ASSUME Prints \/ Exits \/ Reads \/ ReaderEnds
      PROVE  ViewsStay /\ UNCHANGED <<reap, kept, atClose>>
  BY <1>2 DEF Prints, Exits, Reads, ReaderEnds
<1>3. ASSUME ReapNotices \/ ReapDone
      PROVE  /\ ViewsStay /\ UNCHANGED <<kept, atClose>>
             /\ reap \in {"closed", "done"} => reap' \in {"closed", "done"}
  BY <1>3 DEF ReapNotices, ReapDone
<1>4. ASSUME NEW d \in Deletes, DeleteRefused(d) \/ DeleteSignals(d) \/ DeleteForgets(d)
      PROVE  ViewsStay /\ UNCHANGED <<reap, kept, atClose>>
  BY <1>4 DEF DeleteRefused, DeleteSignals, DeleteForgets
<1>5. ASSUME UNCHANGED vars
      PROVE  ViewsStay /\ UNCHANGED <<reap, kept, atClose>>
  BY <1>5 DEF vars
<1>6. QED
  <2> HIDE DEF ViewsStay
  <2> QED
    BY <1>1, <1>2, <1>3, <1>4, <1>5 DEF Next

\* Every step keeps the types of the viewers.
LEMMA ViewStep == CountOK /\ ViewOK /\ Fresh /\ [Next]_vars => ViewOK' /\ Fresh'
<1> SUFFICES ASSUME CountOK, ViewOK, Fresh, [Next]_vars
             PROVE  ViewOK' /\ Fresh'
  OBVIOUS
<1>k. kept \in 0..MaxChunks /\ kept' \in Nat /\ kept <= kept'
  BY KeptGrows
<1>s. \A x \in 0..kept : x \in 0..kept'
  BY <1>k
<1> USE DEF ViewOK, Fresh, subVars, viewVars, reapVars, readVars
<1>1. CASE ViewsStay
  BY <1>1, <1>s DEF ViewsStay
<1>2. CASE FanOut
  <2> DEFINE full == {v \in Viewers : registered[v] /\ Len(queue[v]) >= ChanCap}
  <2>1. /\ queue' = [v \in Viewers |->
             IF registered[v] /\ v \notin full THEN Append(queue[v], kept') ELSE queue[v]]
        /\ registered' = [v \in Viewers |-> registered[v] /\ v \notin full]
        /\ closed' = [v \in Viewers |-> closed[v] \/ v \in full]
        /\ slow' = slow \cup full /\ UNCHANGED viewVars /\ kept' = kept + 1
    BY <1>2 DEF FanOut
  <2>2. kept' \in 1..MaxChunks
    BY <1>k, <2>1, KeptGrows
  <2>3. ASSUME NEW v \in Viewers
        PROVE  /\ queue'[v] \in Seq(1..MaxChunks) /\ Len(queue'[v]) <= ChanCap
               /\ registered'[v] => ~closed'[v]
    <3>1. CASE registered[v] /\ v \notin full
      <4>1. queue'[v] = Append(queue[v], kept')
        BY <2>1, <3>1
      <4>2. queue[v] \in Seq(1..MaxChunks) /\ Len(queue[v]) \in Nat /\ Len(queue[v]) < ChanCap
        BY <3>1
      <4>3. Len(Append(queue[v], kept')) = Len(queue[v]) + 1
            /\ Append(queue[v], kept') \in Seq(1..MaxChunks)
        BY <2>2, <4>2
      <4>4. QED
        BY <2>1, <3>1, <4>1, <4>2, <4>3
    <3>2. CASE ~(registered[v] /\ v \notin full)
      BY <2>1, <3>2
    <3>3. QED
      BY <3>1, <3>2
  <2>4. queue' \in [Viewers -> Seq(1..MaxChunks)]
    BY <2>1, <2>3
  <2>5. Fresh'
    BY <2>1
  <2>6. registered' \in [Viewers -> BOOLEAN] /\ closed' \in [Viewers -> BOOLEAN]
        /\ slow' \subseteq Viewers
    BY <2>1
  <2>7. view' = view /\ got' = got /\ start' \in [Viewers -> 0..kept']
    BY <2>1, <1>s
  <2>8. QED
    BY <2>3, <2>4, <2>5, <2>6, <2>7
<1>3. CASE ReapCloses
  <2>1. /\ closed' = [v \in Viewers |-> closed[v] \/ registered[v]]
        /\ registered' = [v \in Viewers |-> FALSE]
        /\ UNCHANGED <<kept, queue, slow, viewVars>>
    BY <1>3 DEF ReapCloses
  <2>2. QED
    BY <2>1
<1>4. ASSUME NEW v \in Viewers,
             Attaches(v) \/ Pings(v) \/ HangsUp(v) \/ SeesClosed(v) \/ Checks(v) \/ DrainTimer(v)
      PROVE  ViewOK' /\ Fresh'
  <2>1. UNCHANGED <<kept, subVars, start, got>>
    BY <1>4 DEF Attaches, Pings, HangsUp, SeesClosed, Checks, DrainTimer
  <2>2. PICK to \in {"upgrade", "wait", "check", "drain", "told", "expired", "gone"} :
          /\ view' = [view EXCEPT ![v] = to]
          /\ to = "upgrade" => view[v] = "idle"
    BY <1>4 DEF Attaches, Pings, HangsUp, SeesClosed, Checks, DrainTimer
  <2>3. view' \in [Viewers -> {"idle", "upgrade", "replay", "wait", "check", "drain",
                               "told", "expired", "gone", "left"}]
    BY <2>2
  <2>4. \A u \in Viewers : view'[u] \in {"idle", "upgrade"} => view[u] \in {"idle", "upgrade"}
    BY <2>2
  <2>5. QED
    BY <2>1, <2>3, <2>4
<1>5. ASSUME NEW v \in Viewers, Subscribes(v)
      PROVE  ViewOK' /\ Fresh'
  <2>1. /\ view' = [view EXCEPT ![v] = "replay"] /\ view[v] = "upgrade"
        /\ registered' = [registered EXCEPT ![v] = TRUE]
        /\ start' = [start EXCEPT ![v] = kept]
        /\ UNCHANGED <<kept, queue, closed, slow, got>>
    BY <1>5 DEF Subscribes
  <2>2. kept \in 0..kept' /\ ~closed[v]
    BY <2>1, <1>k
  <2>3. view' \in [Viewers -> {"idle", "upgrade", "replay", "wait", "check", "drain",
                               "told", "expired", "gone", "left"}]
    BY <2>1
  <2>4. start' \in [Viewers -> 0..kept'] /\ registered' \in [Viewers -> BOOLEAN]
    BY <2>1, <2>2
  <2>5. \A u \in Viewers : u # v => view'[u] = view[u] /\ registered'[u] = registered[u]
    BY <2>1
  <2>6. view'[v] = "replay"
    BY <2>1
  <2>7. QED
    BY <2>1, <2>2, <2>3, <2>4, <2>5, <2>6
<1>6. ASSUME NEW v \in Viewers, Replays(v)
      PROVE  ViewOK' /\ Fresh'
  <2>1. /\ view' = [view EXCEPT ![v] = "wait"]
        /\ got' = [got EXCEPT ![v] = Scrollback(start[v])]
        /\ UNCHANGED <<kept, subVars, start>>
    BY <1>6 DEF Replays
  <2>2. start[v] \in 0..MaxChunks /\ start[v] \in 0..start[v]
    BY <1>k
  <2>3. Scrollback(start[v]) \in Seq(1..MaxChunks)
    BY <2>2, OutputKind DEF Scrollback
  <2>4. QED
    BY <2>1, <2>3
<1>7. ASSUME NEW v \in Viewers, Passes(v, "wait", "check") \/ Passes(v, "drain", "drain")
      PROVE  ViewOK' /\ Fresh'
  <2>1. PICK to \in {"check", "drain"} : view' = [view EXCEPT ![v] = to]
    BY <1>7 DEF Passes
  <2>2. /\ queue[v] # <<>> /\ got' = [got EXCEPT ![v] = Append(@, Head(queue[v]))]
        /\ queue' = [queue EXCEPT ![v] = Tail(@)]
        /\ UNCHANGED <<kept, registered, closed, slow, start>>
    BY <1>7 DEF Passes
  <2>3. /\ Head(queue[v]) \in 1..MaxChunks /\ Tail(queue[v]) \in Seq(1..MaxChunks)
        /\ Len(queue[v]) \in Nat /\ Len(Tail(queue[v])) = Len(queue[v]) - 1
    BY <2>2, HeadTailProperties
  <2>4. Append(got[v], Head(queue[v])) \in Seq(1..MaxChunks)
    BY <2>3
  <2>5. got' \in [Viewers -> Seq(1..MaxChunks)] /\ queue' \in [Viewers -> Seq(1..MaxChunks)]
    BY <2>2, <2>3, <2>4
  <2>6. \A u \in Viewers : u # v => queue'[u] = queue[u] /\ view'[u] = view[u]
    BY <2>1, <2>2
  <2>7. view'[v] = to /\ Len(queue'[v]) <= ChanCap
    BY <2>1, <2>2, <2>3
  <2>8. QED
    BY <2>1, <2>2, <2>5, <2>6, <2>7
<1>8. ASSUME NEW v \in Viewers, Leaves(v)
      PROVE  ViewOK' /\ Fresh'
  <2>1. /\ registered' = [registered EXCEPT ![v] = FALSE]
        /\ closed' = [closed EXCEPT ![v] = @ \/ registered[v]]
        /\ view' = [view EXCEPT ![v] = "left"]
        /\ queue' = [queue EXCEPT ![v] = <<>>] /\ slow' = slow \ {v}
        /\ start' = [start EXCEPT ![v] = 0] /\ got' = [got EXCEPT ![v] = <<>>]
        /\ kept' = kept
    BY <1>8 DEF Leaves
  <2>2. 0 \in 0..kept' /\ <<>> \in Seq(1..MaxChunks) /\ Len(<<>>) <= ChanCap
    BY <1>k
  <2>3. /\ registered' \in [Viewers -> BOOLEAN] /\ closed' \in [Viewers -> BOOLEAN]
        /\ queue' \in [Viewers -> Seq(1..MaxChunks)] /\ got' \in [Viewers -> Seq(1..MaxChunks)]
        /\ start' \in [Viewers -> 0..kept'] /\ slow' \subseteq Viewers
    BY <2>1, <2>2
  <2>4. view' \in [Viewers -> {"idle", "upgrade", "replay", "wait", "check", "drain",
                               "told", "expired", "gone", "left"}]
    BY <2>1
  <2>5. \A u \in Viewers : u # v => /\ queue'[u] = queue[u] /\ view'[u] = view[u]
                                   /\ registered'[u] = registered[u] /\ closed'[u] = closed[u]
    BY <2>1
  <2>6. view'[v] = "left" /\ queue'[v] = <<>> /\ ~registered'[v]
    BY <2>1
  <2>7. QED
    BY <2>2, <2>3, <2>4, <2>5, <2>6
<1>9. QED
  <2> HIDE DEF ViewOK, Fresh
  <2> QED
    BY <1>1, <1>2, <1>3, <1>4, <1>5, <1>6, <1>7, <1>8, ViewSteps DEF View

TypeInv == CountOK /\ ViewOK /\ Fresh

\* The invariant of the types holds in every reachable state.
LEMMA TypeInvCorrect == Spec => []TypeInv
<1>1. Init => TypeInv
  <2> SUFFICES ASSUME Init PROVE TypeInv
    OBVIOUS
  <2>1. CountOK
    <3>1. delete \in [Deletes -> {"idle", "refused", "kill", "term", "answered"}]
      BY DEF Init
    <3>2. /\ proc = "none" /\ reader = "none" /\ reap = "none"
          /\ doomed = FALSE /\ ptyOpen = FALSE /\ listed = FALSE
          /\ out = 0 /\ taken = 0 /\ kept = 0 /\ atClose = 0
      BY DEF Init
    <3>3. 0 \in 0..MaxChunks /\ 0 \in 0..0 /\ 0 = 0 + 0
      OBVIOUS
    <3>4. QED
      BY <3>1, <3>2, <3>3 DEF CountOK
  <2>2. <<>> \in Seq(1..MaxChunks) /\ Len(<<>>) <= ChanCap /\ 0 \in 0..kept
    BY <2>1 DEF CountOK
  <2>3. ViewOK /\ Fresh
    BY <2>2 DEF Init, ViewOK, Fresh
  <2>4. QED
    BY <2>1, <2>3 DEF TypeInv
<1>2. TypeInv /\ [Next]_vars => TypeInv'
  BY CountStep, ViewStep DEF TypeInv
<1>3. QED
  BY <1>1, <1>2, PTL DEF Spec

\* Shell keeps to its types, and a registered channel is open.
THEOREM TypeCorrect == Spec => []TypeOK
<1>1. TypeInv => TypeOK
  BY DEF TypeInv, CountOK, ViewOK, TypeOK
<1>2. QED
  BY <1>1, TypeInvCorrect, PTL
----------------------------------------------------------------------------
(* The output *)

Active == {"replay", "wait", "check", "drain", "told", "expired"}

\* What the handler has sent, or sends before anything else.
Sent(v) == IF view[v] = "replay" THEN Scrollback(start[v]) ELSE got[v]

\* What Seamless says of one viewer.
Seam(v) ==
  view[v] \in Active =>
    \E last \in start[v]..kept :
      Sent(v) \o queue[v] = Output(start[v], last) /\ (registered[v] => last = kept)

\* A channel that is closed, and was not slow, was closed by the reaper and
\* holds the rest of the output that was kept then.
Ended(v) ==
  /\ view[v] \in Active /\ closed[v] /\ v \notin slow =>
       reap \in {"closed", "done"} /\ Sent(v) \o queue[v] = Output(start[v], atClose)
  /\ view[v] = "told" => closed[v] /\ queue[v] = <<>>

StreamInv == \A v \in Viewers : Seam(v) /\ Ended(v)

\* What was sent is a sequence of chunks.
LEMMA SentKind ==
  ASSUME TypeInv, NEW v \in Viewers
  PROVE  Sent(v) \in Seq(1..MaxChunks) /\ queue[v] \in Seq(1..MaxChunks)
<1>1. start[v] \in 0..MaxChunks /\ start[v] \in 0..start[v]
  BY DEF TypeInv, CountOK, ViewOK
<1>2. Scrollback(start[v]) \in Seq(1..MaxChunks)
  BY <1>1, OutputKind DEF Scrollback
<1>3. QED
  BY <1>2 DEF Sent, TypeInv, ViewOK

\* A step that leaves a viewer, the scrollback and the close alone.
LEMMA StreamStays ==
  ASSUME NEW u \in Viewers, Seam(u), Ended(u),
         view'[u] = view[u], start'[u] = start[u], got'[u] = got[u], queue'[u] = queue[u],
         registered'[u] = registered[u], closed'[u] = closed[u], u \in slow' <=> u \in slow,
         UNCHANGED <<kept, atClose>>, reap \in {"closed", "done"} => reap' \in {"closed", "done"}
  PROVE  Seam(u)' /\ Ended(u)'
<1>1. Sent(u)' = Sent(u)
  BY DEF Sent, Scrollback, Output
<1>2. \A last : Output(start[u], last)' = Output(start[u], last)
  BY DEF Output
<1>3. Output(start[u], atClose)' = Output(start[u], atClose)
  BY DEF Output
<1>4. QED
  BY <1>1, <1>2, <1>3 DEF Seam, Ended

\* A chunk that is kept goes on what every registered viewer has.
LEMMA FanOutStreams ==
  ASSUME TypeInv, TypeInv', StreamInv, FanOut, NEW u \in Viewers
  PROVE  Seam(u)' /\ Ended(u)'
<1> DEFINE full == {v \in Viewers : registered[v] /\ Len(queue[v]) >= ChanCap}
<1>1. /\ queue' = [v \in Viewers |->
           IF registered[v] /\ v \notin full THEN Append(queue[v], kept') ELSE queue[v]]
      /\ registered' = [v \in Viewers |-> registered[v] /\ v \notin full]
      /\ closed' = [v \in Viewers |-> closed[v] \/ v \in full]
      /\ slow' = slow \cup full
      /\ UNCHANGED <<view, start, got, reap, atClose>> /\ kept' = kept + 1
  BY DEF FanOut, viewVars, reapVars
<1>2. /\ kept \in Nat /\ start[u] \in 0..kept /\ kept' \in 1..MaxChunks
      /\ registered[u] => ~closed[u]
  BY <1>1 DEF TypeInv, CountOK, ViewOK
<1>3. Sent(u)' = Sent(u)
  BY <1>1 DEF Sent, Scrollback, Output
<1>4. \A last : Output(start[u], last)' = Output(start[u], last)
  BY <1>1 DEF Output
<1>5. Seam(u) /\ Ended(u)
  BY DEF StreamInv
<1>6. CASE registered[u] /\ u \notin full
  <2>1. /\ queue'[u] = Append(queue[u], kept + 1) /\ ~closed'[u] /\ registered'[u]
        /\ view'[u] = view[u] /\ start'[u] = start[u]
    BY <1>1, <1>2, <1>6
  <2>2. ASSUME view[u] \in Active
        PROVE  Sent(u)' \o queue'[u] = Output(start[u], kept + 1)
    <3>1. Sent(u) \o queue[u] = Output(start[u], kept)
      BY <1>5, <1>6, <2>2 DEF Seam
    <3>2. Sent(u) \o Append(queue[u], kept + 1) = Append(Sent(u) \o queue[u], kept + 1)
      <4>1. kept + 1 \in 1..MaxChunks
        BY <1>1, <1>2
      <4>2. Sent(u) \in Seq(1..MaxChunks) /\ queue[u] \in Seq(1..MaxChunks)
        BY SentKind
      <4> DEFINE x == kept + 1
                 sent == Sent(u)
                 s == queue[u]
      <4>3. sent \in Seq(1..MaxChunks) /\ s \in Seq(1..MaxChunks) /\ x \in 1..MaxChunks
        BY <4>1, <4>2
      <4> HIDE DEF x, sent, s
      <4>4. sent \o Append(s, x) = Append(sent \o s, x)
        BY <4>3, AppendSecond
      <4>5. QED
        BY <4>4 DEF x, sent, s
    <3>3. QED
      BY <1>2, <1>3, <2>1, <3>1, <3>2, OutputGrows
  <2>3. Seam(u)'
    <3>1. kept + 1 \in start[u]..(kept + 1)
      BY <1>2
    <3> SUFFICES ASSUME view[u] \in Active
                 PROVE  \E last \in start'[u]..kept' :
                          /\ Sent(u)' \o queue'[u] = Output(start'[u], last)
                          /\ registered'[u] => last = kept'
      BY <1>4, <2>1 DEF Seam, Output, Active
    <3>2. QED
      BY <1>1, <2>1, <2>2, <3>1
  <2>4. Ended(u)'
    BY <1>5, <1>2, <1>6, <2>1 DEF Ended
  <2>5. QED
    BY <2>3, <2>4
<1>7. CASE ~(registered[u] /\ u \notin full)
  <2>1. /\ queue'[u] = queue[u] /\ ~registered'[u]
        /\ view'[u] = view[u] /\ start'[u] = start[u]
        /\ closed'[u] /\ u \notin slow' => closed[u] /\ u \notin slow
        /\ closed[u] => closed'[u]
    BY <1>1, <1>7
  <2>2. \A last \in start[u]..kept : last \in start[u]..kept'
    BY <1>1, <1>2
  <2>3. Seam(u)'
    BY <1>3, <1>4, <1>5, <2>1, <2>2 DEF Seam, Active
  <2>4. Output(start[u], atClose)' = Output(start[u], atClose) /\ reap' = reap
    BY <1>1 DEF Output
  <2>5. Ended(u)'
    BY <1>3, <1>5, <2>1, <2>4 DEF Ended, Active
  <2>6. QED
    BY <2>3, <2>5
<1>8. QED
  BY <1>6, <1>7

\* When the reaper closes the channels, each holds the rest of what is kept.
LEMMA ClosesStreams ==
  ASSUME TypeInv, StreamInv, ReapCloses, NEW u \in Viewers
  PROVE  Seam(u)' /\ Ended(u)'
<1>1. /\ closed' = [v \in Viewers |-> closed[v] \/ registered[v]]
      /\ registered' = [v \in Viewers |-> FALSE]
      /\ reap = "noticed" /\ reap' = "closed" /\ atClose' = kept
      /\ UNCHANGED <<view, start, got, kept, queue, slow>>
  BY DEF ReapCloses, viewVars, readVars
<1>2. Sent(u)' = Sent(u)
  BY <1>1 DEF Sent, Scrollback, Output
<1>3. \A last : Output(start[u], last)' = Output(start[u], last)
  BY <1>1 DEF Output
<1>4. Output(start[u], atClose)' = Output(start[u], kept)
  BY <1>1 DEF Output
<1>5. Seam(u) /\ Ended(u) /\ ~registered'[u] /\ (closed'[u] <=> closed[u] \/ registered[u])
  BY <1>1 DEF StreamInv
<1>6. Seam(u)'
  BY <1>1, <1>2, <1>3, <1>5 DEF Seam
<1>7. Ended(u)'
  <2>1. view[u] \in Active /\ closed[u] => u \in slow
    BY <1>1, <1>5 DEF Ended
  <2>2. view[u] \in Active /\ registered[u] => Sent(u) \o queue[u] = Output(start[u], kept)
    BY <1>5 DEF Seam
  <2>3. QED
    BY <1>1, <1>2, <1>4, <1>5, <2>1, <2>2 DEF Ended
<1>8. QED
  BY <1>6, <1>7

\* What a viewer's own step makes of its stream.
LEMMA ViewerStreams ==
  ASSUME TypeInv, StreamInv, NEW v \in Viewers, View(v) \/ Attaches(v) \/ Pings(v) \/ HangsUp(v)
  PROVE  Seam(v)' /\ Ended(v)'
<1>1. Seam(v) /\ Ended(v)
  BY DEF StreamInv
<1>2. /\ view \in [Viewers -> {"idle", "upgrade", "replay", "wait", "check", "drain",
                               "told", "expired", "gone", "left"}]
      /\ got \in [Viewers -> Seq(1..MaxChunks)] /\ queue \in [Viewers -> Seq(1..MaxChunks)]
      /\ start \in [Viewers -> 0..kept] /\ kept \in Nat
      /\ registered \in [Viewers -> BOOLEAN]
  BY DEF TypeInv, CountOK, ViewOK
<1>3. \A last : Output(start[v], last)' = Output(start'[v], last)
  BY DEF Output
<1>4. Output(start[v], atClose)' = Output(start'[v], atClose')
  BY DEF Output
<1> USE DEF readVars, reapVars, subVars
<1>5. CASE Attaches(v) \/ HangsUp(v) \/ Leaves(v)
  <2>1. view'[v] \in {"upgrade", "gone", "left"}
    BY <1>2, <1>5 DEF Attaches, HangsUp, Leaves
  <2>2. QED
    BY <2>1 DEF Seam, Ended, Active
<1>6. CASE Pings(v) \/ Checks(v) \/ DrainTimer(v)
  <2>1. /\ view[v] \in {"wait", "check", "drain"} /\ view'[v] \in {"wait", "check", "drain", "expired"}
        /\ UNCHANGED <<kept, reap, atClose, registered, queue, closed, slow, start, got>>
    BY <1>2, <1>6 DEF Pings, Checks, DrainTimer
  <2>2. Sent(v)' = Sent(v)
    BY <2>1 DEF Sent
  <2>3. QED
    BY <1>1, <1>3, <1>4, <2>1, <2>2 DEF Seam, Ended, Active
<1>7. CASE SeesClosed(v)
  <2>1. /\ view[v] \in {"wait", "drain"} /\ view'[v] = "told" /\ queue[v] = <<>> /\ closed[v]
        /\ UNCHANGED <<kept, reap, atClose, registered, queue, closed, slow, start, got>>
    BY <1>2, <1>7 DEF SeesClosed
  <2>2. Sent(v)' = Sent(v)
    BY <2>1 DEF Sent
  <2>3. QED
    BY <1>1, <1>3, <1>4, <2>1, <2>2 DEF Seam, Ended, Active
<1>8. CASE Subscribes(v)
  <2>1. /\ view[v] = "upgrade" /\ view'[v] = "replay" /\ start'[v] = kept /\ registered'[v]
        /\ UNCHANGED <<kept, queue, closed>>
    BY <1>2, <1>8 DEF Subscribes
  <2>2. queue'[v] = <<>> /\ ~closed'[v]
    BY <2>1 DEF TypeInv, Fresh
  <2>3. Sent(v)' = Output(kept, kept)
    BY <2>1 DEF Sent, Scrollback, Output
  <2>4. Output(kept, kept) \o <<>> = Output(kept, kept)
    <3>1. Output(kept, kept) \in Seq(1..MaxChunks)
      <4>1. kept \in 0..MaxChunks /\ kept \in 0..kept
        BY DEF TypeInv, CountOK
      <4>2. QED
        BY <4>1, OutputKind
    <3>2. QED
      BY <3>1, ConcatEmptySeq
  <2>5. Sent(v)' \o queue'[v] = Output(start'[v], kept)
    BY <2>1, <2>2, <2>3, <2>4
  <2>6. kept \in start'[v]..kept' /\ kept' = kept
    BY <1>2, <2>1
  <2>7. QED
    BY <1>3, <2>1, <2>2, <2>5, <2>6 DEF Seam, Ended
<1>9. CASE Replays(v)
  <2>1. /\ view[v] = "replay" /\ view'[v] = "wait" /\ got'[v] = Scrollback(start[v])
        /\ UNCHANGED <<kept, reap, atClose, registered, queue, closed, slow, start>>
    BY <1>2, <1>9 DEF Replays
  <2>2. Sent(v)' = Sent(v)
    BY <2>1 DEF Sent
  <2>3. QED
    BY <1>1, <1>3, <1>4, <2>1, <2>2 DEF Seam, Ended, Active
<1>10. CASE Passes(v, "wait", "check") \/ Passes(v, "drain", "drain")
  <2>1. /\ view[v] \in {"wait", "drain"} /\ view'[v] \in {"check", "drain"} /\ queue[v] # <<>>
        /\ got'[v] = Append(got[v], Head(queue[v])) /\ queue'[v] = Tail(queue[v])
        /\ UNCHANGED <<kept, reap, atClose, registered, closed, slow, start>>
    BY <1>2, <1>10 DEF Passes
  <2>2. got'[v] \o queue'[v] = got[v] \o queue[v]
    <3>1. got[v] \in Seq(1..MaxChunks) /\ queue[v] \in Seq(1..MaxChunks)
      BY <1>2
    <3>2. Append(got[v], Head(queue[v])) \o Tail(queue[v]) = got[v] \o queue[v]
      BY <2>1, <3>1, HeadPasses
    <3>3. QED
      BY <2>1, <3>2
  <2>3. Sent(v)' = got'[v] /\ Sent(v) = got[v]
    BY <2>1 DEF Sent
  <2>4. QED
    BY <1>1, <1>3, <1>4, <2>1, <2>2, <2>3 DEF Seam, Ended, Active
<1>11. QED
  BY <1>5, <1>6, <1>7, <1>8, <1>9, <1>10 DEF View

\* A viewer's own step leaves the others alone.
LEMMA OthersStay ==
  ASSUME TypeInv, NEW v \in Viewers, View(v) \/ Attaches(v) \/ Pings(v) \/ HangsUp(v),
         NEW u \in Viewers, u # v
  PROVE  /\ view'[u] = view[u] /\ start'[u] = start[u] /\ got'[u] = got[u] /\ queue'[u] = queue[u]
         /\ registered'[u] = registered[u] /\ closed'[u] = closed[u] /\ (u \in slow' <=> u \in slow)
         /\ UNCHANGED <<kept, reap, atClose>>
<1> USE DEF readVars, reapVars, subVars, TypeInv, ViewOK
<1>1. CASE Attaches(v) \/ HangsUp(v) \/ Pings(v) \/ Checks(v) \/ DrainTimer(v) \/ SeesClosed(v)
  BY <1>1 DEF Attaches, HangsUp, Pings, Checks, DrainTimer, SeesClosed
<1>2. CASE Subscribes(v)
  BY <1>2 DEF Subscribes
<1>3. CASE Replays(v)
  BY <1>3 DEF Replays
<1>4. CASE Passes(v, "wait", "check") \/ Passes(v, "drain", "drain")
  BY <1>4 DEF Passes
<1>5. CASE Leaves(v)
  BY <1>5 DEF Leaves
<1>6. QED
  BY <1>1, <1>2, <1>3, <1>4, <1>5 DEF View

\* Every step keeps the streams' invariant.
LEMMA StreamStep == TypeInv /\ TypeInv' /\ StreamInv /\ [Next]_vars => StreamInv'
<1> SUFFICES ASSUME TypeInv, TypeInv', StreamInv, [Next]_vars, NEW u \in Viewers
             PROVE  Seam(u)' /\ Ended(u)'
  BY DEF StreamInv
<1>1. Seam(u) /\ Ended(u)
  BY DEF StreamInv
<1>2. CASE ViewsStay /\ UNCHANGED <<kept, atClose>>
           /\ (reap \in {"closed", "done"} => reap' \in {"closed", "done"})
  BY <1>1, <1>2, StreamStays DEF ViewsStay, subVars, viewVars
<1>3. CASE ViewsStay /\ UNCHANGED <<reap, kept, atClose>>
  BY <1>2, <1>3
<1>4. CASE FanOut
  BY <1>4, FanOutStreams
<1>5. CASE ReapCloses
  BY <1>5, ClosesStreams
<1>6. ASSUME NEW v \in Viewers, View(v) \/ Attaches(v) \/ Pings(v) \/ HangsUp(v)
      PROVE  Seam(u)' /\ Ended(u)'
  <2>1. CASE u = v
    BY <1>6, <2>1, ViewerStreams
  <2>2. CASE u # v
    <3>1. /\ view'[u] = view[u] /\ start'[u] = start[u] /\ got'[u] = got[u] /\ queue'[u] = queue[u]
          /\ registered'[u] = registered[u] /\ closed'[u] = closed[u] /\ (u \in slow' <=> u \in slow)
          /\ UNCHANGED <<kept, reap, atClose>>
      BY <1>6, <2>2, OthersStay
    <3>2. QED
      BY <1>1, <3>1, StreamStays
  <2>3. QED
    BY <2>1, <2>2
<1>7. QED
  BY <1>2, <1>3, <1>4, <1>5, <1>6, ViewSteps DEF TypeInv

\* The streams' invariant holds in every reachable state.
LEMMA StreamInvCorrect == Spec => []StreamInv
<1>1. Init => StreamInv
  BY DEF Init, StreamInv, Seam, Ended, Active
<1>2. QED
  BY <1>1, StreamStep, TypeInvCorrect, PTL DEF Spec

\* What a viewer is sent is the output without a seam, whenever it attached.
THEOREM SeamCorrect == Spec => []Seamless
<1>1. StreamInv => Seamless
  BY DEF StreamInv, Seam, Sent, Seamless, Active
<1>2. QED
  BY <1>1, StreamInvCorrect, PTL

\* A viewer that is told the end, and was not slow, has all there was.
THEOREM EndCorrect == Spec => []EndComplete
<1>1. TypeInv /\ StreamInv => EndComplete
  <2> SUFFICES ASSUME TypeInv, StreamInv, NEW v \in Viewers, view[v] = "told", v \notin slow
               PROVE  got[v] = Output(start[v], atClose)
    BY DEF EndComplete
  <2>1. closed[v] /\ queue[v] = <<>>
    BY DEF StreamInv, Ended
  <2>2. got[v] \o queue[v] = Output(start[v], atClose)
    BY <2>1 DEF StreamInv, Ended, Active, Sent
  <2>3. got[v] \o <<>> = got[v]
    BY ConcatEmptySeq DEF TypeInv, ViewOK
  <2>4. QED
    BY <2>1, <2>2, <2>3
<1>2. QED
  BY <1>1, TypeInvCorrect, StreamInvCorrect, PTL
=============================================================================
