---------------------------- MODULE TurnProofs ----------------------------
(***************************************************************************)
(* Proofs about Turn, for every choice of handlers, every size of the ring  *)
(* and the channel, and every number of frames.                             *)
(***************************************************************************)
EXTENDS Turn, SequenceTheorems, TLAPS

\* What holds frames has room for one.
LEMMA Sizes == RingCap \in Nat \ {0} /\ ChanCap \in Nat \ {0} /\ MaxFrames \in Nat
  BY TurnAssumption

Increasing(s) == \A i, j \in DOMAIN s : i < j => s[i] < s[j]

\* A number after the last keeps a sequence increasing.
LEMMA AppendIncreases ==
  ASSUME NEW s \in Seq(Nat), NEW n \in Nat, Increasing(s), \A i \in DOMAIN s : s[i] < n
  PROVE  Increasing(Append(s, n)) /\ ToSet(Append(s, n)) = ToSet(s) \cup {n}
<1> DEFINE t == Append(s, n)
<1>1. Len(s) \in Nat /\ DOMAIN s = 1..Len(s) /\ DOMAIN t = 1..(Len(s) + 1)
  OBVIOUS
<1>2. t[Len(s) + 1] = n /\ \A i \in 1..Len(s) : t[i] = s[i] /\ s[i] \in Nat
  OBVIOUS
<1> HIDE DEF t
<1>3. Increasing(t)
  <2> SUFFICES ASSUME NEW i \in 1..(Len(s) + 1), NEW j \in 1..(Len(s) + 1), i < j
               PROVE  t[i] < t[j]
    BY <1>1 DEF Increasing
  <2>1. i \in 1..Len(s)
    BY <1>1
  <2>2. CASE j = Len(s) + 1
    BY <1>1, <1>2, <2>1, <2>2
  <2>3. CASE j \in 1..Len(s)
    BY <1>1, <1>2, <2>1, <2>3 DEF Increasing
  <2>4. QED
    BY <1>1, <2>2, <2>3
<1>4. ToSet(t) = ToSet(s) \cup {n}
  <2>1. 1..(Len(s) + 1) = 1..Len(s) \cup {Len(s) + 1}
    BY <1>1
  <2>2. QED
    BY <1>1, <1>2, <2>1 DEF ToSet
<1>5. QED
  BY <1>3, <1>4 DEF t

\* What is left of an increasing sequence is beyond its head.
LEMMA TailIncreases ==
  ASSUME NEW s \in Seq(Nat), s # <<>>, Increasing(s)
  PROVE  /\ Increasing(Tail(s)) /\ \A i \in DOMAIN Tail(s) : Head(s) < Tail(s)[i]
         /\ ToSet(s) = {Head(s)} \cup ToSet(Tail(s))
<1> DEFINE t == Tail(s)
<1>1. Len(s) \in Nat \ {0} /\ DOMAIN s = 1..Len(s) /\ Head(s) = s[1] /\ DOMAIN t = 1..(Len(s) - 1)
  OBVIOUS
<1>2. \A i \in 1..(Len(s) - 1) : t[i] = s[i + 1]
  OBVIOUS
<1> HIDE DEF t
<1>3. ASSUME NEW i \in DOMAIN t, NEW j \in DOMAIN t, i < j
      PROVE  t[i] < t[j]
  <2>1. i + 1 \in DOMAIN s /\ j + 1 \in DOMAIN s /\ i + 1 < j + 1 /\ t[i] = s[i + 1] /\ t[j] = s[j + 1]
    BY <1>1, <1>2, <1>3
  <2>2. QED
    BY <2>1 DEF Increasing
<1>4. ASSUME NEW i \in DOMAIN t
      PROVE  Head(s) < t[i]
  <2>1. 1 \in DOMAIN s /\ i + 1 \in DOMAIN s /\ 1 < i + 1 /\ t[i] = s[i + 1]
    BY <1>1, <1>2
  <2>2. QED
    BY <1>1, <2>1 DEF Increasing
<1>5. ToSet(s) = {Head(s)} \cup ToSet(t)
  <2>1. ASSUME NEW n \in 1..Len(s)
        PROVE  s[n] \in {Head(s)} \cup ToSet(t)
    <3>1. n = 1 \/ (n - 1 \in DOMAIN t /\ t[n - 1] = s[n])
      BY <1>1, <1>2
    <3>2. QED
      BY <1>1, <3>1 DEF ToSet
  <2>2. ASSUME NEW n \in DOMAIN t
        PROVE  t[n] \in ToSet(s)
    <3>1. n + 1 \in DOMAIN s /\ t[n] = s[n + 1]
      BY <1>1, <1>2
    <3>2. QED
      BY <3>1 DEF ToSet
  <2>3. Head(s) \in ToSet(s)
    BY <1>1 DEF ToSet
  <2>4. QED
    BY <1>1, <2>1, <2>2, <2>3 DEF ToSet
<1>6. QED
  BY <1>3, <1>4, <1>5 DEF Increasing, t

\* The frames newer than seq are numbers of the log beyond it, in their order.
LEMMA NewerIncreases ==
  ASSUME NEW S, log \in Seq(S), NEW seq \in 0..Len(log)
  PROVE  /\ Newer(seq) \in Seq(1..Len(log)) /\ Increasing(Newer(seq))
         /\ \A i \in DOMAIN Newer(seq) : seq < Newer(seq)[i]
<1> DEFINE first == IF Forgotten > seq THEN Forgotten ELSE seq
           size == IF first < Len(log) THEN Len(log) - first ELSE 0
           new == Newer(seq)
<1>1. Len(log) \in Nat /\ first \in Nat /\ seq <= first
  BY Sizes DEF Forgotten
<1>2. new = [i \in 1..size |-> first + i]
  BY DEF Newer
<1> HIDE DEF first, new
<1>3. size \in Nat /\ \A i \in 1..size : first + i \in 1..Len(log)
  BY <1>1
<1> HIDE DEF size
<1>4. new \in Seq(1..Len(log)) /\ DOMAIN new = 1..size
  BY <1>2, <1>3
<1>5. \A i \in DOMAIN new : new[i] = first + i
  BY <1>2, <1>4
<1>6. Increasing(new)
  BY <1>1, <1>3, <1>4, <1>5 DEF Increasing
<1>7. \A i \in DOMAIN new : seq < new[i]
  BY <1>1, <1>3, <1>4, <1>5
<1>8. QED
  BY <1>4, <1>6, <1>7 DEF new

\* The first of an increasing sequence are numbers of it, in their order.
LEMMA FirstIncrease ==
  ASSUME NEW s \in Seq(Nat), NEW N, s \in Seq(N), Increasing(s), NEW k \in 0..Len(s)
  PROVE  /\ SubSeq(s, 1, k) \in Seq(N) /\ Len(SubSeq(s, 1, k)) = k
         /\ Increasing(SubSeq(s, 1, k)) /\ ToSet(SubSeq(s, 1, k)) \subseteq ToSet(s)
<1> DEFINE t == SubSeq(s, 1, k)
<1>1. k \in Nat /\ Len(s) \in Nat /\ DOMAIN s = 1..Len(s) /\ \A i \in 1..k : i \in DOMAIN s /\ s[i] \in N
  OBVIOUS
<1>2. t \in Seq(N) /\ Len(t) = k /\ DOMAIN t = 1..k /\ \A i \in 1..k : t[i] = s[i]
  BY <1>1, SubSeqProperties
<1> HIDE DEF t
<1>3. Increasing(t) /\ ToSet(t) \subseteq ToSet(s)
  BY <1>1, <1>2 DEF Increasing, ToSet
<1>4. QED
  BY <1>2, <1>3 DEF t

----------------------------------------------------------------------------
(* Types *)

Numbers == 1..Len(log)

\* The types, with what TypeOK leaves out: nothing is published before the
\* session is there, and a channel that is registered is open.
TypeInv ==
  /\ call \in Calls
  /\ log \in Seq(Kinds \cup {"started"})
  /\ stage \in {"none", "live", "stopped", "closed", "gone"}
  /\ pc \in {"spawn", "look", "listen", "await", "settle", "mark", "subscribe", "write", "writing",
             "wait", "drain", "answer", "leave", "kill", "done"}
  /\ pc = "spawn" => stage = "none" /\ log = <<>>
  /\ mark \in 0..Len(log) /\ stopAt \in Nat /\ evicted \in Nat
  /\ registered \in BOOLEAN /\ closed \in BOOLEAN /\ due \in BOOLEAN /\ signalled \in BOOLEAN
  /\ registered => ~closed
  /\ queue \in Seq(Numbers) /\ Len(queue) <= ChanCap
  /\ said \subseteq Numbers /\ overrun \subseteq Numbers
  /\ preamble \in {"no", "open", "shut"} /\ ends \in Nat
  /\ result \in {"none", "spawn", "ready", "write", "timeout", "closed", "ok"}

\* What the log and the channel are, for the steps below.
LEMMA Shapes ==
  ASSUME TypeInv
  PROVE  /\ log \in Seq(Kinds \cup {"started"}) /\ Len(log) \in Nat /\ mark \in 0..Len(log) /\ mark \in Nat
         /\ queue \in Seq(Numbers) /\ queue \in Seq(Nat) /\ Len(queue) \in Nat /\ Numbers \subseteq Nat
         /\ ToSet(queue) \subseteq Numbers /\ \A n \in mark + 1 .. Len(log) : n \in Numbers
<1>1. log \in Seq(Kinds \cup {"started"}) /\ Len(log) \in Nat /\ mark \in 0..Len(log) /\ queue \in Seq(Numbers)
  BY DEF TypeInv
<1>2. mark \in Nat /\ Numbers \subseteq Nat /\ \A n \in mark + 1 .. Len(log) : n \in Numbers
  BY <1>1 DEF Numbers
<1>3. queue \in Seq(Nat)
  BY <1>1, <1>2, SeqMonotonic
<1>4. Len(queue) \in Nat /\ ToSet(queue) \subseteq Numbers
  BY <1>1 DEF ToSet
<1>5. QED
  BY <1>1, <1>2, <1>3, <1>4

\* What a publication does: a frame more in the log, and to the subscription
\* nothing, a number more in its channel, or its drop.
LEMMA FanOutFacts ==
  ASSUME TypeInv, NEW k \in Kinds, FanOut(k)
  PROVE  /\ log' \in Seq(Kinds \cup {"started"}) /\ Len(log') = Len(log) + 1 /\ Len(log) \in Nat
         /\ \A n \in Numbers : log'[n] = log[n]
         /\ Numbers \subseteq Numbers' /\ Len(log') \in Numbers'
         /\ \A n \in Numbers' : n \in Numbers \/ n = Len(log')
         /\ \/ ~registered /\ UNCHANGED <<registered, queue, closed>>
            \/ /\ registered /\ Len(queue) < ChanCap /\ UNCHANGED <<registered, closed>>
               /\ queue' = Append(queue, Len(log'))
            \/ registered /\ registered' = FALSE /\ closed' = TRUE /\ UNCHANGED queue
<1>1. log \in Seq(Kinds \cup {"started"}) /\ Len(log) \in Nat /\ Len(queue) \in Nat /\ ChanCap \in Nat
  BY Shapes, Sizes
<1>2. log' = Append(log, k)
  BY DEF FanOut
<1>3. log' \in Seq(Kinds \cup {"started"}) /\ Len(log') = Len(log) + 1 /\ \A n \in 1..Len(log) : log'[n] = log[n]
  BY <1>1, <1>2
<1>4. /\ 1..Len(log) \subseteq 1..Len(log') /\ Len(log') \in 1..Len(log')
      /\ \A n \in 1..Len(log') : n \in 1..Len(log) \/ n = Len(log')
  BY <1>1, <1>3
<1>5. \/ ~registered /\ UNCHANGED <<registered, queue, closed>>
      \/ /\ registered /\ Len(queue) < ChanCap /\ UNCHANGED <<registered, closed>>
         /\ queue' = Append(queue, Len(log'))
      \/ registered /\ registered' = FALSE /\ closed' = TRUE /\ UNCHANGED queue
  <2>1. CASE registered /\ Len(queue) >= ChanCap
    BY <2>1 DEF FanOut
  <2>2. CASE ~registered
    BY <2>2 DEF FanOut
  <2>3. CASE registered /\ ~(Len(queue) >= ChanCap)
    BY <1>1, <1>3, <2>3 DEF FanOut
  <2>4. QED
    BY <2>1, <2>2, <2>3
<1>6. QED
  BY <1>1, <1>3, <1>4, <1>5 DEF Numbers

\* A publication keeps the types.
LEMMA FanOutTypes ==
  ASSUME TypeInv, NEW k \in Kinds, FanOut(k), pc # "spawn", stage' \in {"live", "stopped", "closed", "gone"},
         UNCHANGED <<call, pc, mark, due, stopAt, said, preamble, ends, result, signalled, overrun, evicted>>
  PROVE  TypeInv'
<1>1. queue \in Seq(Numbers') /\ said \subseteq Numbers' /\ overrun \subseteq Numbers'
  <2>1. Numbers \subseteq Numbers'
    BY FanOutFacts
  <2>2. QED
    BY <2>1, SeqMonotonic DEF TypeInv
<1>2. queue' \in Seq(Numbers') /\ Len(queue') <= ChanCap
  <2>1. Len(log') \in Numbers' /\ Len(queue) \in Nat /\ Len(queue) <= ChanCap /\ ChanCap \in Nat
    BY FanOutFacts, Shapes, Sizes DEF TypeInv
  <2>2. Append(queue, Len(log')) \in Seq(Numbers') /\ Len(Append(queue, Len(log'))) = Len(queue) + 1
    BY <1>1, <2>1
  <2>3. UNCHANGED queue \/ (queue' = Append(queue, Len(log')) /\ Len(queue) < ChanCap)
    BY FanOutFacts
  <2>4. CASE UNCHANGED queue
    BY <1>1, <2>1, <2>4
  <2>5. CASE queue' = Append(queue, Len(log')) /\ Len(queue) < ChanCap
    BY <2>1, <2>2, <2>5
  <2>6. QED
    BY <2>3, <2>4, <2>5
<1>3. mark' \in 0..Len(log')
  <2>1. mark' = mark /\ mark \in 0..Len(log) /\ Len(log') = Len(log) + 1 /\ Len(log) \in Nat
    BY FanOutFacts, Shapes
  <2>2. QED
    BY <2>1
<1>4. registered' \in BOOLEAN /\ closed' \in BOOLEAN /\ (registered' => ~closed') /\ log' \in Seq(Kinds \cup {"started"})
  BY FanOutFacts DEF TypeInv
<1>5. QED
  BY <1>1, <1>2, <1>3, <1>4 DEF TypeInv

\* A subscription is filled with numbers of the log beyond the mark, in their
\* order, and those it has no room for count as overrun.
LEMMA SubscribeFacts ==
  ASSUME TypeInv, NEW a, NEW b, Subscribe(a, b)
  PROVE  /\ pc = a /\ pc' = b /\ registered' = TRUE /\ closed' = FALSE
         /\ UNCHANGED <<call, log, stage, mark, due, stopAt, said, preamble, ends, result, signalled, evicted>>
         /\ queue' \in Seq(Numbers) /\ Len(queue') <= ChanCap /\ Increasing(queue')
         /\ \A n \in ToSet(queue') : mark < n
         /\ overrun' \subseteq Numbers
         /\ \A n \in mark + 1 .. Len(log) : n \in ToSet(queue') \cup overrun'
<1> DEFINE new == Newer(mark)
           k == IF Len(new) < ChanCap THEN Len(new) ELSE ChanCap
<1>1. new \in Seq(Numbers) /\ Increasing(new) /\ \A i \in DOMAIN new : mark < new[i]
  BY Shapes, NewerIncreases DEF Numbers
<1>2. queue' = SubSeq(new, 1, k) /\ overrun' = (mark + 1 .. Len(log)) \ ToSet(queue')
  BY DEF Subscribe
<1> HIDE DEF new
<1>3. new \in Seq(Nat) /\ Len(new) \in Nat
  BY <1>1, Shapes, SeqMonotonic
<1>4. k \in 0..Len(new) /\ k <= ChanCap
  BY <1>3, Sizes
<1>5. queue' \in Seq(Numbers) /\ Len(queue') = k /\ Increasing(queue') /\ ToSet(queue') \subseteq ToSet(new)
  BY <1>1, <1>2, <1>3, <1>4, FirstIncrease
<1>6. \A n \in ToSet(queue') : mark < n
  BY <1>1, <1>5 DEF ToSet
<1>7. overrun' \subseteq Numbers
  BY <1>2, Shapes
<1>8. QED
  BY <1>2, <1>4, <1>5, <1>6, <1>7 DEF Subscribe, outVars

\* What is taken from the channel.
LEMMA TailKind ==
  ASSUME TypeInv, queue # <<>>
  PROVE  /\ Head(queue) \in Numbers /\ Tail(queue) \in Seq(Numbers)
         /\ Len(Tail(queue)) <= ChanCap /\ Head(queue) \in ToSet(queue)
<1>1. queue \in Seq(Numbers) /\ Len(queue) <= ChanCap /\ ChanCap \in Nat /\ Len(queue) \in Nat /\ Len(queue) # 0
  BY Shapes, Sizes DEF TypeInv
<1>2. Head(queue) = queue[1] /\ 1 \in DOMAIN queue /\ Tail(queue) \in Seq(Numbers) /\ Len(Tail(queue)) = Len(queue) - 1
  BY <1>1
<1>3. Head(queue) \in Numbers /\ Head(queue) \in ToSet(queue)
  BY <1>1, <1>2 DEF ToSet
<1>4. QED
  BY <1>1, <1>2, <1>3

\* What is left when a subscription is given up, and what an answer holds.
LEMMA EmptyChannel == <<>> \in Seq(Numbers) /\ Len(<<>>) <= ChanCap /\ \A S : ToSet(<<>>) \subseteq S
  BY Sizes DEF ToSet

LEMMA AnsweredKind == TypeInv => Answered \subseteq Numbers /\ Forgotten \in Nat
<1> SUFFICES ASSUME TypeInv PROVE Answered \subseteq Numbers /\ Forgotten \in Nat
  OBVIOUS
<1>1. Len(log) \in Nat /\ Forgotten \in Nat
  BY Shapes, Sizes DEF Forgotten
<1>2. Answered \subseteq Forgotten + 1 .. Len(log)
  BY DEF Answered
<1>3. QED
  BY <1>1, <1>2 DEF Numbers

LEMMA CloseStreamTypes ==
  ASSUME TypeInv, CloseStream
  PROVE  preamble' \in {"no", "open", "shut"} /\ ends' \in Nat
  BY DEF TypeInv, CloseStream

\* A step that publishes nothing keeps the types if it keeps those of what it changes.
LEMMA QuietTypes ==
  ASSUME TypeInv, UNCHANGED <<call, log>>,
         stage' \in {"none", "live", "stopped", "closed", "gone"},
         pc' \in {"look", "listen", "await", "settle", "mark", "subscribe", "write", "writing",
                  "wait", "drain", "answer", "leave", "kill", "done"} \/ UNCHANGED <<pc, stage>>,
         mark' \in 0..Len(log), stopAt' \in Nat, evicted' \in Nat,
         registered' \in BOOLEAN, closed' \in BOOLEAN, due' \in BOOLEAN, signalled' \in BOOLEAN,
         registered' => ~closed',
         queue' \in Seq(Numbers), Len(queue') <= ChanCap,
         said' \subseteq Numbers, overrun' \subseteq Numbers,
         preamble' \in {"no", "open", "shut"}, ends' \in Nat,
         result' \in {"none", "spawn", "ready", "write", "timeout", "closed", "ok"}
  PROVE  TypeInv'
<1>1. Numbers' = Numbers
  BY DEF Numbers
<1>2. QED
  BY <1>1 DEF TypeInv

\* Every step keeps the types.
LEMMA TypeStep == TypeInv /\ [Next]_vars => TypeInv'
<1> SUFFICES ASSUME TypeInv, [Next]_vars
             PROVE  TypeInv'
  OBVIOUS
<1> USE DEF busVars, outVars
<1>0. "stop" \in Kinds
  BY DEF Kinds
<1>1. ASSUME NEW k \in Kinds, Publish(k)
      PROVE  TypeInv'
  BY <1>1, FanOutTypes DEF Publish, TypeInv
<1>2. CASE SessionStops
  BY <1>0, <1>2, FanOutTypes DEF SessionStops, TypeInv
<1>3. CASE SessionCloses \/ PtyCloses
  <2>1. CASE SessionCloses
    <3>1. registered' \in BOOLEAN /\ closed' \in BOOLEAN /\ ~registered'
      BY <2>1 DEF SessionCloses, TypeInv
    <3>2. QED
      BY <2>1, <3>1, QuietTypes DEF SessionCloses, TypeInv
  <2>2. CASE PtyCloses
    BY <2>2, QuietTypes DEF PtyCloses, TypeInv
  <2>3. QED
    BY <1>3, <2>1, <2>2
<1>4. CASE Due \/ ContextCloses \/ OthersWrite \/ OthersWriteReturns
  <2>1. CASE Due
    BY <2>1, QuietTypes DEF Due, TypeInv
  <2>4. CASE OthersWrite \/ OthersWriteReturns
    BY <2>4, QuietTypes DEF OthersWrite, OthersWriteReturns, TypeInv
  <2>2. CASE ContextCloses
    <3>1. registered' \in BOOLEAN /\ closed' \in BOOLEAN /\ ~registered'
      BY <2>2 DEF ContextCloses
    <3>2. QED
      BY <2>2, <3>1, QuietTypes DEF ContextCloses, TypeInv
  <2>3. QED
    BY <1>4, <2>1, <2>2, <2>4
<1>5. CASE SpawnFails
  BY <1>5, QuietTypes DEF SpawnFails, TypeInv
<1>6. CASE Spawns
  <2>1. log = <<>> /\ log' = <<"started">> /\ pc' = "look" /\ stage' = "live"
        /\ UNCHANGED <<call, registered, queue, closed, mark, due, stopAt, said, preamble, ends, result,
                       signalled, overrun, evicted>>
    BY <1>6 DEF Spawns, TypeInv
  <2>2. Len(log) = 0 /\ Len(log') = 1 /\ log' \in Seq(Kinds \cup {"started"})
    BY <2>1
  <2>3. Numbers = {} /\ Numbers \subseteq Numbers'
    BY <2>2 DEF Numbers
  <2>4. queue \in Seq(Numbers') /\ said \subseteq Numbers' /\ overrun \subseteq Numbers'
    BY <2>3, SeqMonotonic DEF TypeInv
  <2>5. mark \in 0..Len(log')
    BY <2>2 DEF TypeInv
  <2>6. QED
    BY <2>1, <2>2, <2>4, <2>5 DEF TypeInv
<1>7. CASE LooksForReady
  <2>1. mark' \in 0..Len(log)
    BY <1>7, Shapes DEF LooksForReady
  <2>2. QED
    BY <1>7, <2>1, QuietTypes DEF LooksForReady, TypeInv
<1>8. ASSUME NEW a, NEW b \in {"await", "write", "wait"}, Subscribe(a, b)
      PROVE  TypeInv'
  BY <1>8, SubscribeFacts, QuietTypes DEF TypeInv
<1>9. CASE SeesReady
  <2>1. Tail(queue) \in Seq(Numbers) /\ Len(Tail(queue)) <= ChanCap
    BY <1>9, TailKind DEF SeesReady
  <2>2. CASE pc' = "settle" /\ Unsubscribe
    BY <1>9, <2>2, EmptyChannel, QuietTypes DEF SeesReady, Unsubscribe, TypeInv
  <2>3. CASE queue' = Tail(queue) /\ UNCHANGED <<pc, registered, closed>>
    BY <1>9, <2>1, <2>3, QuietTypes DEF SeesReady, TypeInv
  <2>4. QED
    BY <1>9, <2>2, <2>3 DEF SeesReady
<1>10. CASE NotReady
  BY <1>10, EmptyChannel, QuietTypes DEF NotReady, Unsubscribe, TypeInv
<1>11. CASE Settles
  BY <1>11, QuietTypes DEF Settles, TypeInv
<1>12. CASE Marks
  <2>1. Len(log) \in 0..Len(log)
    BY Shapes
  <2>2. QED
    BY <1>12, <2>1, QuietTypes DEF Marks, TypeInv
<1>13. CASE WriteBegins \/ WriteReturns
  <2>1. CASE WriteBegins
    BY <2>1, QuietTypes DEF WriteBegins, TypeInv
  <2>2. CASE WriteReturns
    BY <2>2, QuietTypes DEF WriteReturns, TypeInv
  <2>3. QED
    BY <1>13, <2>1, <2>2
<1>14. ASSUME NEW a, WriteError(a)
       PROVE  TypeInv'
  BY <1>14, CloseStreamTypes, QuietTypes DEF WriteError, TypeInv
<1>15. CASE TimesOut
  BY <1>15, AnsweredKind, CloseStreamTypes, QuietTypes DEF TimesOut, TypeInv
<1>16. CASE SeesClosed
  BY <1>16, QuietTypes DEF SeesClosed, TypeInv
<1>17. CASE Receives \/ Drains
  <2>1. /\ Tail(queue) \in Seq(Numbers) /\ Len(Tail(queue)) <= ChanCap
        /\ Head(queue) \in Numbers /\ Head(queue) \in Nat
    BY <1>17, TailKind, Shapes DEF Receives, Drains
  <2>2. said' \subseteq Numbers
    BY <1>17, <2>1 DEF Receives, Drains, Passes, TypeInv
  <2>3. CASE Receives
    BY <2>1, <2>2, <2>3, QuietTypes DEF Receives, TypeInv
  <2>4. CASE Drains
    BY <2>1, <2>2, <2>4, QuietTypes DEF Drains, TypeInv
  <2>5. QED
    BY <1>17, <2>3, <2>4
<1>18. CASE DrainEnds
  BY <1>18, QuietTypes DEF DrainEnds, TypeInv
<1>19. CASE Answers
  BY <1>19, AnsweredKind, QuietTypes DEF Answers, TypeInv
<1>20. CASE EndsStream
  BY <1>20, QuietTypes DEF EndsStream, TypeInv
<1>21. CASE Leaves \/ Kills
  <2>1. CASE Leaves
    BY <2>1, CloseStreamTypes, EmptyChannel, QuietTypes DEF Leaves, Unsubscribe, TypeInv
  <2>2. CASE Kills
    BY <2>2, QuietTypes DEF Kills, TypeInv
  <2>3. QED
    BY <1>21, <2>1, <2>2
<1>22. CASE UNCHANGED vars
  BY <1>22 DEF vars, TypeInv, Numbers
<1>23. QED
  <2>1. CASE Serve
    BY <1>5, <1>6, <1>7, <1>8, <1>9, <1>10, <1>11, <1>12, <1>14, <1>15, <1>16, <1>17, <1>18,
       <1>19, <1>20, <1>21, <2>1 DEF Serve, WriteRefused
  <2>2. QED
    BY <1>1, <1>2, <1>3, <1>4, <1>13, <1>14, <1>21, <1>22, <2>1 DEF Next, WriteFails

LEMMA TypeInit == Init => TypeInv
<1> SUFFICES ASSUME Init PROVE TypeInv
  OBVIOUS
<1>1. log = <<>> /\ Len(log) = 0 /\ queue = <<>> /\ Len(queue) = 0
  BY DEF Init
<1>2. \A S : <<>> \in Seq(S)
  OBVIOUS
<1>3. 0 <= ChanCap /\ 0 \in 0..0
  BY Sizes
<1>4. QED
  BY <1>1, <1>2, <1>3 DEF Init, TypeInv

\* The lock is this handler's exactly while it writes.
LockInv == lock \in {"free", "turn", "other"} /\ (lock = "turn" <=> pc = "writing")

LEMMA LockStep == LockInv /\ [Next]_vars => LockInv'
<1> SUFFICES ASSUME LockInv, [Next]_vars
             PROVE  LockInv'
  OBVIOUS
<1>1. ASSUME UNCHANGED <<lock, pc>>
      PROVE  LockInv'
  BY <1>1 DEF LockInv
<1>2. ASSUME UNCHANGED lock, pc # "writing", pc' # "writing"
      PROVE  LockInv'
  BY <1>2 DEF LockInv
<1>3. CASE (\E k \in Kinds : Publish(k)) \/ SessionStops \/ SessionCloses \/ PtyCloses \/ Due \/ ContextCloses
  BY <1>1, <1>3 DEF Publish, SessionStops, SessionCloses, PtyCloses, Due, ContextCloses
<1>4. CASE OthersWrite \/ OthersWriteReturns
  BY <1>4 DEF OthersWrite, OthersWriteReturns, LockInv
<1>5. CASE WriteBegins \/ WriteReturns
  BY <1>5 DEF WriteBegins, WriteReturns, LockInv
<1>6. CASE WriteRefused \/ WriteFails
  BY <1>6 DEF WriteRefused, WriteFails, WriteError, LockInv
<1>7. CASE SpawnFails \/ Spawns \/ LooksForReady \/ NotReady \/ Settles \/ Marks
  <2>1. UNCHANGED lock /\ pc # "writing" /\ pc' # "writing"
    BY <1>7 DEF SpawnFails, Spawns, LooksForReady, NotReady, Settles, Marks
  <2>2. QED
    BY <1>2, <2>1
<1>8. CASE TimesOut \/ SeesClosed \/ DrainEnds \/ Answers \/ EndsStream \/ Leaves \/ Kills
  <2>1. UNCHANGED lock /\ pc # "writing" /\ pc' # "writing"
    BY <1>8 DEF TimesOut, SeesClosed, DrainEnds, Answers, EndsStream, Leaves, Kills
  <2>2. QED
    BY <1>2, <2>1
<1>9. CASE SeesReady \/ Receives \/ Drains
  <2>1. UNCHANGED lock /\ pc # "writing" /\ pc' # "writing"
    BY <1>9 DEF SeesReady, Receives, Drains
  <2>2. QED
    BY <1>2, <2>1
<1>10. ASSUME NEW a \in {"listen", "subscribe"}, NEW b \in {"await", "write", "wait"}, Subscribe(a, b)
       PROVE  LockInv'
  <2>1. UNCHANGED lock /\ pc # "writing" /\ pc' # "writing"
    BY <1>10 DEF Subscribe
  <2>2. QED
    BY <1>2, <2>1
<1>11. CASE UNCHANGED vars
  BY <1>1, <1>11 DEF vars
<1>12. QED
  BY <1>3, <1>4, <1>5, <1>6, <1>7, <1>8, <1>9, <1>10, <1>11 DEF Next, Serve

\* Turn keeps to its types: the mark, the texts it answers with and the frames
\* in its channel are frames of the log, and a channel never holds more than
\* its capacity.
THEOREM TypeCorrect == Spec => []TypeOK
<1>1. TypeInv /\ LockInv => TypeOK
  BY DEF TypeInv, LockInv, TypeOK, Numbers
<1>2. Init => LockInv
  BY DEF Init, LockInv
<1>3. QED
  BY <1>1, <1>2, TypeInit, TypeStep, LockStep, PTL DEF Spec

----------------------------------------------------------------------------
(* The terminators of an event stream *)

\* Before the mark nothing of an event stream has been written.
Opening == {"spawn", "look", "listen", "await", "settle", "mark"}

\* The stream is shut by its terminators, and nothing else; by then the handler
\* is on its way out, and it does not go without.
EndsInv ==
  /\ ends = IF preamble = "shut" THEN 1 ELSE 0
  /\ pc \in Opening => preamble = "no"
  /\ preamble = "shut" => pc \in {"leave", "kill", "done"}
  /\ pc \in {"kill", "done"} => preamble # "open"

\* A step that writes neither preamble nor terminator, and does not leave.
LEMMA QuietEnds ==
  ASSUME EndsInv, UNCHANGED <<preamble, ends>>,
         \/ pc' = pc
         \/ pc' \notin {"kill", "done"} /\ pc \notin {"leave", "kill", "done"}
         \/ pc = "kill" /\ pc' = "done",
         pc' \in Opening => pc \in Opening
  PROVE  EndsInv'
<1>1. CASE pc' = pc \/ (pc = "kill" /\ pc' = "done")
  BY <1>1 DEF EndsInv, Opening
<1>2. CASE pc' \notin {"kill", "done"} /\ pc \notin {"leave", "kill", "done"}
  BY <1>2 DEF EndsInv
<1>3. QED
  BY <1>1, <1>2

\* Every step keeps the count of terminators.
LEMMA EndsStep == TypeInv /\ EndsInv /\ [Next]_vars => EndsInv'
<1> SUFFICES ASSUME TypeInv, EndsInv, [Next]_vars
             PROVE  EndsInv'
  OBVIOUS
<1> USE DEF busVars, outVars
<1>1. ASSUME \/ \E k \in Kinds : Publish(k)
             \/ SessionStops \/ SessionCloses \/ PtyCloses \/ Due \/ ContextCloses
             \/ OthersWrite \/ OthersWriteReturns \/ UNCHANGED vars
      PROVE  EndsInv'
  <2>1. UNCHANGED <<preamble, ends, pc>>
    BY <1>1 DEF Publish, SessionStops, SessionCloses, PtyCloses, Due, ContextCloses, OthersWrite,
         OthersWriteReturns, vars
  <2>2. QED
    BY <2>1, QuietEnds
<1>2. CASE SpawnFails
  BY <1>2 DEF SpawnFails, EndsInv, Opening
<1>3. ASSUME \/ Spawns \/ LooksForReady \/ Subscribe("listen", "await") \/ SeesReady \/ Settles
      PROVE  EndsInv'
  <2>1. UNCHANGED <<preamble, ends>> /\ pc \in Opening /\ pc' \in Opening
    BY <1>3 DEF Spawns, LooksForReady, Subscribe, SeesReady, Settles, Opening
  <2>2. QED
    BY <2>1, QuietEnds DEF Opening
<1>4. CASE NotReady
  BY <1>4, QuietEnds DEF NotReady, Opening
<1>5. CASE Marks
  BY <1>5 DEF Marks, EndsInv, Opening
<1>6. ASSUME \/ WriteBegins \/ WriteReturns \/ Kills \/ Subscribe("subscribe", IF call = "stream" THEN "write" ELSE "wait")
             \/ SeesClosed \/ Receives \/ Drains \/ DrainEnds \/ Answers
      PROVE  EndsInv'
  <2>1. CASE Kills
    BY <2>1, QuietEnds DEF Kills, Opening
  <2>2. CASE ~Kills
    <3>1. /\ UNCHANGED <<preamble, ends>> /\ pc \notin {"leave", "kill", "done"}
          /\ pc' \in {"write", "writing", "subscribe", "wait", "drain", "answer", "leave"}
      BY <1>6, <2>2 DEF WriteBegins, WriteReturns, Subscribe, SeesClosed, Receives, Drains, DrainEnds, Answers
    <3>2. QED
      BY <3>1, QuietEnds DEF Opening
  <2>3. QED
    BY <2>1, <2>2
<1>7. ASSUME WriteRefused \/ WriteFails \/ TimesOut
      PROVE  EndsInv'
  <2>1. CloseStream /\ pc \in {"write", "writing", "wait"} /\ pc' = "leave"
    BY <1>7 DEF WriteRefused, WriteFails, WriteError, TimesOut
  <2>2. QED
    BY <2>1 DEF CloseStream, EndsInv, Opening
<1>8. CASE EndsStream
  BY <1>8 DEF EndsStream, EndsInv, Opening
<1>9. CASE Leaves
  BY <1>9 DEF Leaves, CloseStream, EndsInv, Opening
<1>10. QED
  BY <1>1, <1>2, <1>3, <1>4, <1>5, <1>6, <1>7, <1>8, <1>9 DEF Next, Serve

\* Once an event stream has begun it is terminated, exactly once, on every way
\* out of the handler: answered, closed, timed out, or with a prompt that could
\* not be written.
THEOREM EndsCorrect == Spec => []EndsOnce
<1>1. Init => EndsInv
  BY DEF Init, EndsInv, Opening
<1>2. TypeInv /\ EndsInv => EndsOnce
  BY DEF TypeInv, EndsInv, EndsOnce
<1>3. QED
  BY <1>1, <1>2, TypeInit, TypeStep, EndsStep, PTL DEF Spec

----------------------------------------------------------------------------
(* The stop is not missed *)

\* The handler has subscribed after the mark and has not met a stop yet.
Watching == pc = "wait" \/ (pc \in {"write", "writing"} /\ call = "stream")

\* A frame the replay lacked, or one that may be behind: no stop, and if it is
\* the assistant's text, passed on to the client of an event stream.
Met(n) ==
  \/ n \in overrun
  \/ log[n] # "stop" /\ (call = "stream" /\ log[n] = "text" => n \in said)

\* What is in the channel is in order; a registered one holds everything since
\* the mark that is not met, and one that is closed a run without gaps.
WatchInv ==
  /\ Increasing(queue)
  /\ Watching =>
       /\ registered \/ closed
       /\ \A n \in ToSet(queue) : mark < n
       /\ \A m \in ToSet(queue) : \A n \in mark + 1 .. m : Met(n) \/ n \in ToSet(queue)
       /\ registered => \A n \in mark + 1 .. Len(log) : Met(n) \/ n \in ToSet(queue)

LEMMA EmptyIncreases == Increasing(<<>>)
  BY DEF Increasing

\* A publication keeps what the channel holds.
LEMMA FanOutWatch ==
  ASSUME TypeInv, WatchInv, NEW k \in Kinds, FanOut(k), UNCHANGED <<call, pc, mark, said, overrun>>
  PROVE  WatchInv'
<1>0. /\ queue \in Seq(Numbers) /\ queue \in Seq(Nat) /\ ToSet(queue) \subseteq Numbers
      /\ Len(log) \in Nat /\ Len(log') = Len(log) + 1 /\ mark \in Nat /\ mark <= Len(log)
      /\ \A n \in Numbers : log'[n] = log[n]
  <2>1. mark <= Len(log) /\ mark \in Nat /\ Len(log) \in Nat
    BY Shapes
  <2>2. QED
    BY <2>1, Shapes, FanOutFacts
<1>1. /\ \A n \in Numbers : Met(n) => Met(n)'
      /\ Watching' = Watching
  BY <1>0 DEF Met, Watching
<1>2. \A n \in mark + 1 .. Len(log') : (n \in Numbers /\ n \in mark + 1 .. Len(log)) \/ n = Len(log')
  BY <1>0 DEF Numbers
<1>3. \A m \in Numbers : \A n \in mark + 1 .. m : n \in Numbers
  BY <1>0 DEF Numbers
<1>4. CASE UNCHANGED queue /\ ~registered' /\ (registered \/ closed => closed')
  BY <1>0, <1>1, <1>3, <1>4 DEF WatchInv
<1>5. CASE registered /\ UNCHANGED <<registered, closed>> /\ queue' = Append(queue, Len(log'))
  <2>1. \A i \in DOMAIN queue : queue[i] < Len(log')
    <3>1. \A i \in DOMAIN queue : queue[i] \in Numbers
      BY <1>0
    <3>2. QED
      BY <1>0, <3>1 DEF Numbers
  <2>2. Increasing(queue') /\ ToSet(queue') = ToSet(queue) \cup {Len(log')}
    <3>1. Len(log') \in Nat
      BY <1>0
    <3>2. QED
      BY <1>0, <1>5, <2>1, <3>1, AppendIncreases DEF WatchInv
  <2>3. ASSUME Watching
        PROVE  /\ \A n \in ToSet(queue') : mark < n
               /\ \A n \in mark + 1 .. Len(log') : Met(n)' \/ n \in ToSet(queue')
    <3>1. mark < Len(log')
      BY <1>0
    <3>2. QED
      BY <1>1, <1>2, <1>5, <2>2, <2>3, <3>1 DEF WatchInv
  <2>4. \A m \in ToSet(queue') : \A n \in mark + 1 .. m : n \in mark + 1 .. Len(log')
    <3>1. \A m \in ToSet(queue') : m \in Nat /\ m <= Len(log')
      BY <1>0, <2>2 DEF Numbers
    <3>2. QED
      BY <1>0, <3>1
  <2>5. QED
    BY <1>1, <1>5, <2>2, <2>3, <2>4 DEF WatchInv
<1>6. QED
  BY <1>4, <1>5, FanOutFacts DEF TypeInv

\* Every step keeps it.
LEMMA WatchStep == TypeInv /\ WatchInv /\ [Next]_vars => WatchInv'
<1> SUFFICES ASSUME TypeInv, WatchInv, [Next]_vars
             PROVE  WatchInv'
  OBVIOUS
<1> USE DEF busVars, outVars
<1>0. "stop" \in Kinds
  BY DEF Kinds
<1>1. CASE (\E k \in Kinds : Publish(k)) \/ SessionStops
  BY <1>0, <1>1, FanOutWatch DEF Publish, SessionStops
<1>2. ASSUME UNCHANGED <<call, log, pc, mark, queue, said, overrun>>,
             registered \/ closed => registered' \/ closed', registered' => registered
      PROVE  WatchInv'
  <2>1. Watching' = Watching /\ \A n : Met(n)' = Met(n)
    BY <1>2 DEF Watching, Met
  <2>2. QED
    BY <1>2, <2>1 DEF WatchInv
<1>3. CASE SessionCloses \/ PtyCloses \/ Due \/ ContextCloses \/ OthersWrite \/ OthersWriteReturns \/ UNCHANGED vars
  <2>1. CASE SessionCloses
    BY <1>2, <2>1 DEF SessionCloses
  <2>2. CASE ContextCloses
    BY <1>2, <2>2 DEF ContextCloses
  <2>3. CASE PtyCloses \/ Due \/ OthersWrite \/ OthersWriteReturns \/ UNCHANGED vars
    BY <1>2, <2>3 DEF PtyCloses, Due, OthersWrite, OthersWriteReturns, vars
  <2>4. QED
    BY <1>3, <2>1, <2>2, <2>3
\* A step that leaves the channel, or empties it, and does not watch.
<1>4. ASSUME UNCHANGED queue \/ queue' = <<>>, ~Watching'
      PROVE  WatchInv'
  BY <1>4, EmptyIncreases DEF WatchInv
<1>5. CASE SpawnFails \/ Spawns \/ LooksForReady \/ Settles \/ Marks
  <2>1. UNCHANGED queue /\ pc' \notin {"wait", "writing"} /\ (pc' = "write" => call' # "stream")
    BY <1>5 DEF SpawnFails, Spawns, LooksForReady, Settles, Marks
  <2>2. QED
    BY <1>4, <2>1 DEF Watching
<1>6. ASSUME NEW a, NEW b, Subscribe(a, b)
      PROVE  WatchInv'
  <2>1. /\ registered' = TRUE /\ UNCHANGED <<log, mark>> /\ Increasing(queue') /\ queue' \in Seq(Numbers)
        /\ \A n \in ToSet(queue') : mark < n
        /\ \A n \in mark + 1 .. Len(log) : n \in ToSet(queue') \cup overrun'
    BY <1>6, SubscribeFacts
  <2>2. \A n \in mark + 1 .. Len(log) : Met(n)' \/ n \in ToSet(queue')
    BY <2>1 DEF Met
  <2>3. \A m \in ToSet(queue') : \A n \in mark + 1 .. m : n \in mark + 1 .. Len(log)
    <3>1. \A m \in ToSet(queue') : m \in Numbers
      BY <2>1 DEF ToSet
    <3>2. QED
      BY <3>1, Shapes DEF Numbers
  <2>4. QED
    BY <2>1, <2>2, <2>3 DEF WatchInv
<1>7. CASE SeesReady
  <2>1. pc = "await" /\ queue # <<>> /\ ~Watching'
    BY <1>7 DEF SeesReady, Watching
  <2>2. Increasing(Tail(queue))
    BY <2>1, Shapes, TailIncreases DEF WatchInv
  <2>3. queue' = Tail(queue) \/ queue' = <<>>
    BY <1>7 DEF SeesReady, Unsubscribe
  <2>4. QED
    BY <2>1, <2>2, <2>3, EmptyIncreases DEF WatchInv
<1>8. CASE NotReady \/ Leaves
  BY <1>4, <1>8 DEF NotReady, Leaves, Unsubscribe, Watching
<1>9. CASE WriteBegins \/ WriteReturns
  <2>1. UNCHANGED <<call, log, registered, queue, closed, mark, said, overrun>> /\ (Watching' => Watching)
    BY <1>9 DEF WriteBegins, WriteReturns, Watching
  <2>2. \A n : Met(n)' = Met(n)
    BY <2>1 DEF Met
  <2>3. QED
    BY <2>1, <2>2 DEF WatchInv
<1>10. CASE WriteRefused \/ WriteFails \/ TimesOut \/ SeesClosed \/ DrainEnds \/ Answers \/ EndsStream \/ Kills
  <2>1. UNCHANGED queue /\ pc' \in {"leave", "answer", "done"}
    BY <1>10 DEF WriteRefused, WriteFails, WriteError, TimesOut, SeesClosed, DrainEnds, Answers, EndsStream, Kills
  <2>2. QED
    BY <1>4, <2>1 DEF Watching
<1>11. ASSUME queue # <<>>, queue' = Tail(queue)
       PROVE  /\ Increasing(queue') /\ \A n \in ToSet(queue') : Head(queue) < n
              /\ ToSet(queue) = {Head(queue)} \cup ToSet(queue')
  BY <1>11, Shapes, TailIncreases DEF WatchInv, ToSet
<1>12. CASE Receives
  <2>1. /\ queue # <<>> /\ queue' = Tail(queue) /\ Passes(Head(queue)) /\ pc = "wait"
        /\ UNCHANGED <<call, log, registered, closed, mark, overrun>>
    BY <1>12 DEF Receives
  <2>2. CASE log[Head(queue)] = "stop"
    BY <1>11, <1>12, <2>1, <2>2 DEF Receives, WatchInv, Watching
  <2>3. CASE log[Head(queue)] # "stop"
    <3>1. \A n : Met(n) \/ n = Head(queue) => Met(n)'
      <4>1. said \subseteq said' /\ (call = "stream" /\ log[Head(queue)] = "text" => Head(queue) \in said')
        BY <2>1 DEF Passes
      <4>2. QED
        BY <2>1, <2>3, <4>1 DEF Met
    <3>2. Watching
      BY <2>1 DEF Watching
    <3>3. ToSet(queue) = {Head(queue)} \cup ToSet(queue') /\ Increasing(queue')
      BY <1>11, <2>1
    <3>4. \A n : Met(n) \/ n \in ToSet(queue) => Met(n)' \/ n \in ToSet(queue')
      <4> SUFFICES ASSUME NEW n, Met(n) \/ n \in ToSet(queue) PROVE Met(n)' \/ n \in ToSet(queue')
        OBVIOUS
      <4>1. n \in ToSet(queue) => n = Head(queue) \/ n \in ToSet(queue')
        BY <3>3
      <4>2. QED
        BY <3>1, <4>1
    <3>5. QED
      BY <2>1, <3>2, <3>3, <3>4 DEF WatchInv
  <2>4. QED
    BY <2>2, <2>3
<1>13. CASE Drains
  <2>1. queue # <<>> /\ queue' = Tail(queue) /\ pc' = "drain"
    BY <1>13 DEF Drains
  <2>2. QED
    BY <1>11, <2>1 DEF WatchInv, Watching
<1>14. QED
  <2>1. CASE Serve
    BY <1>5, <1>6, <1>7, <1>8, <1>10, <1>12, <1>13, <2>1 DEF Serve
  <2>2. QED
    BY <1>1, <1>3, <1>9, <1>10, <2>1 DEF Next

LEMMA WatchInit == Init => WatchInv
  BY EmptyIncreases DEF Init, WatchInv, Watching

\* While the handler waits on an open channel, every stop since its mark is
\* still to come, or was lost to the ring or to a full channel.
LEMMA StopIsPending == TypeInv /\ WatchInv => StopPending
  BY DEF WatchInv, Watching, Met, StopPending

----------------------------------------------------------------------------
(* The answer is whole *)

\* A turn that has met its stop: the stop is its own, an event stream has
\* passed on all texts up to it, and the answer of the others, once it is taken,
\* holds them but for what the ring had forgotten.
AnswerInv ==
  result = "ok" =>
    /\ pc \in {"drain", "answer", "leave", "kill", "done"}
    /\ stopAt \in mark + 1 .. Len(log) /\ log[stopAt] = "stop"
    /\ call = "stream" => \A n \in mark + 1 .. stopAt : log[n] = "text" => n \in said \cup overrun
    /\ call # "stream" /\ pc \in {"leave", "kill", "done"} =>
         \A n \in mark + 1 .. stopAt : log[n] = "text" => n \in said \/ n <= evicted

\* Up to its stop a turn's texts are in the chat that is aggregated from the
\* ring, but for what the ring has forgotten.
LEMMA AnsweredHolds ==
  ASSUME TypeInv, NEW n \in mark + 1 .. Len(log), log[n] = "text"
  PROVE  n \in Answered \/ n <= Forgotten
<1>1. n \in Nat /\ Forgotten \in Nat /\ Len(log) \in Nat /\ mark \in Nat /\ mark < n /\ n <= Len(log)
  BY Shapes, AnsweredKind
<1>2. ASSUME n > Forgotten
      PROVE  n \in Answered
  <2>1. n \in Forgotten + 1 .. Len(log) /\ n \in n..Len(log) /\ n > mark
    BY <1>1, <1>2
  <2>2. \A k \in n..n : log[k] = log[n]
    BY <1>1
  <2>3. QED
    BY <2>1, <2>2 DEF Answered
<1>3. QED
  BY <1>1, <1>2

\* What is published leaves the answer as it is.
LEMMA FanOutAnswer ==
  ASSUME TypeInv, AnswerInv, NEW k \in Kinds, FanOut(k),
         UNCHANGED <<call, pc, mark, stopAt, said, result, overrun, evicted>>
  PROVE  AnswerInv'
<1>1. Len(log) \in Nat /\ Len(log') = Len(log) + 1 /\ mark \in Nat /\ \A n \in Numbers : log'[n] = log[n]
  BY Shapes, FanOutFacts
<1>2. \A s \in mark + 1 .. Len(log) : s \in mark + 1 .. Len(log') /\ \A n \in mark + 1 .. s : n \in Numbers /\ s \in Numbers
  BY <1>1 DEF Numbers
<1>3. ASSUME stopAt \in mark + 1 .. Len(log)
      PROVE  stopAt \in mark + 1 .. Len(log') /\ log'[stopAt] = log[stopAt]
             /\ \A n \in mark + 1 .. stopAt : log'[n] = log[n]
  BY <1>1, <1>2, <1>3 DEF Numbers
<1>4. QED
  BY <1>3 DEF AnswerInv

\* Every step keeps the answer whole.
LEMMA AnswerStep == TypeInv /\ WatchInv /\ AnswerInv /\ [Next]_vars => AnswerInv'
<1> SUFFICES ASSUME TypeInv, WatchInv, AnswerInv, [Next]_vars
             PROVE  AnswerInv'
  OBVIOUS
<1> USE DEF busVars, outVars
<1>0. "stop" \in Kinds
  BY DEF Kinds
<1>1. CASE (\E k \in Kinds : Publish(k)) \/ SessionStops
  BY <1>0, <1>1, FanOutAnswer DEF Publish, SessionStops
\* A step that leaves the answer as it is.
<1>2. ASSUME UNCHANGED <<call, log, mark, stopAt, said, result, overrun, evicted>>,
             \/ UNCHANGED pc \/ (pc \in {"leave", "kill"} /\ pc' \in {"kill", "done"})
             \/ (pc = "drain" /\ pc' = "answer")
             \/ pc \notin {"drain", "answer", "leave", "kill", "done"}
             \/ (pc = "answer" /\ call = "stream" /\ pc' = "leave")
      PROVE  AnswerInv'
  BY <1>2 DEF AnswerInv
<1>3. CASE SessionCloses \/ PtyCloses \/ Due \/ ContextCloses \/ OthersWrite \/ OthersWriteReturns \/ UNCHANGED vars
  BY <1>2, <1>3 DEF SessionCloses, PtyCloses, Due, ContextCloses, OthersWrite, OthersWriteReturns, vars
\* A step before the stop.
<1>4. ASSUME UNCHANGED result, pc \notin {"drain", "answer", "leave", "kill", "done"}
      PROVE  AnswerInv'
  BY <1>4 DEF AnswerInv
<1>5. CASE Spawns \/ LooksForReady \/ SeesReady \/ Settles \/ Marks \/ WriteBegins \/ WriteReturns
  BY <1>4, <1>5 DEF Spawns, LooksForReady, SeesReady, Settles, Marks, WriteBegins, WriteReturns
<1>6. ASSUME NEW a \in {"listen", "subscribe"}, NEW b, Subscribe(a, b)
      PROVE  AnswerInv'
  BY <1>4, <1>6 DEF Subscribe
<1>7. CASE SpawnFails \/ NotReady \/ WriteRefused \/ WriteFails \/ TimesOut \/ SeesClosed
  <2>1. result' # "ok"
    BY <1>7 DEF SpawnFails, NotReady, WriteRefused, WriteFails, WriteError, TimesOut, SeesClosed
  <2>2. QED
    BY <2>1 DEF AnswerInv
<1>8. CASE Receives
  <2>1. /\ queue # <<>> /\ Passes(Head(queue)) /\ pc = "wait" /\ UNCHANGED <<call, log, mark, overrun>>
    BY <1>8 DEF Receives
  <2>2. CASE log[Head(queue)] # "stop"
    BY <1>4, <1>8, <2>1, <2>2 DEF Receives
  <2>3. CASE log[Head(queue)] = "stop"
    <3>1. pc' = "drain" /\ stopAt' = Head(queue) /\ result' = "ok" /\ Watching
      BY <1>8, <2>1, <2>3 DEF Receives, Watching
    <3>2. Head(queue) \in ToSet(queue) /\ Head(queue) \in Numbers
      BY <2>1, TailKind
    <3>3. Head(queue) \in mark + 1 .. Len(log)
      <4>1. mark < Head(queue)
        BY <3>1, <3>2 DEF WatchInv
      <4>2. QED
        BY <3>2, <4>1, Shapes DEF Numbers
    <3>4. ASSUME call = "stream", NEW n \in mark + 1 .. Head(queue), log[n] = "text"
          PROVE  n \in said' \cup overrun
      <4>1. said \subseteq said'
        BY <2>1 DEF Passes
      <4>2. Met(n) \/ n \in ToSet(queue)
        BY <3>1, <3>2 DEF WatchInv
      <4>3. CASE Met(n)
        BY <3>4, <4>1, <4>3 DEF Met
      <4>4. CASE n \in ToSet(queue)
        <5>1. n = Head(queue) \/ n \in ToSet(Tail(queue))
          BY <2>1, <4>4, Shapes, TailIncreases DEF WatchInv
        <5>2. \A i \in DOMAIN Tail(queue) : Head(queue) < Tail(queue)[i]
          BY <2>1, Shapes, TailIncreases DEF WatchInv
        <5>3. n \in ToSet(Tail(queue)) => Head(queue) < n
          BY <5>2 DEF ToSet
        <5>4. n = Head(queue)
          BY <3>2, <3>3, <5>1, <5>3, Shapes
        <5>5. QED
          BY <2>3, <3>4, <5>4
      <4>5. QED
        BY <4>2, <4>3, <4>4
    <3>5. QED
      BY <2>1, <2>3, <3>1, <3>3, <3>4 DEF AnswerInv
  <2>4. QED
    BY <2>2, <2>3
<1>9. CASE Drains
  <2>1. /\ pc = "drain" /\ said \subseteq said'
        /\ UNCHANGED <<call, log, pc, mark, stopAt, result, overrun, evicted>>
    BY <1>9 DEF Drains, Passes
  <2>2. QED
    BY <2>1 DEF AnswerInv
<1>10. CASE DrainEnds \/ EndsStream \/ Leaves \/ Kills
  BY <1>2, <1>10 DEF DrainEnds, EndsStream, Leaves, Kills
<1>11. CASE Answers
  <2>1. /\ pc = "answer" /\ call # "stream" /\ said' = Answered /\ evicted' = Forgotten /\ pc' = "leave"
        /\ UNCHANGED <<call, log, mark, stopAt, result, overrun>>
    BY <1>11 DEF Answers
  <2>2. ASSUME result = "ok", NEW n \in mark + 1 .. stopAt, log[n] = "text"
        PROVE  n \in Answered \/ n <= Forgotten
    <3>1. n \in mark + 1 .. Len(log)
      <4>1. stopAt \in mark + 1 .. Len(log)
        BY <2>2 DEF AnswerInv
      <4>2. QED
        BY <4>1, Shapes
    <3>2. QED
      BY <2>2, <3>1, AnsweredHolds
  <2>3. QED
    BY <2>1, <2>2 DEF AnswerInv
<1>12. QED
  <2>1. CASE Serve
    BY <1>5, <1>6, <1>7, <1>8, <1>9, <1>10, <1>11, <2>1 DEF Serve
  <2>2. QED
    BY <1>1, <1>3, <1>5, <1>7, <1>10, <2>1 DEF Next

LEMMA AnswerIsWhole == TypeInv /\ AnswerInv => AnswerHasTurn
<1> SUFFICES ASSUME TypeInv, AnswerInv, pc = "done", result = "ok"
             PROVE  /\ stopAt > mark /\ log[stopAt] = "stop"
                    /\ \A n \in mark + 1 .. stopAt :
                         log[n] = "text" => \/ n \in said
                                            \/ IF call = "stream" THEN n \in overrun ELSE n <= evicted
  BY DEF AnswerHasTurn
<1>1. stopAt > mark /\ log[stopAt] = "stop"
  BY Shapes DEF AnswerInv
<1>2. QED
  BY <1>1 DEF AnswerInv

\* A stop that comes soon after the prompt, before the handler has subscribed,
\* is not missed, and a turn that ended with one is answered with all of its
\* texts, but for what the ring or a full channel had lost.
THEOREM TurnCorrect == Spec => []TurnComplete
<1>1. Init => AnswerInv
  BY DEF Init, AnswerInv
<1>2. TypeInv /\ WatchInv /\ AnswerInv => TurnComplete
  BY StopIsPending, AnswerIsWhole DEF TurnComplete
<1>3. QED
  BY <1>1, <1>2, TypeInit, WatchInit, TypeStep, WatchStep, AnswerStep, PTL DEF Spec
=============================================================================
