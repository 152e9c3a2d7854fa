------------------------ MODULE EventsStreamProofs ------------------------
(***************************************************************************)
(* Proofs about EventsStream, for every set of frame shapes, every size of  *)
(* the ring, the channel and a record, and all bounds.                      *)
(***************************************************************************)
EXTENDS EventsStream, SequenceTheorems, TLAPS

\* The bounds are numbers, and what holds frames has room for one.
LEMMA Sizes ==
  /\ Transports \subseteq BOOLEAN
  /\ MaxFrames \in Nat \ {0} /\ RingCap \in Nat \ {0} /\ ChanCap \in Nat \ {0}
  /\ Budgets \subseteq Nat /\ MaxBeats \in Nat
  /\ Plain \in Nat /\ Slack \in Nat /\ Outer \in Nat /\ Marker \in Nat /\ Slack < Plain
  BY StreamAssumption

Increasing(s) == \A i, j \in DOMAIN s : i < j => s[i] < s[j]

\* A number after the last keeps a sequence increasing.
LEMMA AppendIncreases ==
  ASSUME NEW s \in Seq(Nat), NEW n \in Nat, Increasing(s), \A i \in DOMAIN s : s[i] < n
  PROVE  Increasing(Append(s, n)) /\ ToSet(Append(s, n)) = ToSet(s) \cup {n}
<1> DEFINE t == Append(s, n)
<1>1. Len(s) \in Nat /\ DOMAIN s = 1..Len(s) /\ DOMAIN t = 1..(Len(s) + 1)
  OBVIOUS
<1>2. t[Len(s) + 1] = n /\ \A i \in 1..Len(s) : t[i] = s[i] /\ s[i] \in Nat
  OBVIOUS
<1> HIDE DEF t
<1>3. Increasing(t)
  <2> SUFFICES ASSUME NEW i \in 1..(Len(s) + 1), NEW j \in 1..(Len(s) + 1), i < j
               PROVE  t[i] < t[j]
    BY <1>1 DEF Increasing
  <2>1. i \in 1..Len(s)
    BY <1>1
  <2>2. CASE j = Len(s) + 1
    BY <1>1, <1>2, <2>1, <2>2
  <2>3. CASE j \in 1..Len(s)
    BY <1>1, <1>2, <2>1, <2>3 DEF Increasing
  <2>4. QED
    BY <1>1, <2>2, <2>3
<1>4. ToSet(t) = ToSet(s) \cup {n}
  <2>1. 1..(Len(s) + 1) = 1..Len(s) \cup {Len(s) + 1}
    BY <1>1
  <2>2. QED
    BY <1>1, <1>2, <2>1 DEF ToSet
<1>5. QED
  BY <1>3, <1>4 DEF t

\* What is left of an increasing sequence is beyond its head.
LEMMA TailIncreases ==
  ASSUME NEW s \in Seq(Nat), s # <<>>, Increasing(s)
  PROVE  /\ Increasing(Tail(s)) /\ \A i \in DOMAIN Tail(s) : Head(s) < Tail(s)[i]
         /\ ToSet(s) = {Head(s)} \cup ToSet(Tail(s))
<1> DEFINE t == Tail(s)
<1>1. Len(s) \in Nat \ {0} /\ DOMAIN s = 1..Len(s) /\ Head(s) = s[1] /\ DOMAIN t = 1..(Len(s) - 1)
  OBVIOUS
<1>2. \A i \in 1..(Len(s) - 1) : t[i] = s[i + 1]
  OBVIOUS
<1> HIDE DEF t
<1>3. ASSUME NEW i \in DOMAIN t, NEW j \in DOMAIN t, i < j
      PROVE  t[i] < t[j]
  <2>1. i + 1 \in DOMAIN s /\ j + 1 \in DOMAIN s /\ i + 1 < j + 1 /\ t[i] = s[i + 1] /\ t[j] = s[j + 1]
    BY <1>1, <1>2, <1>3
  <2>2. QED
    BY <2>1 DEF Increasing
<1>4. ASSUME NEW i \in DOMAIN t
      PROVE  Head(s) < t[i]
  <2>1. 1 \in DOMAIN s /\ i + 1 \in DOMAIN s /\ 1 < i + 1 /\ t[i] = s[i + 1]
    BY <1>1, <1>2
  <2>2. QED
    BY <1>1, <2>1 DEF Increasing
<1>5. ToSet(s) = {Head(s)} \cup ToSet(t)
  <2>1. ASSUME NEW n \in 1..Len(s)
        PROVE  s[n] \in {Head(s)} \cup ToSet(t)
    <3>1. n = 1 \/ (n - 1 \in DOMAIN t /\ t[n - 1] = s[n])
      BY <1>1, <1>2
    <3>2. QED
      BY <1>1, <3>1 DEF ToSet
  <2>2. ASSUME NEW n \in DOMAIN t
        PROVE  t[n] \in ToSet(s)
    <3>1. n + 1 \in DOMAIN s /\ t[n] = s[n + 1]
      BY <1>1, <1>2
    <3>2. QED
      BY <3>1 DEF ToSet
  <2>3. Head(s) \in ToSet(s)
    BY <1>1 DEF ToSet
  <2>4. QED
    BY <1>1, <2>1, <2>2, <2>3 DEF ToSet
<1>6. QED
  BY <1>3, <1>4, <1>5 DEF Increasing, t

\* The newer frames are numbers of the log beyond seq, in their order; so are
\* the first of them.
LEMMA NewerIncreases ==
  ASSUME log \in Seq(Shapes), NEW seq \in 0..Len(log)
  PROVE  /\ Newer(seq) \in Seq(1..Len(log)) /\ Increasing(Newer(seq))
         /\ \A i \in DOMAIN Newer(seq) : seq < Newer(seq)[i]
<1> DEFINE first == IF Len(log) > seq + RingCap THEN Len(log) - RingCap ELSE seq
           new == Newer(seq)
<1>1. Len(log) \in Nat /\ first \in Nat /\ seq <= first
  BY Sizes
<1>2. new = IF first < Len(log) THEN [i \in 1..(Len(log) - first) |-> first + i] ELSE <<>>
  BY DEF Newer
<1> HIDE DEF first, new
<1>3. CASE first < Len(log)
  <2>1. new = [i \in 1..(Len(log) - first) |-> first + i] /\ Len(log) - first \in Nat
    BY <1>1, <1>2, <1>3
  <2>2. \A i \in 1..(Len(log) - first) : first + i \in 1..Len(log)
    BY <1>1, <1>3
  <2>3. new \in Seq(1..Len(log)) /\ DOMAIN new = 1..(Len(log) - first)
    BY <2>1, <2>2
  <2>4. \A i \in DOMAIN new : new[i] = first + i
    BY <2>1, <2>3
  <2>5. Increasing(new)
    BY <1>1, <2>3, <2>4 DEF Increasing
  <2>6. \A i \in DOMAIN new : seq < new[i]
    BY <1>1, <2>3, <2>4
  <2>7. QED
    BY <2>3, <2>5, <2>6 DEF new
<1>4. CASE ~(first < Len(log))
  <2>1. new = <<>>
    BY <1>2, <1>4
  <2>2. QED
    BY <2>1 DEF Increasing, new
<1>5. QED
  BY <1>3, <1>4

LEMMA FirstIncrease ==
  ASSUME NEW s \in Seq(Nat), NEW N, s \in Seq(N), Increasing(s), NEW k \in 0..Len(s)
  PROVE  /\ SubSeq(s, 1, k) \in Seq(N) /\ Len(SubSeq(s, 1, k)) = k
         /\ Increasing(SubSeq(s, 1, k)) /\ ToSet(SubSeq(s, 1, k)) \subseteq ToSet(s)
<1> DEFINE t == SubSeq(s, 1, k)
<1>1. k \in Nat /\ Len(s) \in Nat /\ DOMAIN s = 1..Len(s) /\ \A i \in 1..k : i \in DOMAIN s /\ s[i] \in N
  OBVIOUS
<1>2. t \in Seq(N) /\ Len(t) = k /\ DOMAIN t = 1..k /\ \A i \in 1..k : t[i] = s[i]
  BY <1>1, SubSeqProperties
<1> HIDE DEF t
<1>3. Increasing(t) /\ ToSet(t) \subseteq ToSet(s)
  BY <1>1, <1>2 DEF Increasing, ToSet
<1>4. QED
  BY <1>2, <1>3 DEF t

----------------------------------------------------------------------------
(* Types *)

Numbers == 1..Len(log)

\* The types, with what TypeOK leaves out: a request has a subscription only in
\* its live loop.
TypeInv ==
  /\ log \in Seq(Shapes) /\ Len(log) <= MaxFrames
  /\ pc \in {"idle", "snapshot", "replay", "subscribe", "live"}
  /\ aes \in Transports
  /\ over \in BOOLEAN /\ registered \in BOOLEAN /\ closed \in BOOLEAN
  /\ told \in BOOLEAN /\ refused \in BOOLEAN
  /\ registered => ~closed
  /\ from \in 0..Len(log) /\ budget \in Budgets \cup {0} /\ beats \in 0..MaxBeats
  /\ snap \in Seq(Numbers) /\ queue \in Seq(Numbers) /\ rendered \in Seq(Numbers)
  /\ Len(queue) <= ChanCap
  /\ snap # <<>> => pc = "replay"
  /\ pc # "live" => ~registered /\ ~closed /\ queue = <<>>

\* What a publication does to the subscription: nothing, a number more in the
\* channel, or its drop.
LEMMA PublishFacts ==
  ASSUME TypeInv, NEW f \in Shapes, Publish(f)
  PROVE  /\ log' = Append(log, f) /\ log' \in Seq(Shapes) /\ Len(log') = Len(log) + 1
         /\ \A n \in Numbers : log'[n] = log[n]
         /\ Len(log') <= MaxFrames /\ Len(log) \in Nat /\ Numbers \subseteq Numbers'
         /\ UNCHANGED <<aes, over, pc, from, budget, beats, sent, snap, rendered, told, refused, overrun>>
         /\ \/ ~registered /\ UNCHANGED <<registered, queue, closed>>
            \/ /\ registered /\ Len(queue) < ChanCap /\ UNCHANGED <<registered, closed>>
               /\ queue' = Append(queue, Len(log'))
            \/ registered /\ registered' = FALSE /\ closed' = TRUE /\ UNCHANGED queue
<1>1. log \in Seq(Shapes) /\ Len(log) \in Nat /\ Len(queue) \in Nat /\ ChanCap \in Nat /\ MaxFrames \in Nat
  BY Sizes DEF TypeInv
<1>2. Len(log) < MaxFrames /\ log' = Append(log, f)
  BY DEF Publish
<1>3. log' \in Seq(Shapes) /\ Len(log') = Len(log) + 1 /\ \A n \in 1..Len(log) : log'[n] = log[n]
  BY <1>1, <1>2
<1>4. UNCHANGED <<aes, over, pc, from, budget, beats, sent, snap, rendered, told, refused, overrun>>
  BY DEF Publish, reqVars, cliVars
<1>5. \/ ~registered /\ UNCHANGED <<registered, queue, closed>>
      \/ /\ registered /\ Len(queue) < ChanCap /\ UNCHANGED <<registered, closed>>
         /\ queue' = Append(queue, Len(log'))
      \/ registered /\ registered' = FALSE /\ closed' = TRUE /\ UNCHANGED queue
  <2>1. CASE registered /\ Len(queue) >= ChanCap
    BY <2>1 DEF Publish
  <2>2. CASE ~registered
    BY <2>2 DEF Publish
  <2>3. CASE registered /\ ~(Len(queue) >= ChanCap)
    BY <1>1, <1>3, <2>3 DEF Publish
  <2>4. QED
    BY <2>1, <2>2, <2>3
<1>6. Len(log') <= MaxFrames /\ 1..Len(log) \subseteq 1..Len(log')
  BY <1>1, <1>2, <1>3
<1>7. QED
  BY <1>1, <1>2, <1>3, <1>4, <1>5, <1>6 DEF Numbers

\* A request that is over has no snapshot and no subscription.
LEMMA LeaveTypes ==
  ASSUME TypeInv, Leave, UNCHANGED <<aes, log, over, from, budget>>, rendered' \in Seq(Numbers),
         told' \in BOOLEAN, refused' \in BOOLEAN, beats' \in 0..MaxBeats
  PROVE  TypeInv'
<1>1. /\ pc' = "idle" /\ registered' = FALSE /\ closed' = FALSE /\ queue' = <<>> /\ snap' = <<>>
      /\ Numbers' = Numbers /\ rendered' \in Seq(Numbers')
  BY DEF Leave, Numbers
<1>2. <<>> \in Seq(Numbers') /\ Len(<<>>) <= ChanCap
  BY Sizes
<1>3. QED
  BY <1>1, <1>2 DEF TypeInv

LEMMA LastRenderedKind == TypeInv => LastRendered \in 0..Len(log)
<1> SUFFICES ASSUME TypeInv PROVE LastRendered \in 0..Len(log)
  OBVIOUS
<1>1. rendered \in Seq(Numbers) /\ Len(log) \in Nat
  BY DEF TypeInv
<1>2. CASE rendered = <<>>
  BY <1>1, <1>2 DEF LastRendered
<1>3. CASE rendered # <<>>
  <2>1. Len(rendered) \in 1..Len(rendered) /\ rendered[Len(rendered)] \in Numbers
    BY <1>1, <1>3
  <2>2. QED
    BY <1>1, <1>3, <2>1 DEF LastRendered, Last, Numbers
<1>4. QED
  BY <1>2, <1>3

\* A frame that is written becomes the last one rendered.
LEMMA DeliverFacts ==
  ASSUME TypeInv, NEW n \in Numbers, Deliver(n)
  PROVE  /\ rendered' \in Seq(Numbers) /\ LastRendered' = n /\ sent' = sent + 1
         /\ ToSet(rendered') = ToSet(rendered) \cup {n}
         /\ UNCHANGED <<aes, log, over, from, budget, beats, told, refused, passed, overrun>>
<1>1. rendered \in Seq(Numbers) /\ rendered' = Append(rendered, n)
  BY DEF TypeInv, Deliver
<1>2. /\ rendered' \in Seq(Numbers) /\ Len(rendered') = Len(rendered) + 1 /\ rendered' # <<>>
      /\ Len(rendered) \in Nat /\ rendered'[Len(rendered) + 1] = n
      /\ \A i \in 1..Len(rendered) : rendered'[i] = rendered[i]
  BY <1>1
<1>3. LastRendered' = n
  BY <1>2 DEF LastRendered, Last
<1>4. ToSet(rendered') = ToSet(rendered) \cup {n}
  <2>1. DOMAIN rendered' = DOMAIN rendered \cup {Len(rendered) + 1} /\ DOMAIN rendered = 1..Len(rendered)
    BY <1>1, <1>2
  <2>2. QED
    BY <1>2, <2>1 DEF ToSet
<1>5. QED
  BY <1>2, <1>3, <1>4 DEF Deliver

\* What is taken from a sequence of numbers.
LEMMA TailKind ==
  ASSUME NEW s \in Seq(Numbers), s # <<>>
  PROVE  Head(s) \in Numbers /\ Tail(s) \in Seq(Numbers) /\ Len(Tail(s)) = Len(s) - 1 /\ Len(s) \in Nat
  OBVIOUS

\* Every step keeps the types.
LEMMA TypeStep == TypeInv /\ [Next]_vars => TypeInv'
<1> SUFFICES ASSUME TypeInv, [Next]_vars
             PROVE  TypeInv'
  OBVIOUS
<1>0. /\ snap \in Seq(Numbers) /\ queue \in Seq(Numbers) /\ rendered \in Seq(Numbers)
      /\ log \in Seq(Shapes) /\ Len(log) \in Nat /\ MaxBeats \in Nat /\ ChanCap \in Nat
      /\ Len(queue) \in Nat /\ Len(queue) <= ChanCap
  BY Sizes DEF TypeInv
<1>1. ASSUME NEW f \in Shapes, Publish(f)
      PROVE  TypeInv'
  <2>1. snap' \in Seq(Numbers') /\ rendered' \in Seq(Numbers') /\ queue \in Seq(Numbers')
    BY <1>0, <1>1, PublishFacts, SeqMonotonic
  <2>2. queue' \in Seq(Numbers') /\ Len(queue') <= ChanCap
    <3>1. Len(log') \in Numbers'
      <4>1. Len(log') = Len(log) + 1
        BY <1>1, PublishFacts
      <4>2. QED
        BY <1>0, <4>1 DEF Numbers
    <3>2. Append(queue, Len(log')) \in Seq(Numbers') /\ Len(Append(queue, Len(log'))) = Len(queue) + 1
      BY <2>1, <3>1
    <3>3. \/ UNCHANGED queue
          \/ queue' = Append(queue, Len(log')) /\ Len(queue) < ChanCap
      BY <1>1, PublishFacts
    <3>4. CASE UNCHANGED queue
      BY <1>0, <2>1, <3>4
    <3>5. CASE queue' = Append(queue, Len(log')) /\ Len(queue) < ChanCap
      BY <1>0, <3>2, <3>5
    <3>6. QED
      BY <3>3, <3>4, <3>5
  <2>3. from' \in 0..Len(log')
    <3>1. from' = from /\ Len(log') = Len(log) + 1 /\ from \in 0..Len(log)
      BY <1>1, PublishFacts DEF TypeInv
    <3>2. QED
      BY <1>0, <3>1
  <2>4. QED
    BY <1>1, <2>1, <2>2, <2>3, PublishFacts DEF TypeInv
<1>2. CASE SessionEnds
  BY <1>2 DEF SessionEnds, TypeInv, Numbers, reqVars, cliVars
<1>3. ASSUME NEW b \in Budgets, Request(b)
      PROVE  TypeInv'
  <2>1. LastRendered \in 0..Len(log) /\ 0 \in 0..MaxBeats
    BY <1>0, LastRenderedKind
  <2>2. QED
    BY <1>3, <2>1 DEF Request, TypeInv, Numbers, subVars, cliVars
<1>4. CASE TakeSnapshot
  <2>1. Newer(from) \in Seq(Numbers)
    BY <1>0, NewerIncreases DEF TypeInv, Numbers
  <2>2. QED
    BY <1>4, <2>1 DEF TakeSnapshot, TypeInv, Numbers, reqVars, subVars, cliVars
<1>5. CASE WriteReplay
  <2>1. snap # <<>> /\ pc = "replay" /\ Deliver(Head(snap)) /\ Head(snap) \in Numbers /\ Tail(snap) \in Seq(Numbers)
    BY <1>0, <1>5, TailKind DEF WriteReplay
  <2>2. rendered' \in Seq(Numbers) /\ UNCHANGED <<aes, log, over, from, budget, beats, told, refused>>
    BY <2>1, DeliverFacts
  <2>3. CASE Leave
    BY <2>2, <2>3, LeaveTypes DEF TypeInv
  <2>4. CASE snap' = Tail(snap) /\ UNCHANGED <<pc, subVars>>
    BY <2>1, <2>2, <2>4 DEF TypeInv, Numbers, subVars
  <2>5. QED
    BY <1>5, <2>3, <2>4 DEF WriteReplay
<1>6. CASE WriteRefused
  BY <1>6, LeaveTypes DEF WriteRefused, TypeInv, reqVars
<1>7. CASE ReadResume
  BY <1>0, <1>7 DEF ReadResume, TypeInv, Numbers, subVars, cliVars
<1>8. CASE Subscribe
  <2> DEFINE new == Newer(from)
             k == IF Len(new) < ChanCap THEN Len(new) ELSE ChanCap
  <2>1. new \in Seq(Numbers) /\ Increasing(new)
    BY <1>0, NewerIncreases DEF TypeInv, Numbers
  <2>2. queue' = SubSeq(new, 1, k) /\ pc' = "live" /\ registered' = TRUE
        /\ UNCHANGED <<aes, log, over, reqVars, snap, closed, cliVars>> /\ pc = "subscribe"
    BY <1>8 DEF Subscribe
  <2> HIDE DEF new
  <2>3. k \in 0..Len(new) /\ k <= ChanCap /\ new \in Seq(Nat)
    BY <1>0, <2>1, SeqMonotonic DEF Numbers
  <2>4. queue' \in Seq(Numbers) /\ Len(queue') <= ChanCap
    BY <2>1, <2>2, <2>3, FirstIncrease
  <2>5. QED
    BY <2>2, <2>4 DEF TypeInv, Numbers, reqVars, cliVars
<1>9. CASE Skip
  <2>1. \/ /\ pc = "replay" /\ snap # <<>> /\ snap' = Tail(snap) /\ UNCHANGED queue
        \/ /\ pc = "live" /\ queue # <<>> /\ queue' = Tail(queue) /\ UNCHANGED snap
    BY <1>9 DEF Skip
  <2>2. snap' \in Seq(Numbers) /\ queue' \in Seq(Numbers) /\ Len(queue') <= ChanCap
    <3>1. CASE snap # <<>> /\ snap' = Tail(snap) /\ UNCHANGED queue
      BY <1>0, <3>1, TailKind
    <3>2. CASE queue # <<>> /\ queue' = Tail(queue) /\ UNCHANGED snap
      BY <1>0, <3>2, TailKind
    <3>3. QED
      BY <2>1, <3>1, <3>2
  <2>3. snap' # <<>> => pc = "replay"
    BY <1>0, <2>1 DEF TypeInv
  <2>4. QED
    BY <1>9, <2>1, <2>2, <2>3 DEF Skip, TypeInv, Numbers, reqVars, cliVars
<1>10. CASE WriteLive
  <2>1. queue # <<>> /\ pc = "live" /\ Deliver(Head(queue)) /\ Head(queue) \in Numbers
        /\ Tail(queue) \in Seq(Numbers) /\ Len(Tail(queue)) <= ChanCap
    BY <1>0, <1>10, TailKind DEF WriteLive
  <2>2. rendered' \in Seq(Numbers) /\ UNCHANGED <<aes, log, over, from, budget, beats, told, refused>>
    BY <2>1, DeliverFacts
  <2>3. CASE Leave
    BY <2>2, <2>3, LeaveTypes DEF TypeInv
  <2>4. CASE queue' = Tail(queue) /\ UNCHANGED <<pc, snap, registered, closed>>
    BY <2>1, <2>2, <2>4 DEF TypeInv, Numbers
  <2>5. QED
    BY <1>10, <2>3, <2>4 DEF WriteLive
<1>11. CASE Beat
  <2>1. beats' \in 0..MaxBeats
    BY <1>0, <1>11 DEF Beat, TypeInv
  <2>2. QED
    BY <1>11, <2>1 DEF Beat, TypeInv, Numbers, subVars, cliVars
<1>12. CASE DeadlineCloses
  BY <1>12 DEF DeadlineCloses, TypeInv, Numbers, reqVars, cliVars
<1>13. CASE SeesEnd
  BY <1>13, LeaveTypes DEF SeesEnd, TypeInv, reqVars
<1>14. CASE Cut
  BY <1>14, LeaveTypes DEF Cut, TypeInv, reqVars, cliVars
<1>15. CASE UNCHANGED vars
  BY <1>15 DEF vars, TypeInv, Numbers, reqVars, subVars, cliVars
<1>16. QED
  BY <1>1, <1>2, <1>3, <1>4, <1>5, <1>6, <1>7, <1>8, <1>9, <1>10, <1>11, <1>12, <1>13, <1>14, <1>15
     DEF Next, Serve

LEMMA TypeInit == Init => TypeInv
<1> SUFFICES ASSUME Init PROVE TypeInv
  OBVIOUS
<1>1. log = <<>> /\ Len(log) = 0 /\ snap = <<>> /\ queue = <<>> /\ rendered = <<>> /\ Len(queue) = 0
  BY DEF Init
<1>2. \A S : <<>> \in Seq(S)
  OBVIOUS
<1>3. 0 <= MaxFrames /\ 0 <= ChanCap /\ 0 \in 0..0 /\ 0 \in 0..MaxBeats
  BY Sizes
<1>4. QED
  BY <1>1, <1>2, <1>3 DEF Init, TypeInv

\* Every frame a request knows of is one of the log, a channel never holds
\* more than its capacity, and only a request in its live loop is subscribed.
THEOREM TypeCorrect == Spec => []TypeOK
<1>1. TypeInv => TypeOK
  BY DEF TypeInv, TypeOK, Numbers
<1>2. QED
  BY <1>1, TypeInit, TypeStep, PTL DEF Spec

----------------------------------------------------------------------------
(* The order of what is rendered *)

\* What is still to be written is in order and newer than all that was written,
\* and a request goes on no earlier than there.
OrderInv ==
  /\ Increasing(rendered) /\ Increasing(snap) /\ Increasing(queue)
  /\ \A i \in DOMAIN snap : LastRendered < snap[i]
  /\ \A i \in DOMAIN queue : LastRendered < queue[i]
  /\ pc \in {"snapshot", "subscribe"} => LastRendered <= from

\* Numbers, as the lemmas about increasing sequences want them.
LEMMA NumberKinds ==
  ASSUME TypeInv
  PROVE  /\ snap \in Seq(Nat) /\ queue \in Seq(Nat) /\ rendered \in Seq(Nat)
         /\ snap \in Seq(Numbers) /\ queue \in Seq(Numbers) /\ rendered \in Seq(Numbers)
         /\ Numbers \subseteq Nat /\ Len(log) \in Nat
<1>1. Numbers \subseteq Nat /\ Len(log) \in Nat
  BY DEF TypeInv, Numbers
<1>2. QED
  BY <1>1, SeqMonotonic DEF TypeInv

\* The last frame rendered is the greatest.
LEMMA LastIsGreatest ==
  ASSUME TypeInv, Increasing(rendered)
  PROVE  \A i \in DOMAIN rendered : rendered[i] <= LastRendered
<1> SUFFICES ASSUME NEW i \in DOMAIN rendered PROVE rendered[i] <= LastRendered
  OBVIOUS
<1>1. rendered \in Seq(Nat)
  BY NumberKinds
<1>2. Len(rendered) \in Nat /\ i \in 1..Len(rendered) /\ rendered # <<>>
      /\ DOMAIN rendered = 1..Len(rendered) /\ \A j \in DOMAIN rendered : rendered[j] \in Nat
  BY <1>1
<1>3. LastRendered = rendered[Len(rendered)] /\ Len(rendered) \in DOMAIN rendered
  BY <1>2 DEF LastRendered, Last
<1>4. QED
  BY <1>2, <1>3 DEF Increasing

\* A frame beyond the last one rendered may be rendered.
LEMMA DeliverOrders ==
  ASSUME TypeInv, Increasing(rendered), NEW n \in Numbers, LastRendered < n, Deliver(n)
  PROVE  Increasing(rendered') /\ LastRendered' = n
<1>1. \A i \in DOMAIN rendered : rendered[i] < n
  <2> SUFFICES ASSUME NEW i \in DOMAIN rendered PROVE rendered[i] < n
    OBVIOUS
  <2>1. rendered[i] <= LastRendered /\ rendered[i] \in Nat /\ LastRendered \in Nat /\ n \in Nat
    BY LastIsGreatest, NumberKinds, LastRenderedKind
  <2>2. QED
    BY <2>1
<1>2. Increasing(Append(rendered, n))
  BY <1>1, NumberKinds, AppendIncreases
<1>3. QED
  BY <1>2, DeliverFacts DEF Deliver

LEMMA LeaveOrders ==
  ASSUME Leave, Increasing(rendered')
  PROVE  OrderInv'
<1>1. snap' = <<>> /\ queue' = <<>> /\ pc' = "idle" /\ DOMAIN (<<>>) = {}
  BY DEF Leave
<1>2. QED
  BY <1>1 DEF OrderInv, Increasing

\* Every step keeps the order.
LEMMA OrderStep == TypeInv /\ OrderInv /\ [Next]_vars => OrderInv'
<1> SUFFICES ASSUME TypeInv, OrderInv, [Next]_vars
             PROVE  OrderInv'
  OBVIOUS
<1>0. /\ snap \in Seq(Nat) /\ queue \in Seq(Nat) /\ rendered \in Seq(Nat)
      /\ snap \in Seq(Numbers) /\ queue \in Seq(Numbers) /\ Numbers \subseteq Nat
      /\ Len(log) \in Nat /\ LastRendered \in 0..Len(log)
  BY NumberKinds, LastRenderedKind
<1>1. ASSUME NEW f \in Shapes, Publish(f)
      PROVE  OrderInv'
  <2>1. UNCHANGED <<pc, from, snap, rendered>> /\ LastRendered' = LastRendered /\ Len(log') = Len(log) + 1
    BY <1>1, PublishFacts DEF LastRendered
  <2>2. ASSUME queue' = Append(queue, Len(log'))
        PROVE  Increasing(queue') /\ \A i \in DOMAIN queue' : LastRendered < queue'[i]
    <3>1. \A i \in DOMAIN queue : queue[i] < Len(log')
      <4>1. \A i \in DOMAIN queue : queue[i] \in Numbers
        BY <1>0
      <4>2. QED
        BY <1>0, <2>1, <4>1 DEF Numbers
    <3>2. Increasing(queue')
      BY <1>0, <2>1, <2>2, <3>1, AppendIncreases DEF OrderInv
    <3>3. /\ DOMAIN queue' = 1..(Len(queue) + 1) /\ Len(queue) \in Nat /\ DOMAIN queue = 1..Len(queue)
          /\ \A i \in 1..Len(queue) : queue'[i] = queue[i]
          /\ queue'[Len(queue) + 1] = Len(log')
      BY <1>0, <2>2
    <3>4. ASSUME NEW i \in 1..(Len(queue) + 1)
          PROVE  LastRendered < queue'[i]
      <4>1. CASE i \in 1..Len(queue)
        BY <3>3, <4>1 DEF OrderInv
      <4>2. CASE i = Len(queue) + 1
        BY <1>0, <2>1, <3>3, <4>2
      <4>3. QED
        BY <3>3, <4>1, <4>2
    <3>5. QED
      BY <3>2, <3>3, <3>4
  <2>3. queue' = queue \/ queue' = Append(queue, Len(log'))
    BY <1>1, PublishFacts
  <2>4. Increasing(queue') /\ \A i \in DOMAIN queue' : LastRendered < queue'[i]
    BY <2>2, <2>3 DEF OrderInv
  <2>5. QED
    BY <2>1, <2>4 DEF OrderInv
<1>2. CASE SessionEnds
  BY <1>2 DEF SessionEnds, OrderInv, LastRendered, reqVars, cliVars
<1>3. ASSUME NEW b \in Budgets, Request(b)
      PROVE  OrderInv'
  BY <1>0, <1>3 DEF Request, OrderInv, LastRendered, subVars, cliVars
<1>4. CASE TakeSnapshot
  <2>1. /\ pc = "snapshot" /\ pc' = "replay" /\ snap' = Newer(from) /\ from \in 0..Len(log)
        /\ UNCHANGED <<queue, rendered>> /\ LastRendered' = LastRendered /\ log \in Seq(Shapes)
    BY <1>4 DEF TakeSnapshot, TypeInv, subVars, cliVars, LastRendered
  <2>2. /\ Newer(from) \in Seq(Numbers) /\ Increasing(Newer(from))
        /\ \A i \in DOMAIN Newer(from) : from < Newer(from)[i]
    BY <2>1, NewerIncreases DEF Numbers
  <2>3. \A i \in DOMAIN snap' : LastRendered < snap'[i]
    <3> SUFFICES ASSUME NEW i \in DOMAIN snap' PROVE LastRendered < snap'[i]
      OBVIOUS
    <3>1. from < snap'[i] /\ snap'[i] \in Numbers
      BY <2>1, <2>2
    <3>2. LastRendered <= from
      BY <2>1 DEF OrderInv
    <3>3. snap'[i] \in Nat /\ from \in Nat /\ LastRendered \in Nat
      BY <1>0, <2>1, <3>1 DEF Numbers
    <3>4. QED
      BY <3>1, <3>2, <3>3
  <2>4. QED
    BY <2>1, <2>2, <2>3 DEF OrderInv
<1>5. CASE WriteReplay
  <2>1. snap # <<>> /\ pc = "replay" /\ Deliver(Head(snap)) /\ Head(snap) \in Numbers /\ queue = <<>>
    BY <1>0, <1>5, TailKind DEF WriteReplay, TypeInv
  <2>2. LastRendered < Head(snap)
    BY <1>0, <2>1 DEF OrderInv
  <2>3. Increasing(rendered') /\ LastRendered' = Head(snap)
    BY <2>1, <2>2, DeliverOrders DEF OrderInv
  <2>4. CASE Leave
    BY <2>3, <2>4, LeaveOrders
  <2>5. CASE snap' = Tail(snap) /\ UNCHANGED <<pc, subVars>>
    <3>1. Increasing(Tail(snap)) /\ \A i \in DOMAIN Tail(snap) : Head(snap) < Tail(snap)[i]
      BY <1>0, <2>1, TailIncreases DEF OrderInv
    <3>2. queue' = <<>> /\ pc' = "replay" /\ DOMAIN (<<>>) = {}
      BY <2>1, <2>5 DEF subVars
    <3>3. QED
      BY <2>3, <2>5, <3>1, <3>2 DEF OrderInv, Increasing
  <2>6. QED
    BY <1>5, <2>4, <2>5 DEF WriteReplay
<1>6. CASE WriteRefused
  BY <1>6, LeaveOrders DEF WriteRefused, OrderInv
<1>7. CASE ReadResume
  <2>1. from' = Len(log) /\ UNCHANGED <<snap, queue, rendered>> /\ LastRendered' = LastRendered
    BY <1>7 DEF ReadResume, subVars, cliVars, LastRendered
  <2>2. QED
    BY <1>0, <2>1 DEF OrderInv
<1>8. CASE Subscribe
  <2> DEFINE new == Newer(from)
             k == IF Len(new) < ChanCap THEN Len(new) ELSE ChanCap
  <2>1. /\ new \in Seq(Numbers) /\ Increasing(new)
        /\ \A i \in DOMAIN new : from < new[i]
    BY NewerIncreases DEF TypeInv, Numbers
  <2>2. queue' = SubSeq(new, 1, k) /\ pc' = "live" /\ pc = "subscribe" /\ UNCHANGED <<snap, rendered>>
        /\ LastRendered' = LastRendered
    BY <1>8 DEF Subscribe, cliVars, LastRendered
  <2> HIDE DEF new
  <2>3. k \in 0..Len(new) /\ new \in Seq(Nat)
    <3>1. Numbers \subseteq Nat
      BY <1>0
    <3>2. new \in Seq(Numbers)
      BY <2>1
    <3>3. new \in Seq(Nat)
      BY <3>1, <3>2, SeqMonotonic
    <3>4. Len(new) \in Nat
      BY <3>3
    <3>5. QED
      BY <3>3, <3>4, Sizes
  <2>4. queue' \in Seq(Numbers) /\ Increasing(queue') /\ ToSet(queue') \subseteq ToSet(new)
    BY <2>1, <2>2, <2>3, FirstIncrease
  <2>5. \A i \in DOMAIN queue' : LastRendered < queue'[i]
    <3> SUFFICES ASSUME NEW i \in DOMAIN queue' PROVE LastRendered < queue'[i]
      OBVIOUS
    <3>1. queue'[i] \in ToSet(new)
      BY <2>4 DEF ToSet
    <3>2. from < queue'[i]
      BY <2>1, <3>1 DEF ToSet
    <3>3. queue'[i] \in Nat
      <4>1. queue'[i] \in Numbers
        BY <2>4
      <4>2. QED
        BY <1>0, <4>1
    <3>4. from \in Nat /\ LastRendered <= from
      BY <1>0, <2>2 DEF TypeInv, OrderInv
    <3>5. QED
      BY <1>0, <3>2, <3>3, <3>4
  <2>6. QED
    BY <2>2, <2>4, <2>5 DEF OrderInv
<1>9. CASE Skip
  <2>1. /\ UNCHANGED <<pc, from, rendered>> /\ LastRendered' = LastRendered
        /\ \/ /\ snap # <<>> /\ snap' = Tail(snap) /\ UNCHANGED queue
           \/ /\ queue # <<>> /\ queue' = Tail(queue) /\ UNCHANGED snap
    BY <1>9 DEF Skip, reqVars, cliVars, LastRendered
  <2>2. CASE snap # <<>> /\ snap' = Tail(snap) /\ UNCHANGED queue
    <3>1. Increasing(snap') /\ ToSet(snap') \subseteq ToSet(snap)
      BY <1>0, <2>2, TailIncreases DEF OrderInv
    <3>2. QED
      BY <2>1, <2>2, <3>1 DEF OrderInv, ToSet
  <2>3. CASE queue # <<>> /\ queue' = Tail(queue) /\ UNCHANGED snap
    <3>1. Increasing(queue') /\ ToSet(queue') \subseteq ToSet(queue)
      BY <1>0, <2>3, TailIncreases DEF OrderInv
    <3>2. QED
      BY <2>1, <2>3, <3>1 DEF OrderInv, ToSet
  <2>4. QED
    BY <2>1, <2>2, <2>3
<1>10. CASE WriteLive
  <2>1. queue # <<>> /\ pc = "live" /\ Deliver(Head(queue)) /\ Head(queue) \in Numbers /\ snap = <<>>
    BY <1>0, <1>10, TailKind DEF WriteLive, TypeInv
  <2>2. LastRendered < Head(queue)
    BY <1>0, <2>1 DEF OrderInv
  <2>3. Increasing(rendered') /\ LastRendered' = Head(queue)
    BY <2>1, <2>2, DeliverOrders DEF OrderInv
  <2>4. CASE Leave
    BY <2>3, <2>4, LeaveOrders
  <2>5. CASE queue' = Tail(queue) /\ UNCHANGED <<pc, snap, registered, closed>>
    <3>1. Increasing(Tail(queue)) /\ \A i \in DOMAIN Tail(queue) : Head(queue) < Tail(queue)[i]
      BY <1>0, <2>1, TailIncreases DEF OrderInv
    <3>2. snap' = <<>> /\ pc' = "live" /\ DOMAIN (<<>>) = {}
      BY <2>1, <2>5
    <3>3. QED
      BY <2>3, <2>5, <3>1, <3>2 DEF OrderInv, Increasing
  <2>6. QED
    BY <1>10, <2>4, <2>5 DEF WriteLive
<1>11. CASE Beat
  BY <1>11 DEF Beat, OrderInv, LastRendered, subVars, cliVars
<1>12. CASE DeadlineCloses
  BY <1>12 DEF DeadlineCloses, OrderInv, LastRendered, reqVars, cliVars
<1>13. CASE SeesEnd
  BY <1>13, LeaveOrders DEF SeesEnd, OrderInv
<1>14. CASE Cut
  BY <1>14, LeaveOrders DEF Cut, OrderInv, cliVars
<1>15. CASE UNCHANGED vars
  BY <1>15 DEF vars, OrderInv, LastRendered, reqVars, subVars, cliVars
<1>16. QED
  BY <1>1, <1>2, <1>3, <1>4, <1>5, <1>6, <1>7, <1>8, <1>9, <1>10, <1>11, <1>12, <1>13, <1>14, <1>15
     DEF Next, Serve

LEMMA OrderInit == Init => OrderInv
<1> SUFFICES ASSUME Init PROVE OrderInv
  OBVIOUS
<1>1. snap = <<>> /\ queue = <<>> /\ rendered = <<>> /\ pc = "idle" /\ DOMAIN (<<>>) = {}
  BY DEF Init
<1>2. QED
  BY <1>1 DEF OrderInv, Increasing

\* Over all its requests, however they end and resume, the client renders no
\* frame twice and none after a newer one.
THEOREM OrderCorrect == Spec => []InOrder
<1>1. OrderInv => InOrder
  BY DEF OrderInv, InOrder, Increasing
<1>2. QED
  BY <1>1, TypeInit, OrderInit, TypeStep, OrderStep, PTL DEF Spec

----------------------------------------------------------------------------
(* What is missed *)

\* A frame that was rendered, or may be missed, or is not wanted.
Covered(n) == log[n].want => n \in ToSet(rendered) \cup passed \cup overrun

\* Up to where a request goes on from all frames are covered; a replay has the
\* others in its snapshot, and a registered subscription in its channel.  One
\* that is not registered any more has in its channel a run without gaps.
CoverInv ==
  /\ \A n \in 1..LastRendered : Covered(n)
  /\ pc \in {"snapshot", "subscribe"} => \A n \in 1..from : Covered(n)
  /\ pc = "replay" => \A n \in Numbers : Covered(n) \/ n \in ToSet(snap)
  /\ pc = "live" =>
       \A m \in ToSet(queue) : \A n \in 1..m : Covered(n) \/ n \in ToSet(queue)
  /\ pc = "live" /\ registered => \A n \in Numbers : Covered(n) \/ n \in ToSet(queue)

\* What is covered stays so: the histories only grow, and a frame is not changed.
LEMMA CoveredStays ==
  ASSUME TypeInv, NEW n \in Numbers, Covered(n), log'[n] = log[n],
         ToSet(rendered) \subseteq ToSet(rendered)', passed \subseteq passed', overrun \subseteq overrun'
  PROVE  Covered(n)'
  BY DEF Covered

\* A request that is over leaves what was rendered as it is.
LEMMA LeaveCovers ==
  ASSUME TypeInv, Leave, \A n \in 1..LastRendered' : Covered(n)'
  PROVE  CoverInv'
  BY DEF Leave, CoverInv

\* Up to a frame that is delivered, the first of an increasing sequence which
\* holds all that is not covered, everything is covered.
LEMMA DeliverCovers ==
  ASSUME TypeInv, NEW s \in Seq(Numbers), s # <<>>, Increasing(s), Deliver(Head(s)),
         \A n \in 1..Head(s) : Covered(n) \/ n \in ToSet(s)
  PROVE  \A n \in 1..LastRendered' : Covered(n)'
<1>1. s \in Seq(Nat) /\ Head(s) \in Numbers /\ Numbers \subseteq Nat /\ Len(log) \in Nat
  <2>1. Numbers \subseteq Nat /\ Len(log) \in Nat
    BY NumberKinds
  <2>2. QED
    BY <2>1, TailKind, SeqMonotonic
<1>2. /\ LastRendered' = Head(s) /\ ToSet(rendered') = ToSet(rendered) \cup {Head(s)}
      /\ UNCHANGED <<log, passed, overrun>>
  BY <1>1, DeliverFacts
<1> SUFFICES ASSUME NEW n \in 1..Head(s) PROVE Covered(n)'
  BY <1>2
<1>3. CASE Covered(n)
  BY <1>2, <1>3 DEF Covered
<1>4. CASE n \in ToSet(s)
  <2>1. n = Head(s)
    <3>1. n = Head(s) \/ n \in ToSet(Tail(s))
      BY <1>1, <1>4, TailIncreases
    <3>2. n \in ToSet(Tail(s)) => Head(s) < n
      BY <1>1, TailIncreases DEF ToSet
    <3>3. QED
      BY <1>1, <3>1, <3>2
  <2>2. QED
    BY <1>2, <2>1 DEF Covered
<1>5. QED
  BY <1>3, <1>4

\* Every step keeps what is missed where it may be.
LEMMA CoverStep == TypeInv /\ OrderInv /\ CoverInv /\ [Next]_vars => CoverInv'
<1> SUFFICES ASSUME TypeInv, OrderInv, CoverInv, [Next]_vars
             PROVE  CoverInv'
  OBVIOUS
<1>0. /\ snap \in Seq(Nat) /\ queue \in Seq(Nat) /\ snap \in Seq(Numbers) /\ queue \in Seq(Numbers)
      /\ Numbers \subseteq Nat /\ Len(log) \in Nat /\ LastRendered \in 0..Len(log) /\ from \in 0..Len(log)
      /\ log \in Seq(Shapes) /\ Increasing(snap) /\ Increasing(queue)
  BY NumberKinds, LastRenderedKind DEF TypeInv, OrderInv
<1>a. /\ 1..LastRendered \subseteq Numbers /\ 1..from \subseteq Numbers
      /\ \A m \in Numbers : 1..m \subseteq Numbers
  BY <1>0 DEF Numbers
<1>b. ToSet(queue) \subseteq Numbers /\ ToSet(snap) \subseteq Numbers
  BY <1>0 DEF ToSet
\* A step that changes no log and takes nothing from the histories.
<1>q. ASSUME UNCHANGED <<log, rendered>>, passed \subseteq passed', overrun \subseteq overrun'
      PROVE  /\ LastRendered' = LastRendered /\ Numbers' = Numbers
             /\ \A n \in Numbers : Covered(n) => Covered(n)'
             /\ \A n \in 1..LastRendered' : Covered(n)'
  <2>1. LastRendered' = LastRendered /\ Numbers' = Numbers
    BY <1>q DEF LastRendered, Numbers
  <2>2. \A n \in Numbers : Covered(n) => Covered(n)'
    BY <1>q, CoveredStays
  <2>3. QED
    BY <1>a, <2>1, <2>2 DEF CoverInv
<1>1. ASSUME NEW f \in Shapes, Publish(f)
      PROVE  CoverInv'
  <2>1. /\ UNCHANGED <<pc, from, snap, rendered, overrun>> /\ LastRendered' = LastRendered
        /\ Len(log') = Len(log) + 1 /\ \A n \in Numbers : log'[n] = log[n]
    BY <1>1, PublishFacts DEF LastRendered
  <2>2. passed' = IF pc = "replay" THEN passed \cup {Len(log')} ELSE passed
    BY <1>0, <1>1, <2>1 DEF Publish
  <2>3. \A n \in Numbers : Covered(n) => Covered(n)'
    BY <2>1, <2>2, CoveredStays
  <2>4. \A n \in Numbers' : n \in Numbers \/ n = Len(log')
    BY <1>0, <2>1 DEF Numbers
  <2>5. \A n \in 1..LastRendered' : Covered(n)'
    BY <1>a, <2>1, <2>3 DEF CoverInv
  <2>6. pc' \in {"snapshot", "subscribe"} => \A n \in 1..from' : Covered(n)'
    BY <1>a, <2>1, <2>3 DEF CoverInv
  <2>7. ASSUME pc' = "replay", NEW n \in Numbers'
        PROVE  Covered(n)' \/ n \in ToSet(snap')
    <3>1. CASE n \in Numbers
      BY <2>1, <2>3, <2>7, <3>1 DEF CoverInv
    <3>2. CASE n = Len(log')
      BY <2>1, <2>2, <2>7, <3>2 DEF Covered
    <3>3. QED
      BY <2>4, <3>1, <3>2
  <2>8. ASSUME pc' = "live"
        PROVE  /\ \A m \in ToSet(queue') : \A n \in 1..m : Covered(n)' \/ n \in ToSet(queue')
               /\ registered' => \A n \in Numbers' : Covered(n)' \/ n \in ToSet(queue')
    <3>1. CASE queue' = queue /\ ~registered'
      BY <1>a, <1>b, <2>1, <2>3, <2>8, <3>1 DEF CoverInv
    <3>2. CASE queue' = Append(queue, Len(log')) /\ registered
      <4>1. ToSet(queue') = ToSet(queue) \cup {Len(log')}
        <5>1. Len(log') \in Nat /\ \A i \in DOMAIN queue : queue[i] \in Numbers
          BY <1>0, <2>1
        <5>2. \A i \in DOMAIN queue : queue[i] < Len(log')
          BY <1>0, <2>1, <5>1 DEF Numbers
        <5>3. QED
          BY <1>0, <3>2, <5>1, <5>2, AppendIncreases
      <4>2. \A n \in Numbers' : Covered(n)' \/ n \in ToSet(queue')
        BY <2>1, <2>3, <2>4, <2>8, <3>2, <4>1 DEF CoverInv
      <4>3. \A m \in ToSet(queue') : 1..m \subseteq Numbers'
        <5>1. \A m \in ToSet(queue') : m \in Nat /\ m <= Len(log')
          BY <1>0, <1>b, <2>1, <4>1 DEF Numbers
        <5>2. Len(log') \in Nat
          BY <1>0, <2>1
        <5>3. QED
          BY <5>1, <5>2 DEF Numbers
      <4>4. QED
        BY <4>2, <4>3
    <3>3. QED
      BY <1>1, <3>1, <3>2, PublishFacts
  <2>9. QED
    BY <2>5, <2>6, <2>7, <2>8 DEF CoverInv
<1>2. CASE SessionEnds
  <2>1. UNCHANGED <<log, pc, from, snap, queue, rendered, passed, overrun>> /\ registered' = FALSE
    BY <1>2 DEF SessionEnds, reqVars, cliVars
  <2>2. QED
    BY <1>q, <1>a, <1>b, <2>1 DEF CoverInv
<1>3. ASSUME NEW b \in Budgets, Request(b)
      PROVE  CoverInv'
  <2>1. /\ UNCHANGED <<log, rendered, passed, overrun>> /\ from' = LastRendered
        /\ pc' \in {"snapshot", "subscribe"}
    BY <1>3 DEF Request, cliVars
  <2>2. QED
    BY <1>q, <2>1 DEF CoverInv
<1>4. CASE TakeSnapshot
  <2>1. /\ UNCHANGED <<log, rendered, passed>> /\ overrun' = overrun \cup LeftOut(from, snap')
        /\ pc = "snapshot" /\ pc' = "replay"
    BY <1>4 DEF TakeSnapshot, cliVars
  <2>2. ASSUME NEW n \in Numbers
        PROVE  Covered(n)' \/ n \in ToSet(snap')
    <3>1. CASE n \in 1..from
      BY <1>q, <2>1, <3>1 DEF CoverInv
    <3>2. CASE n \notin 1..from
      <4>1. n \in from + 1 .. Len(log)
        BY <1>0, <3>2 DEF Numbers
      <4>2. QED
        BY <2>1, <4>1 DEF LeftOut, Covered
    <3>3. QED
      BY <3>1, <3>2
  <2>3. QED
    BY <1>q, <2>1, <2>2 DEF CoverInv
<1>5. CASE WriteReplay
  <2>1. snap # <<>> /\ pc = "replay" /\ Deliver(Head(snap)) /\ Head(snap) \in Numbers
    BY <1>0, <1>5, TailKind DEF WriteReplay
  <2>2. \A n \in Numbers : Covered(n) \/ n \in ToSet(snap)
    BY <2>1 DEF CoverInv
  <2>3. \A n \in 1..LastRendered' : Covered(n)'
    BY <1>0, <1>a, <2>1, <2>2, DeliverCovers
  <2>4. CASE Leave
    BY <2>3, <2>4, LeaveCovers
  <2>5. CASE snap' = Tail(snap) /\ UNCHANGED <<pc, subVars>>
    <3>1. /\ ToSet(rendered') = ToSet(rendered) \cup {Head(snap)} /\ UNCHANGED <<log, passed, overrun>>
      BY <2>1, DeliverFacts
    <3>2. ToSet(snap) = {Head(snap)} \cup ToSet(Tail(snap))
      BY <1>0, <2>1, TailIncreases
    <3>3. \A n \in Numbers : Covered(n)' \/ n \in ToSet(snap')
      BY <2>2, <2>5, <3>1, <3>2 DEF Covered
    <3>4. Numbers' = Numbers
      BY <3>1 DEF Numbers
    <3>5. QED
      BY <2>1, <2>3, <2>5, <3>3, <3>4 DEF CoverInv
  <2>6. QED
    BY <1>5, <2>4, <2>5 DEF WriteReplay
<1>6. CASE WriteRefused
  BY <1>6, <1>q, LeaveCovers DEF WriteRefused
<1>7. CASE ReadResume
  <2>1. /\ UNCHANGED <<log, rendered, passed, overrun>> /\ pc = "replay" /\ snap = <<>>
        /\ pc' = "subscribe" /\ from' = Len(log)
    BY <1>7 DEF ReadResume, cliVars
  <2>2. \A n \in Numbers : Covered(n)
    BY <2>1 DEF CoverInv, ToSet
  <2>3. QED
    BY <1>q, <2>1, <2>2 DEF CoverInv, Numbers
<1>8. CASE Subscribe
  <2>1. /\ UNCHANGED <<log, rendered, passed>> /\ overrun' = overrun \cup LeftOut(from, queue')
        /\ pc = "subscribe" /\ pc' = "live"
    BY <1>8 DEF Subscribe, cliVars
  <2>2. ASSUME NEW n \in Numbers
        PROVE  Covered(n)' \/ n \in ToSet(queue')
    <3>1. CASE n \in 1..from
      BY <1>q, <2>1, <3>1 DEF CoverInv
    <3>2. CASE n \notin 1..from
      <4>1. n \in from + 1 .. Len(log)
        BY <1>0, <3>2 DEF Numbers
      <4>2. QED
        BY <2>1, <4>1 DEF LeftOut, Covered
    <3>3. QED
      BY <3>1, <3>2
  <2>3. ToSet(queue') \subseteq Numbers
    <3> DEFINE new == Newer(from)
               k == IF Len(new) < ChanCap THEN Len(new) ELSE ChanCap
    <3>1. new \in Seq(Numbers) /\ Increasing(new)
      BY <1>0, NewerIncreases DEF Numbers
    <3>2. queue' = SubSeq(new, 1, k)
      BY <1>8 DEF Subscribe
    <3> HIDE DEF new
    <3>3. new \in Seq(Nat)
      BY <1>0, <3>1, SeqMonotonic
    <3>4. Len(new) \in Nat
      BY <3>3
    <3>5. k \in 0..Len(new)
      BY <3>4, Sizes
    <3>6. ToSet(queue') \subseteq ToSet(new)
      BY <3>1, <3>2, <3>3, <3>5, FirstIncrease
    <3>7. ToSet(new) \subseteq Numbers
      BY <3>1 DEF ToSet
    <3>8. QED
      BY <3>6, <3>7
  <2>4. QED
    BY <1>q, <1>a, <2>1, <2>2, <2>3 DEF CoverInv
<1>9. CASE Skip
  <2>1. UNCHANGED <<log, pc, from, registered, rendered, passed, overrun>>
    BY <1>9 DEF Skip, reqVars, cliVars
  <2>2. CASE /\ pc = "replay" /\ snap # <<>> /\ ~log[Head(snap)].want
             /\ snap' = Tail(snap) /\ UNCHANGED queue
    <3>1. ToSet(snap) = {Head(snap)} \cup ToSet(snap')
      BY <1>0, <2>2, TailIncreases
    <3>2. Covered(Head(snap))
      BY <2>2 DEF Covered
    <3>3. \A n \in Numbers : Covered(n) \/ n \in ToSet(snap')
      BY <2>2, <3>1, <3>2 DEF CoverInv
    <3>4. QED
      BY <1>q, <2>1, <2>2, <3>3 DEF CoverInv
  <2>3. CASE /\ pc = "live" /\ queue # <<>> /\ ~log[Head(queue)].want
             /\ queue' = Tail(queue) /\ UNCHANGED snap
    <3>1. ToSet(queue) = {Head(queue)} \cup ToSet(queue')
      BY <1>0, <2>3, TailIncreases
    <3>2. Covered(Head(queue))
      BY <2>3 DEF Covered
    <3>3. \A m \in ToSet(queue') : \A n \in 1..m : Covered(n) \/ n \in ToSet(queue')
      BY <2>3, <3>1, <3>2 DEF CoverInv
    <3>4. registered => \A n \in Numbers : Covered(n) \/ n \in ToSet(queue')
      BY <2>3, <3>1, <3>2 DEF CoverInv
    <3>5. QED
      BY <1>q, <1>a, <1>b, <2>1, <2>3, <3>1, <3>3, <3>4 DEF CoverInv
  <2>4. QED
    BY <1>9, <2>2, <2>3 DEF Skip
<1>10. CASE WriteLive
  <2>1. queue # <<>> /\ pc = "live" /\ Deliver(Head(queue)) /\ Head(queue) \in Numbers
    BY <1>0, <1>10, TailKind DEF WriteLive
  <2>2. ToSet(queue) = {Head(queue)} \cup ToSet(Tail(queue))
    BY <1>0, <2>1, TailIncreases
  <2>3. \A n \in 1..LastRendered' : Covered(n)'
    <3>1. \A n \in 1..Head(queue) : Covered(n) \/ n \in ToSet(queue)
      BY <2>1, <2>2 DEF CoverInv
    <3>2. QED
      BY <1>0, <2>1, <3>1, DeliverCovers
  <2>4. CASE Leave
    BY <2>3, <2>4, LeaveCovers
  <2>5. CASE queue' = Tail(queue) /\ UNCHANGED <<pc, snap, registered, closed>>
    <3>1. /\ ToSet(rendered') = ToSet(rendered) \cup {Head(queue)} /\ UNCHANGED <<log, passed, overrun>>
      BY <2>1, DeliverFacts
    <3>2. \A n \in Numbers : Covered(n) \/ n \in ToSet(queue) => Covered(n)' \/ n \in ToSet(queue')
      BY <2>2, <2>5, <3>1 DEF Covered
    <3>3. Numbers' = Numbers /\ ToSet(queue') \subseteq ToSet(queue)
      BY <2>2, <2>5, <3>1 DEF Numbers
    <3>4. \A m \in ToSet(queue') : \A n \in 1..m : Covered(n)' \/ n \in ToSet(queue')
      BY <1>a, <1>b, <2>1, <3>2, <3>3 DEF CoverInv
    <3>5. registered' => \A n \in Numbers' : Covered(n)' \/ n \in ToSet(queue')
      BY <2>1, <2>5, <3>2, <3>3 DEF CoverInv
    <3>6. QED
      BY <2>1, <2>3, <2>5, <3>4, <3>5 DEF CoverInv
  <2>6. QED
    BY <1>10, <2>4, <2>5 DEF WriteLive
<1>11. CASE Beat
  <2>1. UNCHANGED <<log, pc, from, snap, queue, registered, rendered, passed, overrun>>
    BY <1>11 DEF Beat, subVars, cliVars
  <2>2. QED
    BY <1>q, <1>a, <1>b, <2>1 DEF CoverInv
<1>12. CASE DeadlineCloses
  <2>1. UNCHANGED <<log, pc, from, snap, queue, rendered, passed, overrun>> /\ registered' = FALSE
    BY <1>12 DEF DeadlineCloses, reqVars, cliVars
  <2>2. QED
    BY <1>q, <1>a, <1>b, <2>1 DEF CoverInv
<1>13. CASE SeesEnd
  BY <1>13, <1>q, LeaveCovers DEF SeesEnd
<1>14. CASE Cut
  BY <1>14, <1>q, LeaveCovers DEF Cut, cliVars
<1>15. CASE UNCHANGED vars
  <2>1. UNCHANGED <<log, pc, from, snap, queue, registered, rendered, passed, overrun>>
    BY <1>15 DEF vars, reqVars, subVars, cliVars
  <2>2. QED
    BY <1>q, <1>a, <1>b, <2>1 DEF CoverInv
<1>16. QED
  BY <1>1, <1>2, <1>3, <1>4, <1>5, <1>6, <1>7, <1>8, <1>9, <1>10, <1>11, <1>12, <1>13, <1>14, <1>15
     DEF Next, Serve

\* A wanted frame is missed only between an AES request's snapshot and its
\* resume point, or in a replay of more than the ring or the channel holds;
\* whatever ends a request in between loses nothing.
THEOREM MissedCorrect == Spec => []MissedOnlyThere
<1>1. Init => CoverInv
  <2> SUFFICES ASSUME Init PROVE CoverInv
    OBVIOUS
  <2>1. LastRendered = 0 /\ pc = "idle"
    BY DEF Init, LastRendered
  <2>2. QED
    BY <2>1 DEF CoverInv
<1>2. CoverInv => MissedOnlyThere
  BY DEF CoverInv, MissedOnlyThere, Covered
<1>3. QED
  BY <1>1, <1>2, TypeInit, OrderInit, TypeStep, OrderStep, CoverStep, PTL DEF Spec

----------------------------------------------------------------------------
(* The limits of a device's request *)

\* A request that has a limit has not reached it while it runs.
LimitInv ==
  /\ sent \in Nat
  /\ budget > 0 => sent <= budget /\ (pc # "idle" => sent < budget)
  /\ RefusedOnlyQuoted

\* A frame is too long for a record only if it quotes more than the slack.
LEMMA TooLongIsQuoted ==
  ASSUME NEW f \in Shapes, ~Writable(f)
  PROVE  Outer + Marker + f.escapes > Slack
<1>1. f.len \in Nat /\ f.escapes \in Nat /\ Plain \in Nat /\ Slack \in Nat /\ Outer \in Nat /\ Marker \in Nat
      /\ Slack < Plain
  BY Sizes, StreamAssumption
<1>2. Wire(f) > Plain
  <2>1. Wire(f) \in Nat
    BY <1>1 DEF Wire
  <2>2. QED
    BY <1>1, <2>1 DEF Writable
<1>3. CASE Outer + f.len <= Plain \/ f.len <= Plain - Slack
  <2>1. Wire(f) = Outer + f.len
    BY <1>3 DEF Wire
  <2>2. QED
    BY <1>1, <1>2, <1>3, <2>1
<1>4. CASE ~(Outer + f.len <= Plain \/ f.len <= Plain - Slack)
  <2> DEFINE cut == IF f.escapes <= Plain - Slack THEN f.escapes ELSE Plain - Slack
  <2>1. Wire(f) = Outer + Marker + (Plain - Slack) + cut
    BY <1>4 DEF Wire
  <2>2. cut <= f.escapes /\ cut \in Nat
    BY <1>1
  <2> HIDE DEF cut
  <2>3. QED
    BY <1>1, <1>2, <2>1, <2>2
<1>5. QED
  BY <1>3, <1>4

\* One record more stays within the limit, and reaches it only at the end.
LEMMA DeliverLimits ==
  ASSUME TypeInv, LimitInv, pc # "idle", NEW n \in Numbers, Deliver(n),
         ~BudgetSpent \/ pc' = "idle"
  PROVE  LimitInv'
<1>1. sent' = sent + 1 /\ UNCHANGED <<log, budget, refused>>
  BY DEF Deliver
<1>2. budget \in Nat /\ beats \in Nat /\ sent \in Nat
  BY Sizes DEF TypeInv, LimitInv
<1>3. budget > 0 => sent + 1 <= budget /\ (pc' # "idle" => sent + 1 < budget)
  BY <1>2 DEF LimitInv, BudgetSpent
<1>4. QED
  BY <1>1, <1>2, <1>3 DEF LimitInv, RefusedOnlyQuoted

\* Every step keeps the limits.
LEMMA LimitStep == TypeInv /\ LimitInv /\ [Next]_vars => LimitInv'
<1> SUFFICES ASSUME TypeInv, LimitInv, [Next]_vars
             PROVE  LimitInv'
  OBVIOUS
<1>0. /\ snap \in Seq(Numbers) /\ queue \in Seq(Numbers) /\ budget \in Nat /\ sent \in Nat
      /\ log \in Seq(Shapes) /\ Len(log) \in Nat /\ Numbers = DOMAIN log
  BY Sizes DEF TypeInv, LimitInv, Numbers
\* A step that writes no record and refuses no frame.
<1>q. ASSUME UNCHANGED <<log, budget, sent, refused>>, pc # "idle" \/ pc' = "idle"
      PROVE  LimitInv'
  BY <1>0, <1>q DEF LimitInv, RefusedOnlyQuoted
<1>1. ASSUME NEW f \in Shapes, Publish(f)
      PROVE  LimitInv'
  <2>1. /\ UNCHANGED <<pc, budget, sent, refused>> /\ \A n \in Numbers : log'[n] = log[n]
        /\ Numbers \subseteq Numbers' /\ log' \in Seq(Shapes)
    BY <1>1, PublishFacts
  <2>2. DOMAIN log \subseteq DOMAIN log' /\ \A n \in DOMAIN log : log'[n] = log[n]
    <3>1. Numbers' = DOMAIN log'
      BY <2>1 DEF Numbers
    <3>2. QED
      BY <1>0, <2>1, <3>1
  <2>3. QED
    BY <2>1, <2>2 DEF LimitInv, RefusedOnlyQuoted
<1>2. CASE SessionEnds
  BY <1>2, <1>q DEF SessionEnds, reqVars, cliVars
<1>3. ASSUME NEW b \in Budgets, Request(b)
      PROVE  LimitInv'
  <2>1. b \in Nat /\ budget' = b /\ sent' = 0 /\ UNCHANGED <<log, refused>>
    BY <1>3, Sizes DEF Request, cliVars
  <2>2. QED
    BY <2>1 DEF LimitInv, RefusedOnlyQuoted
<1>4. CASE TakeSnapshot
  BY <1>4, <1>q DEF TakeSnapshot, reqVars, cliVars
<1>5. CASE WriteReplay
  <2>1. pc = "replay" /\ Deliver(Head(snap)) /\ Head(snap) \in Numbers
    BY <1>0, <1>5, TailKind DEF WriteReplay
  <2>2. ~BudgetSpent \/ pc' = "idle"
    BY <1>5 DEF WriteReplay, Leave
  <2>3. QED
    BY <2>1, <2>2, DeliverLimits
<1>6. CASE WriteRefused
  <2>1. PICK n \in Numbers : log[n].want /\ ~Writable(log[n])
    <3>1. CASE pc = "replay" /\ snap # <<>> /\ log[Head(snap)].want /\ ~Writable(log[Head(snap)])
      BY <1>0, <3>1, TailKind
    <3>2. CASE pc = "live" /\ queue # <<>> /\ log[Head(queue)].want /\ ~Writable(log[Head(queue)])
      BY <1>0, <3>2, TailKind
    <3>3. QED
      BY <1>6, <3>1, <3>2 DEF WriteRefused
  <2>2. log[n] \in Shapes
    BY <1>0
  <2>3. Outer + Marker + log[n].escapes > Slack
    BY <2>1, <2>2, TooLongIsQuoted
  <2>4. UNCHANGED <<log, budget, sent>> /\ pc' = "idle" /\ n \in DOMAIN log
    BY <1>0, <1>6 DEF WriteRefused, Leave, reqVars
  <2>5. RefusedOnlyQuoted'
    BY <2>1, <2>3, <2>4 DEF RefusedOnlyQuoted
  <2>6. QED
    BY <2>4, <2>5 DEF LimitInv
<1>7. CASE ReadResume
  BY <1>7, <1>q DEF ReadResume, cliVars
<1>8. CASE Subscribe
  BY <1>8, <1>q DEF Subscribe, reqVars, cliVars
<1>9. CASE Skip
  BY <1>9, <1>q DEF Skip, reqVars, cliVars
<1>10. CASE WriteLive
  <2>1. pc = "live" /\ Deliver(Head(queue)) /\ Head(queue) \in Numbers
    BY <1>0, <1>10, TailKind DEF WriteLive
  <2>2. ~BudgetSpent \/ pc' = "idle"
    BY <1>10 DEF WriteLive, Leave
  <2>3. QED
    BY <2>1, <2>2, DeliverLimits
<1>11. CASE Beat
  BY <1>11, <1>q DEF Beat, cliVars
<1>12. CASE DeadlineCloses
  BY <1>12, <1>q DEF DeadlineCloses, reqVars, cliVars
<1>13. CASE SeesEnd
  BY <1>13, <1>q DEF SeesEnd, Leave, reqVars
<1>14. CASE Cut
  BY <1>14, <1>q DEF Cut, Leave, reqVars, cliVars
<1>15. CASE UNCHANGED vars
  BY <1>15, <1>q DEF vars, reqVars, cliVars
<1>16. QED
  BY <1>1, <1>2, <1>3, <1>4, <1>5, <1>6, <1>7, <1>8, <1>9, <1>10, <1>11, <1>12, <1>13, <1>14, <1>15
     DEF Next, Serve

\* No request is sent more records than it asked for, from the snapshot or
\* live; and a frame that is refused for its length quotes more than the slack
\* has room for.
THEOREM LimitsCorrect == Spec => []WithinLimits
<1>1. Init => LimitInv
  BY DEF Init, LimitInv, RefusedOnlyQuoted
<1>2. LimitInv => WithinLimits
  BY DEF LimitInv, WithinLimits, BudgetKept
<1>3. QED
  BY <1>1, <1>2, TypeInit, TypeStep, LimitStep, PTL DEF Spec
=============================================================================
