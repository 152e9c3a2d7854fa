----------------------------- MODULE BusProofs -----------------------------
(***************************************************************************)
(* Proofs about Bus, for every ring size, every channel capacity, every    *)
(* set of subscriptions and every number of published frames.              *)
(***************************************************************************)
EXTENDS Bus, TLAPS

USE BusAssumption

----------------------------------------------------------------------------
(* Types *)

\* A slot of the ring is an index of the buffer.
LEMMA SlotType ==
  ASSUME bufHead \in 0..(BufCap - 1), NEW i \in 0..BufCap
  PROVE  Slot(i) \in 0..(BufCap - 1)
<1>1. bufHead + i \in Nat
  OBVIOUS
<1>2. QED
  BY <1>1 DEF Slot

\* Storing a frame keeps the types of the ring.
LEMMA StoreType ==
  ASSUME RingTypes, Publish
  PROVE  RingTypes'
<1>1. Store(seq + 1) /\ seq + 1 \in Nat /\ log' = Append(log, seq + 1) /\ seq' = seq + 1
  BY DEF Publish, RingTypes
<1>2. log' \in Seq(Nat) /\ Len(log') = Len(log) + 1 /\ bufLen <= Len(log) /\ bufLen \in 0..BufCap
  BY <1>1 DEF RingTypes
<1>3. Slot(1) \in 0..(BufCap - 1) /\ Slot(bufLen) \in 0..(BufCap - 1)
  BY SlotType DEF RingTypes
<1>4. buf \in [0..(BufCap - 1) -> Nat] /\ bufHead \in 0..(BufCap - 1)
  BY DEF RingTypes
<1>5. CASE bufLen < BufCap
  <2>1. /\ buf' = [buf EXCEPT ![Slot(bufLen)] = seq + 1]
        /\ bufLen' = bufLen + 1
        /\ bufHead' = bufHead
    BY <1>1, <1>5 DEF Store
  <2>2. buf' \in [0..(BufCap - 1) -> Nat]
    BY <1>1, <1>3, <1>4, <2>1
  <2>3. QED
    BY <1>1, <1>2, <1>4, <1>5, <2>1, <2>2 DEF RingTypes
<1>6. CASE ~(bufLen < BufCap)
  <2>1. /\ buf' = [buf EXCEPT ![bufHead] = seq + 1]
        /\ bufLen' = bufLen
        /\ bufHead' = Slot(1)
    BY <1>1, <1>6 DEF Store, Slot
  <2>2. buf' \in [0..(BufCap - 1) -> Nat]
    BY <1>1, <1>4, <2>1
  <2>3. QED
    BY <1>1, <1>2, <1>3, <2>1, <2>2 DEF RingTypes
<1>7. QED
  BY <1>5, <1>6

\* Publishing keeps every channel within its capacity.
LEMMA FanOutType ==
  ASSUME ChanTypes, RingTypes, Publish
  PROVE  ChanTypes'
<1>1. /\ FanOut(seq + 1) /\ seq + 1 \in Nat
      /\ UNCHANGED <<created, ctxDone, cancelled, got>>
  BY DEF Publish, RingTypes, subVars
<1>2. ASSUME NEW s \in Subs
      PROVE  /\ ch'[s] \in Seq(Nat)
             /\ Len(ch'[s]) <= ChanCap[s]
  <2>1. ch[s] \in Seq(Nat) /\ Len(ch[s]) <= ChanCap[s] /\ ChanCap[s] \in Nat
    BY DEF ChanTypes
  <2>2. CASE s \in subs /\ ~Full(s)
    BY <1>1, <2>1, <2>2 DEF FanOut, Full
  <2>3. CASE ~(s \in subs /\ ~Full(s))
    BY <1>1, <2>1, <2>3 DEF FanOut
  <2>4. QED
    BY <2>2, <2>3
<1>3. ch' \in [Subs -> Seq(Nat)]
  BY <1>1, <1>2 DEF FanOut
<1>4. closes' \in [Subs -> Nat] /\ subs' \subseteq created
  <2>1. closes \in [Subs -> Nat] /\ subs \subseteq created
    BY DEF ChanTypes
  <2>2. QED
    BY <1>1, <2>1 DEF FanOut
<1>5. QED
  BY <1>1, <1>2, <1>3, <1>4 DEF ChanTypes

\* Every step keeps the types of Bus.
LEMMA TypeStep == TypeOK /\ [Next]_vars => TypeOK'
<1> SUFFICES ASSUME TypeOK, [Next]_vars
             PROVE  TypeOK'
  OBVIOUS
<1> USE DEF TypeOK
<1>1. CASE PublishFails
  BY <1>1 DEF PublishFails, RingTypes, SubTypes, ChanTypes, loopVars, subVars
<1>2. CASE Publish
  <2>1. SubTypes'
    BY <1>2 DEF Publish, SubTypes, loopVars, subVars
  <2>2. QED
    BY <1>2, <2>1, StoreType, FanOutType
<1>3. ASSUME NEW s \in Subs, NEW from \in 0..(seq + 1), SubscribeBegin(s, from)
      PROVE  TypeOK'
  <2>1. RingTypes'
    BY <1>3 DEF SubscribeBegin, RingTypes, ringVars
  <2>2. from \in Nat /\ Len(log) \in Nat /\ Len(log) - bufLen \in Nat
    BY DEF RingTypes
  <2>3. SubTypes'
    BY <1>3, <2>2 DEF SubscribeBegin, SubTypes
  <2>4. ChanTypes'
    BY <1>3 DEF SubscribeBegin, ChanTypes
  <2>5. QED
    BY <2>1, <2>3, <2>4
<1>4. CASE ReplayStep
  <2>1. RingTypes'
    BY <1>4 DEF ReplayStep, RingTypes, ringVars
  <2>2. mu \in Subs /\ At(idx) \in Nat /\ idx \in Nat /\ idx + 1 \in 0..BufCap
    <3>1. mu \in Subs /\ idx < bufLen /\ idx \in Nat /\ bufLen \in 0..BufCap
      BY <1>4 DEF ReplayStep, SubTypes, RingTypes
    <3>2. bufHead \in 0..(BufCap - 1) /\ idx \in 0..BufCap
      BY <3>1 DEF RingTypes
    <3>3. Slot(idx) \in 0..(BufCap - 1)
      BY <3>2, SlotType
    <3>4. QED
      BY <3>1, <3>3 DEF At, RingTypes
  <2>3. SubTypes'
    <3>1. /\ UNCHANGED <<created, mu, fromSeq, joined>>
          /\ idx' = idx + 1
          /\ base' = base \/ base' = [base EXCEPT ![mu] = @ + 1]
          /\ replayed' = replayed \/ replayed' = [replayed EXCEPT ![mu] = @ + 1]
      BY <1>4 DEF ReplayStep
    <3>2. base' \in [Subs -> Nat] /\ replayed' \in [Subs -> Nat]
      BY <2>2, <3>1 DEF SubTypes
    <3>3. QED
      BY <2>2, <3>1, <3>2 DEF SubTypes
  <2>4. ChanTypes'
    <3>1. /\ UNCHANGED <<subs, created, ctxDone, cancelled, closes, got>>
          /\ ch' = ch \/ (~Full(mu) /\ ch' = [ch EXCEPT ![mu] = Append(@, At(idx))])
      BY <1>4 DEF ReplayStep
    <3>2. ch[mu] \in Seq(Nat) /\ Len(ch[mu]) <= ChanCap[mu] /\ ChanCap[mu] \in Nat
      BY <2>2 DEF ChanTypes
    <3>3. CASE ch' = ch
      BY <3>1, <3>3 DEF ChanTypes
    <3>4. CASE ~Full(mu) /\ ch' = [ch EXCEPT ![mu] = Append(@, At(idx))]
      <4>1. Append(ch[mu], At(idx)) \in Seq(Nat) /\ Len(Append(ch[mu], At(idx))) <= ChanCap[mu]
        BY <2>2, <3>2, <3>4 DEF Full
      <4>2. QED
        BY <2>2, <3>1, <3>4, <4>1 DEF ChanTypes
    <3>5. QED
      BY <3>1, <3>3, <3>4
  <2>5. QED
    BY <2>1, <2>3, <2>4
<1>5. CASE SubscribeEnd
  BY <1>5 DEF SubscribeEnd, RingTypes, SubTypes, ChanTypes, ringVars, subVars
<1>6. ASSUME NEW s \in Subs, Receive(s)
      PROVE  TypeOK'
  <2>1. RingTypes' /\ SubTypes'
    BY <1>6 DEF Receive, RingTypes, SubTypes, ringVars, subVars, loopVars
  <2>2. ChanTypes'
    BY <1>6 DEF Receive, ChanTypes, subVars
  <2>3. QED
    BY <2>1, <2>2
<1>7. ASSUME NEW s \in Subs, Cancel(s)
      PROVE  TypeOK'
  <2>1. RingTypes' /\ SubTypes'
    BY <1>7 DEF Cancel, RingTypes, SubTypes, ringVars, subVars, loopVars
  <2>2. ChanTypes'
    BY <1>7 DEF Cancel, ChanTypes, subVars
  <2>3. QED
    BY <2>1, <2>2
<1>8. ASSUME NEW s \in Subs, EndContext(s)
      PROVE  TypeOK'
  BY <1>8 DEF EndContext, RingTypes, SubTypes, ChanTypes, ringVars, subVars, loopVars
<1>9. CASE CloseAll
  <2>1. RingTypes' /\ SubTypes'
    BY <1>9 DEF CloseAll, RingTypes, SubTypes, ringVars, subVars, loopVars
  <2>2. ChanTypes'
    BY <1>9 DEF CloseAll, ChanTypes, subVars
  <2>3. QED
    BY <2>1, <2>2
<1>10. CASE UNCHANGED vars
  BY <1>10 DEF vars, RingTypes, SubTypes, ChanTypes, ringVars, subVars, loopVars
<1>11. QED
  BY <1>1, <1>2, <1>3, <1>4, <1>5, <1>6, <1>7, <1>8, <1>9, <1>10 DEF Next, CancelOnDone

\* Bus keeps its types: in particular the ring index stays in range and no
\* channel holds more than its capacity.
THEOREM TypeCorrect == Spec => []TypeOK
<1>1. Init => TypeOK
  BY DEF Init, TypeOK, RingTypes, SubTypes, ChanTypes
<1>2. QED
  BY <1>1, TypeStep, PTL DEF Spec

----------------------------------------------------------------------------
(* The inductive invariant: every frame handed over is the frame at its     *)
(* Place in the log of published frames.                                    *)

\* Sequence numbers grow along the log and none is ahead of the counter.
LogInOrder ==
  /\ \A i, j \in 1..Len(log) : i < j => log[i] < log[j]
  /\ \A i \in 1..Len(log) : log[i] <= seq

\* The i-th retained frame is the i-th of the last bufLen frames of the log.
RingHolds ==
  /\ bufLen < BufCap => bufLen = Len(log)
  /\ \A i \in 0..(bufLen - 1) : At(i) = log[Len(log) - bufLen + 1 + i]

\* How much has been handed to s: received, and waiting.
Taken(s) == Len(got[s])
Waiting(s) == Len(ch[s])
Count(s) == Taken(s) + Waiting(s)

\* The two runs a subscription is handed lie within the log, in this order.
Runs(s) ==
  /\ base[s] + replayed[s] <= joined[s]
  /\ joined[s] <= Len(log)
  /\ replayed[s] <= Count(s)
  /\ Count(s) - replayed[s] <= Len(log) - joined[s]

\* What was received and what waits are the frames at their places.
Placed(s) ==
  /\ \A i \in 1..Taken(s) : got[s][i] = log[Place(s, i)]
  /\ \A j \in 1..Waiting(s) : ch[s][j] = log[Place(s, Taken(s) + j)]

\* An id Subscribe has not given out.
Unused(s) ==
  /\ got[s] = <<>>
  /\ ch[s] = <<>>
  /\ replayed[s] = 0
  /\ closes[s] = 0

\* The subscription whose replay loop is running, before iteration idx.
InLoop(s) ==
  /\ s \notin subs
  /\ closes[s] = 0
  /\ got[s] = <<>>
  /\ replayed[s] = Waiting(s)
  /\ joined[s] = Len(log)
  /\ idx <= bufLen
  /\ base[s] + replayed[s] <= Len(log) - bufLen + idx
  /\ ~Full(s) => base[s] + replayed[s] = Len(log) - bufLen + idx
  /\ replayed[s] > 0 => ~AlreadySeen(s, log[base[s] + 1])

\* What a replay leaves out at its start is gone from the ring or already
\* seen; at its end it leaves out nothing, or what a full channel refused.
LeftOut(s) ==
  /\ joined[s] <= base[s] + BufCap
  /\ \A n \in 1..base[s] : n + BufCap <= joined[s] \/ AlreadySeen(s, log[n])
  /\ s # mu => replayed[s] = ChanCap[s] \/ base[s] + replayed[s] = joined[s]

IInv ==
  /\ TypeOK
  /\ LogInOrder
  /\ RingHolds
  /\ \A s \in Subs : Runs(s) /\ Placed(s)
  /\ \A s \in Subs \ created : Unused(s)
  /\ mu # NoSub => InLoop(mu)
  /\ \A s \in created : LeftOut(s)
  /\ \A s \in subs : Count(s) - replayed[s] = Len(log) - joined[s]
  /\ CloseOnce

----------------------------------------------------------------------------
(* The ring *)

\* Below two turns of the ring the modulus takes off one turn or none.
LEMMA OneTurn ==
  ASSUME NEW x \in 0..(2 * BufCap - 1)
  PROVE  x % BufCap = IF x < BufCap THEN x ELSE x - BufCap
<1>1. ASSUME NEW y \in 0..(BufCap - 1) PROVE y % BufCap = y
  OBVIOUS
<1>2. ASSUME NEW y \in BufCap..(2 * BufCap - 1) PROVE y % BufCap = y - BufCap
  OBVIOUS
<1>3. CASE x < BufCap
  <2>1. x \in 0..(BufCap - 1)
    BY <1>3
  <2>2. QED
    BY <1>1, <1>3, <2>1
<1>4. CASE ~(x < BufCap)
  <2>1. x \in BufCap..(2 * BufCap - 1)
    BY <1>4
  <2>2. QED
    BY <1>2, <1>4, <2>1
<1>5. QED
  BY <1>3, <1>4

\* The same for a sum of a place in the ring and a distance along it.
LEMMA WrapValue ==
  ASSUME NEW h \in 0..(BufCap - 1), NEW i \in 0..BufCap
  PROVE  (h + i) % BufCap = IF h + i < BufCap THEN h + i ELSE h + i - BufCap
<1>1. h + i \in 0..(2 * BufCap - 1)
  OBVIOUS
<1>2. QED
  BY <1>1, OneTurn

\* Slot, with the modulus unfolded.
LEMMA SlotValue ==
  ASSUME bufHead \in 0..(BufCap - 1), NEW i \in 0..BufCap
  PROVE  Slot(i) = IF bufHead + i < BufCap THEN bufHead + i ELSE bufHead + i - BufCap
BY WrapValue DEF Slot

\* Different places in the ring have different slots.
LEMMA SlotsDiffer ==
  ASSUME bufHead \in 0..(BufCap - 1), NEW i \in 0..(BufCap - 1), NEW j \in 0..(BufCap - 1), i # j
  PROVE  Slot(i) # Slot(j)
<1>1. /\ Slot(i) = IF bufHead + i < BufCap THEN bufHead + i ELSE bufHead + i - BufCap
      /\ Slot(j) = IF bufHead + j < BufCap THEN bufHead + j ELSE bufHead + j - BufCap
  <2>1. i \in 0..BufCap /\ j \in 0..BufCap
    OBVIOUS
  <2>2. QED
    BY <2>1, SlotValue
<1>2. QED
  BY <1>1

\* Publish keeps the log in order.
LEMMA PublishLog ==
  ASSUME RingTypes, LogInOrder, Publish
  PROVE  /\ LogInOrder'
         /\ Len(log') = Len(log) + 1
         /\ log'[Len(log) + 1] = seq + 1
         /\ \A n \in 1..Len(log) : log'[n] = log[n]
<1>1. log' = Append(log, seq + 1) /\ seq' = seq + 1
  BY DEF Publish
<1>2. log \in Seq(Nat) /\ seq \in Nat
  BY DEF RingTypes
<1>3. /\ Len(log') = Len(log) + 1
      /\ log'[Len(log) + 1] = seq + 1
      /\ \A n \in 1..Len(log) : log'[n] = log[n]
  BY <1>1, <1>2
<1>4. \A i \in 1..Len(log) : log[i] \in Nat
  BY <1>2
<1>5. LogInOrder'
  BY <1>1, <1>2, <1>3, <1>4 DEF LogInOrder
<1>6. QED
  BY <1>3, <1>5

\* Publish keeps in the ring exactly the newest frames of the log.
LEMMA PublishRing ==
  ASSUME RingTypes, LogInOrder, RingHolds, Publish
  PROVE  RingHolds'
<1>1. /\ Len(log) \in Nat
      /\ Len(log') = Len(log) + 1
      /\ log'[Len(log) + 1] = seq + 1
      /\ \A n \in 1..Len(log) : log'[n] = log[n]
  BY PublishLog DEF RingTypes
<1>2. /\ buf \in [0..(BufCap - 1) -> Nat]
      /\ bufHead \in 0..(BufCap - 1)
      /\ bufLen \in 0..BufCap
      /\ bufLen <= Len(log)
  BY DEF RingTypes
<1>3. Store(seq + 1)
  BY DEF Publish
<1>4. CASE bufLen < BufCap
  <2>1. /\ buf' = [buf EXCEPT ![Slot(bufLen)] = seq + 1]
        /\ bufLen' = bufLen + 1
        /\ bufHead' = bufHead
    BY <1>3, <1>4 DEF Store
  <2>2. ASSUME NEW i \in 0..(bufLen' - 1)
        PROVE  At(i)' = log'[Len(log') - bufLen' + 1 + i]
    <3>1. i \in 0..bufLen /\ i \in 0..(BufCap - 1)
      BY <1>2, <1>4, <2>1
    <3>2. At(i)' = buf'[Slot(i)] /\ Slot(i) \in 0..(BufCap - 1)
      BY <1>2, <2>1, <3>1, SlotType DEF At, Slot
    <3>3. CASE i = bufLen
      <4>1. At(i)' = seq + 1
        BY <1>2, <2>1, <3>2, <3>3
      <4>2. Len(log') - bufLen' + 1 + i = Len(log) + 1
        BY <1>1, <1>2, <2>1, <3>3
      <4>3. QED
        BY <1>1, <4>1, <4>2
    <3>4. CASE i # bufLen
      <4>1. i \in 0..(bufLen - 1) /\ Slot(i) # Slot(bufLen)
        <5>1. i \in 0..(bufLen - 1) /\ bufLen \in 0..(BufCap - 1)
          BY <1>2, <1>4, <3>1, <3>4
        <5>2. QED
          BY <1>2, <3>1, <3>4, <5>1, SlotsDiffer
      <4>2. At(i)' = At(i)
        BY <1>2, <2>1, <3>2, <4>1 DEF At
      <4>3. At(i) = log[Len(log) - bufLen + 1 + i]
        BY <4>1 DEF RingHolds
      <4>4. /\ Len(log') - bufLen' + 1 + i = Len(log) - bufLen + 1 + i
            /\ Len(log) - bufLen + 1 + i \in 1..Len(log)
        BY <1>1, <1>2, <2>1, <4>1
      <4>5. QED
        BY <1>1, <4>2, <4>3, <4>4
    <3>5. QED
      BY <3>3, <3>4
  <2>3. bufLen' < BufCap => bufLen' = Len(log')
    BY <1>1, <1>4, <2>1 DEF RingHolds
  <2>4. QED
    BY <2>2, <2>3 DEF RingHolds
<1>5. CASE ~(bufLen < BufCap)
  <2>1. /\ buf' = [buf EXCEPT ![bufHead] = seq + 1]
        /\ bufLen' = bufLen /\ bufLen = BufCap
        /\ bufHead' = Slot(1)
    BY <1>2, <1>3, <1>5 DEF Store, Slot
  <2>2. bufHead' \in 0..(BufCap - 1)
    BY <1>2, <2>1, SlotType
  <2>3. ASSUME NEW i \in 0..(bufLen' - 1)
        PROVE  At(i)' = log'[Len(log') - bufLen' + 1 + i]
    <3>1. i \in 0..(BufCap - 1)
      BY <2>1
    <3>2. At(i)' = buf'[(Slot(1) + i) % BufCap]
      BY <2>1 DEF At, Slot
    <3>3. (Slot(1) + i) % BufCap = IF i = BufCap - 1 THEN bufHead ELSE Slot(i + 1)
      <4>2. (Slot(1) + i) % BufCap
              = IF Slot(1) + i < BufCap THEN Slot(1) + i ELSE Slot(1) + i - BufCap
        <5>1. PICK h \in 0..(BufCap - 1) : h = Slot(1)
          BY <2>1, <2>2
        <5>2. (h + i) % BufCap = IF h + i < BufCap THEN h + i ELSE h + i - BufCap
          <6>1. i \in 0..BufCap
            BY <3>1
          <6>2. QED
            BY <6>1, WrapValue
        <5>3. QED
          BY <5>1, <5>2
      <4>3. Slot(1) = IF bufHead + 1 < BufCap THEN bufHead + 1 ELSE bufHead + 1 - BufCap
        BY <1>2, SlotValue
      <4>4. i + 1 \in 0..BufCap
        BY <3>1
      <4>5. Slot(i + 1) = IF bufHead + (i + 1) < BufCap THEN bufHead + (i + 1)
                                                         ELSE bufHead + (i + 1) - BufCap
        BY <1>2, <4>4, SlotValue
      <4> DEFINE q == (Slot(1) + i) % BufCap
                 h == Slot(1)
                 r == Slot(i + 1)
      <4>6. /\ bufHead \in 0..(BufCap - 1) /\ i \in 0..(BufCap - 1) /\ BufCap \in Nat \ {0}
            /\ q = IF h + i < BufCap THEN h + i ELSE h + i - BufCap
            /\ h = IF bufHead + 1 < BufCap THEN bufHead + 1 ELSE bufHead + 1 - BufCap
            /\ r = IF bufHead + (i + 1) < BufCap THEN bufHead + (i + 1)
                                                 ELSE bufHead + (i + 1) - BufCap
        BY <1>2, <3>1, <4>2, <4>3, <4>5
      <4> HIDE DEF q, h, r
      <4>7. q = IF i = BufCap - 1 THEN bufHead ELSE r
        BY <4>6
      <4>8. QED
        BY <4>7 DEF q, r
    <3>4. CASE i = BufCap - 1
      <4>1. At(i)' = seq + 1
        BY <1>2, <2>1, <3>2, <3>3, <3>4
      <4>2. Len(log') - bufLen' + 1 + i = Len(log) + 1
        BY <1>1, <1>2, <2>1, <3>4
      <4>3. QED
        BY <1>1, <4>1, <4>2
    <3>5. CASE i # BufCap - 1
      <4>1. i + 1 \in 0..(bufLen - 1) /\ i + 1 \in 0..BufCap
        BY <2>1, <3>1, <3>5
      <4>2. Slot(i + 1) # bufHead /\ Slot(i + 1) \in 0..(BufCap - 1)
        <5>1. i + 1 \in 0..(BufCap - 1) /\ 0 \in 0..(BufCap - 1) /\ i + 1 # 0
          BY <2>1, <3>1, <4>1
        <5>2. Slot(0) = bufHead
          BY <1>2, <5>1, SlotValue
        <5>3. Slot(i + 1) # Slot(0) /\ Slot(i + 1) \in 0..(BufCap - 1)
          BY <1>2, <4>1, <5>1, SlotsDiffer, SlotType
        <5>4. QED
          BY <5>2, <5>3
      <4>3. At(i)' = At(i + 1)
        BY <1>2, <2>1, <3>2, <3>3, <3>5, <4>2 DEF At
      <4>4. At(i + 1) = log[Len(log) - bufLen + 1 + (i + 1)]
        BY <4>1 DEF RingHolds
      <4>5. /\ Len(log') - bufLen' + 1 + i = Len(log) - bufLen + 1 + (i + 1)
            /\ Len(log) - bufLen + 1 + (i + 1) \in 1..Len(log)
        BY <1>1, <1>2, <2>1, <4>1
      <4>6. QED
        BY <1>1, <4>3, <4>4, <4>5
    <3>6. QED
      BY <3>4, <3>5
  <2>4. QED
    BY <2>1, <2>3 DEF RingHolds
<1>6. QED
  BY <1>4, <1>5

----------------------------------------------------------------------------
(* The subscriptions: one lemma per step that moves a frame or a place *)

\* The types of one subscription's state.
LEMMA SubFacts ==
  ASSUME TypeOK, NEW s \in Subs
  PROVE  /\ base[s] \in Nat /\ replayed[s] \in Nat /\ joined[s] \in Nat
         /\ got[s] \in Seq(Nat) /\ ch[s] \in Seq(Nat) /\ log \in Seq(Nat)
         /\ Taken(s) \in Nat /\ Waiting(s) \in Nat /\ Count(s) \in Nat /\ Len(log) \in Nat
         /\ Count(s) = Taken(s) + Waiting(s)
         /\ closes[s] \in Nat /\ ChanCap[s] \in Nat \ {0}
<1>1. base[s] \in Nat /\ replayed[s] \in Nat /\ joined[s] \in Nat
  BY DEF TypeOK, SubTypes
<1>2. got[s] \in Seq(Nat) /\ ch[s] \in Seq(Nat) /\ closes[s] \in Nat
  BY DEF TypeOK, ChanTypes
<1>3. log \in Seq(Nat)
  BY DEF TypeOK, RingTypes
<1>4. Taken(s) \in Nat /\ Waiting(s) \in Nat /\ Len(log) \in Nat
  BY <1>2, <1>3 DEF Taken, Waiting
<1>5. Count(s) = Taken(s) + Waiting(s)
  BY DEF Count
<1>6. QED
  BY <1>1, <1>2, <1>3, <1>4, <1>5

\* A step that moves no frame and adds no subscription keeps the invariant.
LEMMA QuietStep ==
  ASSUME IInv, TypeOK', CloseOnce',
         UNCHANGED <<buf, bufHead, bufLen, log, created, fromSeq, joined, base, replayed,
                     mu, idx, ch, got>>,
         seq' \in {seq, seq + 1},
         subs' \subseteq subs,
         \A s \in Subs \ created : closes'[s] = closes[s],
         mu # NoSub => closes'[mu] = closes[mu]
  PROVE  IInv'
<1>1. LogInOrder'
  <2>1. log \in Seq(Nat) /\ seq \in Nat
    BY DEF IInv, TypeOK, RingTypes
  <2>2. \A i \in 1..Len(log) : log[i] \in Nat
    BY <2>1
  <2>3. QED
    BY <2>1, <2>2 DEF IInv, LogInOrder
<1>2. RingHolds'
  BY DEF IInv, RingHolds, At, Slot
<1>3. \A s \in Subs : (Runs(s) /\ Placed(s))'
  BY DEF IInv, Runs, Placed, Place, Count, Taken, Waiting
<1>4. \A s \in Subs \ created' : Unused(s)'
  BY DEF IInv, Unused
<1>5. (mu # NoSub => InLoop(mu))'
  BY DEF IInv, InLoop, Full, AlreadySeen, Waiting
<1>6. \A s \in created' : LeftOut(s)'
  BY DEF IInv, LeftOut, AlreadySeen
<1>7. \A s \in subs' : (Count(s) - replayed[s] = Len(log) - joined[s])'
  BY DEF IInv, Count, Taken, Waiting
<1>8. QED
  BY <1>1, <1>2, <1>3, <1>4, <1>5, <1>6, <1>7 DEF IInv

\* The places handed to a subscription so far are places of the log.
LEMMA PlaceInLog ==
  ASSUME IInv, NEW s \in Subs, NEW k \in 1..Count(s)
  PROVE  Place(s, k) \in 1..Len(log)
<1>1. /\ base[s] \in Nat /\ replayed[s] \in Nat /\ joined[s] \in Nat
      /\ Len(log) \in Nat /\ Count(s) \in Nat
  BY SubFacts DEF IInv
<1>2. Runs(s)
  BY DEF IInv
<1>3. k \in Nat /\ 1 <= k /\ k <= Count(s)
  BY <1>1
<1>4. CASE k <= replayed[s]
  BY <1>1, <1>2, <1>3, <1>4 DEF Runs, Place
<1>5. CASE ~(k <= replayed[s])
  BY <1>1, <1>2, <1>3, <1>5 DEF Runs, Place
<1>6. QED
  BY <1>4, <1>5

\* Publish hands each registered subscription the frame at the new end of the
\* log, or drops it.
LEMMA PublishInv ==
  ASSUME IInv, TypeOK', Publish
  PROVE  IInv'
<1>1. /\ LogInOrder'
      /\ Len(log') = Len(log) + 1
      /\ log'[Len(log) + 1] = seq + 1
      /\ \A n \in 1..Len(log) : log'[n] = log[n]
  BY PublishLog DEF IInv, TypeOK
<1>2. RingHolds'
  BY PublishRing DEF IInv, TypeOK
<1>3. /\ mu = NoSub /\ mu' = mu
      /\ UNCHANGED <<created, fromSeq, joined, base, replayed, got>>
      /\ FanOut(seq + 1)
  BY DEF Publish, loopVars, subVars
<1>4. ASSUME NEW s \in Subs, s \in subs, ~Full(s)
      PROVE  /\ Waiting(s)' = Waiting(s) + 1
             /\ ch'[s][Waiting(s) + 1] = seq + 1
             /\ \A j \in 1..Waiting(s) : ch'[s][j] = ch[s][j]
             /\ Taken(s)' = Taken(s)
             /\ Count(s)' = Count(s) + 1
             /\ Count(s) - replayed[s] = Len(log) - joined[s]
  <2>1. ch'[s] = Append(ch[s], seq + 1) /\ got'[s] = got[s]
    BY <1>3, <1>4 DEF FanOut
  <2>2. ch[s] \in Seq(Nat) /\ Taken(s) \in Nat /\ Waiting(s) \in Nat
    BY SubFacts DEF IInv
  <2>3. /\ Len(ch'[s]) = Len(ch[s]) + 1
        /\ ch'[s][Len(ch[s]) + 1] = seq + 1
        /\ \A j \in 1..Len(ch[s]) : ch'[s][j] = ch[s][j]
    BY <2>1, <2>2
  <2>4. /\ Waiting(s)' = Waiting(s) + 1
        /\ ch'[s][Waiting(s) + 1] = seq + 1
        /\ \A j \in 1..Waiting(s) : ch'[s][j] = ch[s][j]
        /\ Taken(s)' = Taken(s)
    BY <2>1, <2>3 DEF Waiting, Taken
  <2>5. Count(s)' = Count(s) + 1
    BY <2>2, <2>4 DEF Count
  <2>6. Count(s) - replayed[s] = Len(log) - joined[s]
    BY <1>4 DEF IInv
  <2>7. QED
    BY <2>4, <2>5, <2>6
<1>5. ASSUME NEW s \in Subs, ~(s \in subs /\ ~Full(s))
      PROVE  /\ ch'[s] = ch[s] /\ s \notin subs'
             /\ Waiting(s)' = Waiting(s) /\ Taken(s)' = Taken(s) /\ Count(s)' = Count(s)
  <2>1. ch'[s] = ch[s] /\ s \notin subs' /\ got'[s] = got[s]
    BY <1>3, <1>5 DEF FanOut
  <2>2. QED
    BY <2>1 DEF Waiting, Taken, Count
<1>6. ASSUME NEW s \in Subs, NEW k \in 1..Count(s)
      PROVE  Place(s, k)' = Place(s, k) /\ log'[Place(s, k)] = log[Place(s, k)]
  <2>1. Place(s, k) \in 1..Len(log)
    BY PlaceInLog
  <2>2. QED
    BY <1>1, <1>3, <2>1 DEF Place
<1>7. ASSUME NEW s \in Subs
      PROVE  Runs(s)' /\ Placed(s)'
  <2>1. Runs(s) /\ Placed(s)
    BY DEF IInv
  <2>2. /\ base[s] \in Nat /\ replayed[s] \in Nat /\ joined[s] \in Nat /\ Len(log) \in Nat
        /\ Taken(s) \in Nat /\ Waiting(s) \in Nat /\ Count(s) \in Nat
        /\ Count(s) = Taken(s) + Waiting(s)
    BY SubFacts DEF IInv
  <2>3. ASSUME NEW i \in 1..Taken(s)
        PROVE  got'[s][i] = log'[Place(s, i)']
    <3>1. i \in 1..Count(s)
      BY <2>2
    <3>2. QED
      BY <1>3, <1>6, <2>1, <3>1 DEF Placed
  <2>4. ASSUME NEW j \in 1..Waiting(s), NEW k, k = Taken(s) + j
        PROVE  ch[s][j] = log'[Place(s, k)']
    <3>1. k \in 1..Count(s)
      BY <2>2, <2>4
    <3>2. QED
      BY <1>6, <2>1, <2>4, <3>1 DEF Placed
  <2>5. Taken(s)' = Taken(s)
    BY <1>3 DEF Taken
  <2>6. CASE s \in subs /\ ~Full(s)
    <3>1. /\ Waiting(s)' = Waiting(s) + 1
          /\ ch'[s][Waiting(s) + 1] = seq + 1
          /\ \A j \in 1..Waiting(s) : ch'[s][j] = ch[s][j]
          /\ Count(s)' = Count(s) + 1
          /\ Count(s) - replayed[s] = Len(log) - joined[s]
      BY <1>4, <2>6
    <3>2. ASSUME NEW k, k = Taken(s) + (Waiting(s) + 1)
          PROVE  Place(s, k)' = Len(log) + 1
      <4>1. k \in Nat /\ k = Count(s) + 1
        BY <2>2, <3>2
      <4>2. ~(k <= replayed[s])
        BY <2>1, <2>2, <3>2 DEF Runs
      <4>3. Place(s, k)' = joined[s] + (k - replayed[s])
        BY <1>3, <4>2 DEF Place
      <4>4. QED
        <5>1. Count(s) - replayed[s] = Len(log) - joined[s]
          BY <3>1
        <5>2. joined[s] + (k - replayed[s]) = Len(log) + 1
          <6>1. PICK c \in Nat, r \in Nat, j \in Nat, L \in Nat :
                  c = Count(s) /\ r = replayed[s] /\ j = joined[s] /\ L = Len(log)
            BY <2>2
          <6>2. c - r = L - j
            BY <5>1, <6>1
          <6>3. j + ((c + 1) - r) = L + 1
            BY <6>2
          <6>4. QED
            BY <4>1, <6>1, <6>3
        <5>3. QED
          BY <4>3, <5>2
    <3>3. ASSUME NEW j \in 1..(Waiting(s) + 1), NEW k, k = Taken(s) + j
          PROVE  ch'[s][j] = log'[Place(s, k)']
      <4>1. CASE j = Waiting(s) + 1
        BY <1>1, <3>1, <3>2, <3>3, <4>1
      <4>2. CASE j # Waiting(s) + 1
        <5>1. j \in 1..Waiting(s)
          BY <2>2, <4>2
        <5>2. QED
          BY <2>4, <3>1, <3>3, <5>1
      <4>3. QED
        BY <4>1, <4>2
    <3>4. Placed(s)'
      BY <2>3, <2>5, <3>1, <3>3 DEF Placed
    <3>5. Runs(s)'
      <4>1. PICK b \in Nat, r \in Nat, j \in Nat, c \in Nat, L \in Nat :
              /\ b = base[s] /\ r = replayed[s] /\ j = joined[s]
              /\ c = Count(s) /\ L = Len(log)
        BY <2>2
      <4>2. b + r <= j /\ j <= L /\ r <= c /\ c - r = L - j
        BY <2>1, <3>1, <4>1 DEF Runs
      <4>3. j <= L + 1
        BY <4>2
      <4>4. r <= c + 1
        BY <4>2
      <4>5. (c + 1) - r <= (L + 1) - j
        BY <4>2
      <4>6. /\ base'[s] = b /\ replayed'[s] = r /\ joined'[s] = j
            /\ Count(s)' = c + 1 /\ Len(log') = L + 1
        BY <1>1, <1>3, <3>1, <4>1
      <4>7. QED
        BY <4>2, <4>3, <4>4, <4>5, <4>6 DEF Runs
    <3>6. QED
      BY <3>4, <3>5
  <2>7. CASE ~(s \in subs /\ ~Full(s))
    <3>1. ch'[s] = ch[s] /\ Waiting(s)' = Waiting(s) /\ Count(s)' = Count(s)
      BY <1>5, <2>7
    <3>2. Placed(s)'
      BY <2>3, <2>4, <2>5, <3>1 DEF Placed
    <3>3. Runs(s)'
      BY <1>1, <1>3, <2>1, <2>2, <3>1 DEF Runs
    <3>4. QED
      BY <3>2, <3>3
  <2>8. QED
    BY <2>6, <2>7
<1>8. \A s \in Subs \ created' : Unused(s)'
  <2>1. subs \subseteq created
    BY DEF IInv, TypeOK, ChanTypes
  <2>2. QED
    BY <1>3, <1>5, <2>1 DEF IInv, Unused, FanOut
<1>9. \A s \in created' : LeftOut(s)'
  <2>1. ASSUME NEW s \in created PROVE LeftOut(s)'
    <3>1. LeftOut(s) /\ Runs(s) /\ s \in Subs
      BY DEF IInv, TypeOK, SubTypes
    <3>2. /\ base[s] \in Nat /\ replayed[s] \in Nat /\ joined[s] \in Nat /\ Len(log) \in Nat
      BY <3>1, SubFacts DEF IInv
    <3>3. \A n \in 1..base[s] : log'[n] = log[n]
      BY <1>1, <3>1, <3>2 DEF Runs
    <3>4. QED
      BY <1>3, <3>1, <3>3 DEF LeftOut, AlreadySeen
  <2>2. QED
    BY <1>3, <2>1
<1>10. \A s \in subs' : (Count(s) - replayed[s] = Len(log) - joined[s])'
  <2>1. subs' \subseteq Subs
    BY DEF TypeOK, ChanTypes, SubTypes
  <2>2. ASSUME NEW s \in subs'
        PROVE  Count(s)' - replayed'[s] = Len(log') - joined'[s]
    <3>1. s \in Subs /\ s \in subs /\ ~Full(s)
      BY <1>5, <2>1
    <3>2. /\ Count(s) - replayed[s] = Len(log) - joined[s]
          /\ Count(s)' = Count(s) + 1
      BY <1>4, <3>1
    <3>3. Count(s) \in Nat /\ replayed[s] \in Nat /\ joined[s] \in Nat /\ Len(log) \in Nat
      BY <3>1, SubFacts DEF IInv
    <3>4. Len(log') = Len(log) + 1 /\ replayed'[s] = replayed[s] /\ joined'[s] = joined[s]
      BY <1>1, <1>3
    <3>5. QED
      BY <3>2, <3>3, <3>4
  <2>3. QED
    BY <2>2
<1>11. CloseOnce'
  <2>1. \A s \in Subs : closes'[s] = IF s \in subs /\ Full(s) THEN closes[s] + 1 ELSE closes[s]
    BY <1>3 DEF FanOut
  <2>2. NoSub \notin Subs
    OBVIOUS
  <2>3. QED
    BY <1>3, <2>1, <2>2 DEF FanOut, CloseOnce, IInv
<1>12. QED
  BY <1>1, <1>2, <1>3, <1>7, <1>8, <1>9, <1>10, <1>11 DEF IInv

\* A subscription none of whose state a step touches keeps its runs and places.
LEMMA OtherSub ==
  ASSUME NEW s \in Subs, Runs(s), Placed(s), log' = log,
         base'[s] = base[s], replayed'[s] = replayed[s], joined'[s] = joined[s],
         got'[s] = got[s], ch'[s] = ch[s]
  PROVE  Runs(s)' /\ Placed(s)'
BY DEF Runs, Placed, Place, Count, Taken, Waiting

\* A Subscribe starts: nothing is handed over yet, and what its replay leaves
\* out is what the ring no longer holds.
LEMMA SubscribeBeginInv ==
  ASSUME IInv, TypeOK', NEW s \in Subs, NEW from \in 0..(seq + 1), SubscribeBegin(s, from)
  PROVE  IInv'
<1>1. /\ UNCHANGED <<seq, buf, bufHead, bufLen, log, replayed, subs, ch, closes, got>>
      /\ mu = NoSub /\ mu' = s /\ idx' = 0
      /\ s \notin created /\ created' = created \cup {s}
      /\ fromSeq' = [fromSeq EXCEPT ![s] = from]
      /\ joined' = [joined EXCEPT ![s] = Len(log)]
      /\ base' = [base EXCEPT ![s] = Len(log) - bufLen]
  BY DEF SubscribeBegin, ringVars
<1>2. /\ subs \subseteq created /\ created \subseteq Subs
      /\ base \in [Subs -> Nat] /\ joined \in [Subs -> Nat] /\ fromSeq \in [Subs -> Nat]
      /\ Len(log) \in Nat /\ bufLen \in Nat /\ bufLen <= Len(log) /\ bufLen <= BufCap
  <2>1. SubTypes /\ ChanTypes /\ RingTypes
    BY DEF IInv, TypeOK
  <2>2. Len(log) \in Nat /\ bufLen \in Nat /\ bufLen <= Len(log) /\ bufLen <= BufCap
    BY <2>1 DEF RingTypes
  <2>3. QED
    BY <2>1, <2>2 DEF SubTypes, ChanTypes
<1>3. /\ got[s] = <<>> /\ ch[s] = <<>> /\ replayed[s] = 0 /\ closes[s] = 0 /\ s \notin subs
  BY <1>1, <1>2 DEF IInv, Unused
<1>4. /\ joined'[s] = Len(log) /\ base'[s] = Len(log) - bufLen
      /\ \A t \in Subs : t # s => /\ joined'[t] = joined[t] /\ base'[t] = base[t]
                                  /\ fromSeq'[t] = fromSeq[t]
  BY <1>1, <1>2
<1>5. Taken(s)' = 0 /\ Waiting(s)' = 0 /\ Count(s)' = 0
  BY <1>1, <1>3 DEF Taken, Waiting, Count
<1>6. LogInOrder' /\ RingHolds'
  BY <1>1 DEF IInv, LogInOrder, RingHolds, At, Slot
<1>7. ASSUME NEW t \in Subs
      PROVE  Runs(t)' /\ Placed(t)'
  <2>1. CASE t # s
    <3>1. Runs(t) /\ Placed(t)
      BY DEF IInv
    <3>2. QED
      BY <1>1, <1>4, <2>1, <3>1, OtherSub
  <2>2. CASE t = s
    <3>1. Runs(s)'
      BY <1>1, <1>2, <1>3, <1>4, <1>5 DEF Runs
    <3>2. Placed(s)'
      BY <1>5 DEF Placed
    <3>3. QED
      BY <2>2, <3>1, <3>2
  <2>3. QED
    BY <2>1, <2>2
<1>8. \A t \in Subs \ created' : Unused(t)'
  BY <1>1 DEF IInv, Unused
<1>9. InLoop(s)'
  BY <1>1, <1>2, <1>3, <1>4, <1>5 DEF InLoop
<1>10. ASSUME NEW t \in created'
       PROVE  LeftOut(t)'
  <2>1. CASE t = s
    <3>1. joined'[s] <= base'[s] + BufCap
      BY <1>2, <1>4
    <3>2. ASSUME NEW n \in 1..base'[s]
          PROVE  n + BufCap <= joined'[s]
      <4>1. bufLen < BufCap => bufLen = Len(log)
        BY DEF IInv, RingHolds
      <4>2. QED
        BY <1>2, <1>4, <4>1
    <3>3. QED
      BY <1>1, <2>1, <3>1, <3>2 DEF LeftOut
  <2>2. CASE t # s
    <3>1. t \in created /\ t \in Subs /\ t # NoSub /\ LeftOut(t)
      BY <1>1, <1>2, <2>2 DEF IInv
    <3>2. /\ joined'[t] = joined[t] /\ base'[t] = base[t] /\ fromSeq'[t] = fromSeq[t]
          /\ replayed'[t] = replayed[t] /\ log' = log /\ mu = NoSub
      BY <1>1, <1>4, <2>2, <3>1
    <3>3. QED
      BY <3>1, <3>2 DEF LeftOut, AlreadySeen
  <2>3. QED
    BY <2>1, <2>2
<1>11. \A t \in subs' : (Count(t) - replayed[t] = Len(log) - joined[t])'
  <2>1. ASSUME NEW t \in subs
        PROVE  Count(t)' - replayed'[t] = Len(log') - joined'[t]
    <3>1. t \in Subs /\ t # s /\ Count(t) - replayed[t] = Len(log) - joined[t]
      BY <1>1, <1>2 DEF IInv
    <3>2. Count(t)' = Count(t)
      BY <1>1 DEF Count, Taken, Waiting
    <3>3. QED
      BY <1>1, <1>4, <3>1, <3>2
  <2>2. QED
    BY <1>1, <2>1
<1>12. CloseOnce'
  BY <1>1, <1>3 DEF IInv, CloseOnce
<1>13. QED
  BY <1>1, <1>6, <1>7, <1>8, <1>9, <1>10, <1>11, <1>12 DEF IInv

\* A Subscribe ends: it left nothing out, or a full channel refused the rest.
LEMMA SubscribeEndInv ==
  ASSUME IInv, TypeOK', SubscribeEnd
  PROVE  IInv'
<1>1. /\ UNCHANGED <<seq, buf, bufHead, bufLen, log, created, fromSeq, joined, base, replayed,
                     ch, closes, got>>
      /\ mu # NoSub /\ mu' = NoSub /\ idx = bufLen
      /\ subs' = subs \cup {mu}
  BY DEF SubscribeEnd, ringVars, subVars
<1>2. PICK s \in created : s = mu /\ s \in Subs
  BY <1>1 DEF IInv, TypeOK, SubTypes
<1>3. InLoop(s) /\ LeftOut(s)
  BY <1>1, <1>2 DEF IInv
<1>4. /\ base[s] \in Nat /\ replayed[s] \in Nat /\ joined[s] \in Nat /\ Len(log) \in Nat
      /\ ChanCap[s] \in Nat /\ bufLen \in Nat
  BY <1>2, SubFacts DEF IInv, TypeOK, RingTypes
<1>5. LogInOrder' /\ RingHolds'
  BY <1>1 DEF IInv, LogInOrder, RingHolds, At, Slot
<1>6. \A t \in Subs : (Runs(t) /\ Placed(t))'
  BY <1>1, OtherSub DEF IInv
<1>7. \A t \in Subs \ created' : Unused(t)'
  BY <1>1 DEF IInv, Unused
<1>8. ASSUME NEW t \in created'
      PROVE  LeftOut(t)'
  <2>1. LeftOut(t) /\ UNCHANGED <<joined, base, fromSeq, replayed, log>>
    BY <1>1 DEF IInv
  <2>2. replayed[t] = ChanCap[t] \/ base[t] + replayed[t] = joined[t]
    <3>1. CASE t = s
      <4>1. CASE Full(s)
        BY <1>3, <3>1, <4>1 DEF InLoop, Full, Waiting
      <4>2. CASE ~Full(s)
        <5>1. base[s] + replayed[s] = Len(log) - bufLen + bufLen /\ joined[s] = Len(log)
          BY <1>1, <1>3, <4>2 DEF InLoop
        <5>2. QED
          BY <1>4, <3>1, <5>1
      <4>3. QED
        BY <4>1, <4>2
    <3>2. CASE t # s
      BY <1>2, <2>1, <3>2 DEF LeftOut
    <3>3. QED
      BY <3>1, <3>2
  <2>3. QED
    BY <2>1, <2>2 DEF LeftOut, AlreadySeen
<1>9. \A t \in subs' : (Count(t) - replayed[t] = Len(log) - joined[t])'
  <2>1. ASSUME NEW t \in subs'
        PROVE  Count(t)' - replayed'[t] = Len(log') - joined'[t]
    <3>1. Count(t)' = Count(t) /\ UNCHANGED <<replayed, log, joined>>
      BY <1>1 DEF Count, Taken, Waiting
    <3>2. CASE t = s
      <4>1. got[s] = <<>> /\ replayed[s] = Waiting(s) /\ joined[s] = Len(log)
        BY <1>3 DEF InLoop
      <4>2. Taken(s) = 0
        BY <4>1 DEF Taken
      <4>3. Count(s) = replayed[s]
        BY <1>4, <4>1, <4>2 DEF Count
      <4>4. QED
        BY <1>4, <3>1, <3>2, <4>1, <4>3
    <3>3. CASE t # s
      <4>1. t \in subs
        BY <1>1, <1>2, <3>3
      <4>2. QED
        BY <3>1, <4>1 DEF IInv
    <3>4. QED
      BY <3>2, <3>3
  <2>2. QED
    BY <2>1
<1>10. CloseOnce'
  BY <1>1 DEF IInv, CloseOnce
<1>11. QED
  BY <1>1, <1>5, <1>6, <1>7, <1>8, <1>9, <1>10 DEF IInv

\* An iteration of the replay loop changes only the subscription it runs for.
LEMMA ReplayOthers ==
  ASSUME IInv, TypeOK', NEW s \in created, s = mu, ReplayStep,
         Runs(s)', Placed(s)', InLoop(s)', LeftOut(s)'
  PROVE  IInv'
<1>1. /\ UNCHANGED <<seq, buf, bufHead, bufLen, log, mu, created, fromSeq, joined, subs,
                     closes, got>>
      /\ base' = base \/ base' = [base EXCEPT ![s] = @ + 1]
      /\ replayed' = replayed \/ replayed' = [replayed EXCEPT ![s] = @ + 1]
      /\ ch' = ch \/ ch' = [ch EXCEPT ![s] = Append(@, At(idx))]
  BY DEF ReplayStep, ringVars
<1>2. /\ base \in [Subs -> Nat] /\ replayed \in [Subs -> Nat] /\ ch \in [Subs -> Seq(Nat)]
      /\ created \subseteq Subs
  BY DEF IInv, TypeOK, SubTypes, ChanTypes
<1>3. \A t \in Subs : t # s =>
        base'[t] = base[t] /\ replayed'[t] = replayed[t] /\ ch'[t] = ch[t]
  BY <1>1, <1>2
<1>4. s \in Subs /\ s # NoSub /\ s \notin subs
  BY <1>2 DEF IInv, InLoop
<1>5. LogInOrder' /\ RingHolds'
  BY <1>1 DEF IInv, LogInOrder, RingHolds, At, Slot
<1>6. ASSUME NEW t \in Subs
      PROVE  Runs(t)' /\ Placed(t)'
  <2>1. CASE t = s
    BY <2>1
  <2>2. CASE t # s
    BY <1>1, <1>3, <2>2, OtherSub DEF IInv
  <2>3. QED
    BY <2>1, <2>2
<1>7. \A t \in Subs \ created' : Unused(t)'
  BY <1>1, <1>3 DEF IInv, Unused
<1>8. ASSUME NEW t \in created'
      PROVE  LeftOut(t)'
  <2>1. CASE t = s
    BY <2>1
  <2>2. CASE t # s
    <3>1. LeftOut(t) /\ t \in Subs /\ t # mu
      BY <1>1, <1>2, <2>2 DEF IInv
    <3>2. QED
      BY <1>1, <1>3, <2>2, <3>1 DEF LeftOut, AlreadySeen
  <2>3. QED
    BY <2>1, <2>2
<1>9. \A t \in subs' : (Count(t) - replayed[t] = Len(log) - joined[t])'
  <2>1. ASSUME NEW t \in subs
        PROVE  Count(t)' - replayed'[t] = Len(log') - joined'[t]
    <3>1. t \in Subs /\ t # s /\ Count(t) - replayed[t] = Len(log) - joined[t]
      BY <1>4 DEF IInv, TypeOK, ChanTypes, SubTypes
    <3>2. Count(t)' = Count(t)
      BY <1>1, <1>3, <3>1 DEF Count, Taken, Waiting
    <3>3. QED
      BY <1>1, <1>3, <3>1, <3>2
  <2>2. QED
    BY <1>1, <2>1
<1>10. CloseOnce'
  BY <1>1 DEF IInv, CloseOnce
<1>11. QED
  BY <1>1, <1>5, <1>6, <1>7, <1>8, <1>9, <1>10 DEF IInv

\* The replay loop of the subscription s keeps the invariant.
LEMMA ReplayStepInv ==
  ASSUME IInv, TypeOK', ReplayStep
  PROVE  IInv'
<1>1. PICK s \in created : s = mu /\ s \in Subs
  BY DEF ReplayStep, IInv, TypeOK, SubTypes
<1>2. InLoop(s) /\ LeftOut(s) /\ Runs(s) /\ Placed(s)
  BY <1>1 DEF IInv, ReplayStep
<1>3. /\ UNCHANGED <<bufLen, log, mu, fromSeq, joined, subs, closes, got>>
      /\ idx < bufLen /\ idx' = idx + 1
  BY DEF ReplayStep, ringVars
<1>4. PICK b \in Nat, r \in Nat, L \in Nat, n \in Nat, i \in Nat :
        /\ b = base[s] /\ r = replayed[s] /\ L = Len(log) /\ n = bufLen /\ i = idx
  <2>1. base[s] \in Nat /\ replayed[s] \in Nat /\ Len(log) \in Nat
    BY <1>1, SubFacts DEF IInv
  <2>2. bufLen \in Nat /\ idx \in Nat
    BY DEF IInv, TypeOK, RingTypes, SubTypes
  <2>3. QED
    BY <2>1, <2>2
<1>5. /\ n <= L /\ i < n /\ n <= BufCap
      /\ joined[s] = L /\ got[s] = <<>> /\ r = Waiting(s)
      /\ b + r <= L - n + i
  BY <1>2, <1>3, <1>4 DEF IInv, TypeOK, RingTypes, InLoop
<1>6. ~Full(s) => b + r = L - n + i
  BY <1>2, <1>4 DEF InLoop
<1>7. At(i) = log[L - n + 1 + i]
  <2>1. i \in 0..(n - 1)
    BY <1>5
  <2>2. QED
    BY <1>4, <2>1 DEF IInv, RingHolds
<1>8. Taken(s) = 0 /\ Taken(s)' = 0 /\ Count(s) = r
  BY <1>3, <1>4, <1>5 DEF Taken, Count
<1>9. /\ base \in [Subs -> Nat] /\ replayed \in [Subs -> Nat] /\ ch \in [Subs -> Seq(Nat)]
  BY DEF IInv, TypeOK, SubTypes, ChanTypes
<1>10. CASE AlreadySeen(s, At(i)) /\ base' = [base EXCEPT ![s] = @ + 1]
            /\ UNCHANGED <<ch, replayed>>
  <2>1. r = 0
    <3>1. SUFFICES ASSUME r > 0 PROVE FALSE
      OBVIOUS
    <3>2. ~AlreadySeen(s, log[b + 1])
      BY <1>2, <1>4, <3>1 DEF InLoop
    <3>3. b + 1 \in 1..L /\ L - n + 1 + i \in 1..L /\ b + 1 < L - n + 1 + i
      BY <1>5, <3>1
    <3>4. log[b + 1] < log[L - n + 1 + i]
      BY <1>4, <3>3 DEF IInv, LogInOrder
    <3>5. log[b + 1] \in Nat /\ log[L - n + 1 + i] \in Nat /\ fromSeq[s] \in Nat
      <4>1. log \in Seq(Nat)
        BY DEF IInv, TypeOK, RingTypes
      <4>2. fromSeq[s] \in Nat
        BY <1>1 DEF IInv, TypeOK, SubTypes
      <4>3. \A x \in 1..L : log[x] \in Nat
        BY <1>4, <4>1
      <4>4. QED
        BY <3>3, <4>2, <4>3
    <3>6. QED
      BY <1>7, <1>10, <3>2, <3>4, <3>5 DEF AlreadySeen
  <2>2. b = L - n + i
    <3>1. Waiting(s) = 0 /\ ChanCap[s] \in Nat \ {0}
      BY <1>1, <1>5, <2>1
    <3>2. ~Full(s)
      BY <3>1 DEF Full, Waiting
    <3>3. QED
      BY <1>6, <2>1, <3>2
  <2>3. /\ base'[s] = b + 1 /\ replayed'[s] = 0 /\ Waiting(s)' = 0 /\ Count(s)' = 0
        /\ Len(log') = L /\ joined'[s] = L
    BY <1>1, <1>3, <1>4, <1>5, <1>8, <1>9, <1>10, <2>1 DEF Waiting, Count
  <2>4. Runs(s)'
    BY <1>5, <2>2, <2>3 DEF Runs
  <2>5. Placed(s)'
    BY <1>8, <2>3 DEF Placed
  <2>6. InLoop(s)'
    <3>1. b + 1 = L - n + (i + 1) /\ i + 1 <= n
      BY <1>5, <2>2
    <3>2. /\ s \notin subs' /\ closes'[s] = 0 /\ got'[s] = <<>>
          /\ idx' = i + 1 /\ bufLen' = n
      BY <1>2, <1>3, <1>4 DEF InLoop
    <3>3. (b + 1) + 0 = L - n + (i + 1)
      BY <3>1
    <3>4. (b + 1) + 0 <= L - n + (i + 1)
      BY <3>3, <1>5
    <3>5. QED
      BY <2>3, <3>1, <3>2, <3>3, <3>4 DEF InLoop
  <2>7. LeftOut(s)'
    <3>1. L <= (b + 1) + BufCap
      BY <1>5, <2>2
    <3>2. ASSUME NEW k \in 1..(b + 1)
          PROVE  k + BufCap <= L \/ AlreadySeen(s, log[k])
      <4>1. CASE k = b + 1
        BY <1>7, <1>10, <2>2, <4>1
      <4>2. CASE k # b + 1
        BY <1>2, <1>4, <1>5, <4>2 DEF LeftOut
      <4>3. QED
        BY <4>1, <4>2
    <3>3. QED
      BY <1>1, <1>3, <2>3, <3>1, <3>2 DEF LeftOut, AlreadySeen
  <2>8. QED
    BY <1>1, <2>4, <2>5, <2>6, <2>7, ReplayOthers
<1>11. CASE /\ ~AlreadySeen(s, At(i)) /\ ~Full(s) /\ UNCHANGED base
            /\ ch' = [ch EXCEPT ![s] = Append(@, At(i))]
            /\ replayed' = [replayed EXCEPT ![s] = @ + 1]
  <2>1. b + r = L - n + i
    BY <1>6, <1>11
  <2>2. /\ ch[s] \in Seq(Nat) /\ ch'[s] = Append(ch[s], At(i))
        /\ base'[s] = b /\ replayed'[s] = r + 1 /\ Len(log') = L /\ joined'[s] = L
    BY <1>1, <1>3, <1>4, <1>5, <1>9, <1>11
  <2>3. /\ Waiting(s)' = r + 1
        /\ \A j \in 1..r : ch'[s][j] = ch[s][j]
        /\ ch'[s][r + 1] = At(i)
    BY <1>5, <2>2 DEF Waiting
  <2>4. Count(s)' = r + 1
    BY <1>8, <2>3 DEF Count
  <2>5. Runs(s)'
    <3>1. b + (r + 1) <= L
      BY <1>5, <2>1
    <3>2. L <= L /\ r + 1 <= r + 1 /\ (r + 1) - (r + 1) <= L - L
      OBVIOUS
    <3>3. QED
      BY <2>2, <2>4, <3>1, <3>2 DEF Runs
  <2>6. Placed(s)'
    <3>1. ASSUME NEW j \in 1..(r + 1), NEW k, k = 0 + j
          PROVE  ch'[s][j] = log'[Place(s, k)']
      <4>1. Place(s, k)' = b + j
        BY <2>2, <3>1 DEF Place
      <4>2. CASE j = r + 1
        <5>1. b + j = L - n + 1 + i
          BY <2>1, <4>2
        <5>2. QED
          BY <1>3, <1>7, <2>3, <4>1, <4>2, <5>1
      <4>3. CASE j # r + 1
        <5>1. j \in 1..r /\ k = j
          BY <3>1, <4>3
        <5>2. ch[s][j] = log[Place(s, k)] /\ Place(s, k) = b + j
          <6>1. \A x \in 1..Waiting(s) : ch[s][x] = log[Place(s, Taken(s) + x)]
            BY <1>2 DEF Placed
          <6>2. Place(s, k) = b + j
            BY <1>4, <5>1 DEF Place
          <6>3. QED
            BY <1>5, <1>8, <3>1, <5>1, <6>1, <6>2
        <5>3. QED
          BY <1>3, <2>3, <4>1, <5>1, <5>2
      <4>4. QED
        BY <4>2, <4>3
    <3>2. QED
      BY <1>8, <2>3, <3>1 DEF Placed
  <2>7. InLoop(s)'
    <3>1. b + (r + 1) = L - n + (i + 1) /\ i + 1 <= n
      BY <1>5, <2>1
    <3>2. ~AlreadySeen(s, log[b + 1])
      <4>1. CASE r = 0
        BY <1>7, <1>11, <2>1, <4>1
      <4>2. CASE r # 0
        <5>1. r > 0
          BY <4>2
        <5>2. QED
          BY <1>2, <1>4, <5>1 DEF InLoop
      <4>3. QED
        BY <4>1, <4>2
    <3>3. /\ idx' = i + 1 /\ bufLen' = n /\ log' = log /\ fromSeq' = fromSeq
          /\ s \notin subs' /\ closes'[s] = 0 /\ got'[s] = <<>>
      BY <1>2, <1>3, <1>4 DEF InLoop
    <3>4. QED
      BY <2>2, <2>3, <3>1, <3>2, <3>3 DEF InLoop, AlreadySeen
  <2>8. LeftOut(s)'
    BY <1>1, <1>2, <1>3, <1>11 DEF LeftOut, AlreadySeen
  <2>9. QED
    BY <1>1, <2>5, <2>6, <2>7, <2>8, ReplayOthers
<1>12. CASE Full(s) /\ UNCHANGED <<ch, base, replayed>>
  <2>1. Runs(s)' /\ Placed(s)'
    BY <1>1, <1>2, <1>3, <1>12, OtherSub
  <2>2. InLoop(s)'
    <3>1. Full(s)' /\ Waiting(s)' = Waiting(s)
      BY <1>12 DEF Full, Waiting
    <3>2. i + 1 <= n /\ b + r <= L - n + (i + 1)
      BY <1>5
    <3>3. QED
      BY <1>2, <1>3, <1>4, <1>12, <3>1, <3>2 DEF InLoop, AlreadySeen
  <2>3. LeftOut(s)'
    BY <1>1, <1>2, <1>3, <1>12 DEF LeftOut, AlreadySeen
  <2>4. QED
    BY <1>1, <2>1, <2>2, <2>3, ReplayOthers
<1>13. QED
  BY <1>1, <1>4, <1>10, <1>11, <1>12 DEF ReplayStep

\* A receive moves a frame from the channel to the consumer, and its place in
\* the log with it.
LEMMA ReceiveInv ==
  ASSUME IInv, TypeOK', NEW s \in Subs, Receive(s)
  PROVE  IInv'
<1>1. /\ UNCHANGED <<seq, buf, bufHead, bufLen, log, mu, idx, created, fromSeq, joined, base,
                     replayed, subs, closes>>
      /\ s # mu /\ ch[s] # <<>>
      /\ got' = [got EXCEPT ![s] = Append(@, Head(ch[s]))]
      /\ ch' = [ch EXCEPT ![s] = Tail(@)]
  BY DEF Receive, ringVars, loopVars, subVars
<1>2. got \in [Subs -> Seq(Nat)] /\ ch \in [Subs -> Seq(Nat)]
  BY DEF IInv, TypeOK, ChanTypes
<1>3. s \in created
  BY <1>1 DEF IInv, Unused
<1>4. \A t \in Subs : t # s => got'[t] = got[t] /\ ch'[t] = ch[t]
  BY <1>1, <1>2
<1>5. PICK q \in Seq(Nat), c \in Seq(Nat) : q = got[s] /\ c = ch[s]
  BY <1>2
<1>6. got'[s] = Append(q, c[1]) /\ ch'[s] = Tail(c) /\ c # <<>>
  BY <1>1, <1>2, <1>5
<1>7. PICK T \in Nat, W \in Nat :
        /\ T = Taken(s) /\ W = Waiting(s) /\ W > 0
        /\ Taken(s)' = T + 1 /\ Waiting(s)' = W - 1
        /\ \A i \in 1..T : got'[s][i] = got[s][i]
        /\ got'[s][T + 1] = ch[s][1]
        /\ \A j \in 1..(W - 1) : ch'[s][j] = ch[s][j + 1]
  <2>1. Len(c) > 0 /\ Len(c) \in Nat /\ Len(q) \in Nat
    BY <1>6
  <2>2. /\ Len(Append(q, c[1])) = Len(q) + 1
        /\ \A i \in 1..Len(q) : Append(q, c[1])[i] = q[i]
        /\ Append(q, c[1])[Len(q) + 1] = c[1]
    BY <2>1
  <2>3. /\ Len(Tail(c)) = Len(c) - 1
        /\ \A j \in 1..(Len(c) - 1) : Tail(c)[j] = c[j + 1]
    BY <1>6, <2>1
  <2>4. /\ Taken(s) = Len(q) /\ Waiting(s) = Len(c)
        /\ Taken(s)' = Len(Append(q, c[1])) /\ Waiting(s)' = Len(Tail(c))
    BY <1>5, <1>6 DEF Taken, Waiting
  <2>5. /\ Taken(s)' = Len(q) + 1 /\ Waiting(s)' = Len(c) - 1
        /\ \A i \in 1..Len(q) : got'[s][i] = got[s][i]
        /\ got'[s][Len(q) + 1] = ch[s][1]
        /\ \A j \in 1..(Len(c) - 1) : ch'[s][j] = ch[s][j + 1]
    BY <1>5, <1>6, <2>2, <2>3, <2>4
  <2>6. QED
    BY <2>1, <2>4, <2>5
<1>8. \A t \in Subs : Count(t)' = Count(t)
  <2>1. ASSUME NEW t \in Subs PROVE Count(t)' = Count(t)
    <3>1. CASE t = s
      <4>1. (T + 1) + (W - 1) = T + W
        OBVIOUS
      <4>2. QED
        BY <1>7, <3>1, <4>1 DEF Count
    <3>2. CASE t # s
      BY <1>4, <3>2 DEF Count, Taken, Waiting
    <3>3. QED
      BY <3>1, <3>2
  <2>2. QED
    BY <2>1
<1>9. LogInOrder' /\ RingHolds'
  BY <1>1 DEF IInv, LogInOrder, RingHolds, At, Slot
<1>10. ASSUME NEW t \in Subs
       PROVE  Runs(t)'
  <2>1. Runs(t)
    BY DEF IInv
  <2>2. QED
    BY <1>1, <1>8, <2>1 DEF Runs
<1>11. Placed(s)'
  <2>1. /\ \A i \in 1..T : got[s][i] = log[Place(s, i)]
        /\ \A j \in 1..W : ch[s][j] = log[Place(s, T + j)]
    BY <1>7 DEF IInv, Placed
  <2>2. ASSUME NEW k PROVE Place(s, k)' = Place(s, k)
    BY <1>1 DEF Place
  <2>3. ASSUME NEW i \in 1..(T + 1)
        PROVE  got'[s][i] = log[Place(s, i)]
    <3>1. CASE i = T + 1
      <4>1. 1 \in 1..W
        BY <1>7
      <4>2. QED
        BY <1>7, <2>1, <3>1, <4>1
    <3>2. CASE i # T + 1
      <4>1. i \in 1..T
        BY <3>2
      <4>2. QED
        BY <1>7, <2>1, <4>1
    <3>3. QED
      BY <3>1, <3>2
  <2>4. ASSUME NEW j \in 1..(W - 1), NEW k, k = (T + 1) + j
        PROVE  ch'[s][j] = log[Place(s, k)]
    <3>1. j + 1 \in 1..W /\ k = T + (j + 1)
      BY <1>7, <2>4
    <3>2. QED
      BY <1>7, <2>1, <3>1
  <2>5. /\ \A i \in 1..(T + 1) : got'[s][i] = log'[Place(s, i)']
    BY <1>1, <2>2, <2>3
  <2>6. ASSUME NEW j \in 1..(W - 1), NEW k, k = (T + 1) + j
        PROVE  ch'[s][j] = log'[Place(s, k)']
    <3>1. ch'[s][j] = log[Place(s, k)]
      BY <2>4, <2>6
    <3>2. Place(s, k)' = Place(s, k) /\ log' = log
      BY <1>1, <2>2
    <3>3. QED
      BY <3>1, <3>2
  <2>7. QED
    BY <1>7, <2>5, <2>6 DEF Placed
<1>12. ASSUME NEW t \in Subs
       PROVE  Placed(t)'
  <2>1. CASE t = s
    BY <1>11, <2>1
  <2>2. CASE t # s
    BY <1>1, <1>4, <2>2, OtherSub DEF IInv
  <2>3. QED
    BY <2>1, <2>2
<1>13. \A t \in Subs \ created' : Unused(t)'
  BY <1>1, <1>3, <1>4 DEF IInv, Unused
<1>14. (mu # NoSub => InLoop(mu))'
  <2>1. ASSUME mu # NoSub PROVE InLoop(mu)'
    <3>1. InLoop(mu) /\ mu \in Subs /\ mu # s
      BY <1>1, <2>1 DEF IInv, TypeOK, SubTypes
    <3>2. got'[mu] = got[mu] /\ ch'[mu] = ch[mu] /\ mu' = mu
      BY <1>1, <1>4, <3>1
    <3>3. QED
      BY <1>1, <3>1, <3>2 DEF InLoop, Full, AlreadySeen, Waiting
  <2>2. QED
    BY <1>1, <2>1
<1>15. \A t \in created' : LeftOut(t)'
  BY <1>1 DEF IInv, LeftOut, AlreadySeen
<1>16. \A t \in subs' : (Count(t) - replayed[t] = Len(log) - joined[t])'
  <2>1. subs \subseteq Subs
    BY DEF IInv, TypeOK, ChanTypes, SubTypes
  <2>2. QED
    BY <1>1, <1>8, <2>1 DEF IInv
<1>17. CloseOnce'
  BY <1>1 DEF IInv, CloseOnce
<1>18. QED
  BY <1>9, <1>10, <1>12, <1>13, <1>14, <1>15, <1>16, <1>17 DEF IInv

\* The steps that neither move a frame nor run a Subscribe.
LEMMA QuietSteps ==
  ASSUME IInv, TypeOK',
         \/ PublishFails
         \/ \E s \in Subs : Cancel(s) \/ EndContext(s)
         \/ CloseAll
         \/ UNCHANGED vars
  PROVE  IInv'
<1>1. CloseOnce /\ subs \subseteq created /\ closes \in [Subs -> Nat] /\ created \subseteq Subs
  BY DEF IInv, TypeOK, ChanTypes, SubTypes
<1>2. CASE PublishFails
  <2>1. /\ UNCHANGED <<buf, bufHead, bufLen, log, created, fromSeq, joined, base, replayed,
                       mu, idx, ch, got, subs, closes>>
        /\ seq' = seq + 1
    BY <1>2 DEF PublishFails, loopVars, subVars
  <2>2. CloseOnce'
    BY <1>1, <2>1 DEF CloseOnce
  <2>3. QED
    BY <2>1, <2>2, QuietStep
<1>3. ASSUME NEW s \in Subs, Cancel(s)
      PROVE  IInv'
  <2>1. /\ UNCHANGED <<seq, buf, bufHead, bufLen, log, created, fromSeq, joined, base, replayed,
                       mu, idx, ch, got>>
        /\ mu = NoSub /\ s \in created
        /\ subs' = subs \ {s}
        /\ closes' = IF s \in subs THEN [closes EXCEPT ![s] = @ + 1] ELSE closes
    BY <1>3 DEF Cancel, ringVars, loopVars, subVars
  <2>2. \A t \in Subs : t # s => closes'[t] = closes[t]
    BY <1>1, <2>1
  <2>3. closes'[s] = IF s \in subs THEN closes[s] + 1 ELSE closes[s]
    BY <1>1, <2>1
  <2>4. CloseOnce'
    BY <1>1, <2>1, <2>2, <2>3 DEF CloseOnce
  <2>5. QED
    BY <2>1, <2>2, <2>4, QuietStep
<1>4. ASSUME NEW s \in Subs, EndContext(s)
      PROVE  IInv'
  <2>1. UNCHANGED <<seq, buf, bufHead, bufLen, log, created, fromSeq, joined, base, replayed,
                    mu, idx, ch, got, subs, closes>>
    BY <1>4 DEF EndContext, ringVars, loopVars, subVars
  <2>2. CloseOnce'
    BY <1>1, <2>1 DEF CloseOnce
  <2>3. QED
    BY <2>1, <2>2, QuietStep
<1>5. CASE CloseAll
  <2>1. /\ UNCHANGED <<seq, buf, bufHead, bufLen, log, created, fromSeq, joined, base, replayed,
                       mu, idx, ch, got>>
        /\ mu = NoSub
        /\ subs' = {}
        /\ closes' = [t \in Subs |-> IF t \in subs THEN closes[t] + 1 ELSE closes[t]]
    BY <1>5 DEF CloseAll, ringVars, loopVars, subVars
  <2>2. NoSub \notin Subs
    OBVIOUS
  <2>3. CloseOnce'
    BY <1>1, <2>1, <2>2 DEF CloseOnce
  <2>4. \A t \in Subs \ created : closes'[t] = closes[t]
    BY <1>1, <2>1
  <2>5. QED
    BY <2>1, <2>3, <2>4, QuietStep
<1>6. CASE UNCHANGED vars
  <2>1. UNCHANGED <<seq, buf, bufHead, bufLen, log, created, fromSeq, joined, base, replayed,
                    mu, idx, ch, got, subs, closes>>
    BY <1>6 DEF vars, ringVars, loopVars, subVars
  <2>2. CloseOnce'
    BY <1>1, <2>1 DEF CloseOnce
  <2>3. QED
    BY <2>1, <2>2, QuietStep
<1>7. QED
  BY <1>2, <1>3, <1>4, <1>5, <1>6

\* Initially nothing is published and nothing handed over.
LEMMA InitInv == Init => IInv
<1> SUFFICES ASSUME Init
             PROVE  IInv
  OBVIOUS
<1>1. TypeOK
  BY DEF Init, TypeOK, RingTypes, SubTypes, ChanTypes
<1>2. /\ log = <<>> /\ bufLen = 0 /\ created = {} /\ subs = {} /\ mu = NoSub
      /\ \A s \in Subs : /\ base[s] = 0 /\ replayed[s] = 0 /\ joined[s] = 0
                         /\ got[s] = <<>> /\ ch[s] = <<>> /\ closes[s] = 0
  BY DEF Init
<1>3. LogInOrder /\ RingHolds
  BY <1>2 DEF LogInOrder, RingHolds
<1>4. ASSUME NEW s \in Subs
      PROVE  Runs(s) /\ Placed(s) /\ Unused(s)
  <2>1. Taken(s) = Len(<<>>) /\ Waiting(s) = Len(<<>>)
    BY <1>2 DEF Taken, Waiting
  <2>2. Taken(s) = 0 /\ Waiting(s) = 0
    BY <2>1
  <2>3. Count(s) = 0
    BY <2>2 DEF Count
  <2>4. Runs(s)
    BY <1>2, <2>3 DEF Runs
  <2>5. QED
    BY <1>2, <2>2, <2>4 DEF Placed, Unused
<1>5. CloseOnce
  <2>1. ASSUME NEW s \in Subs
        PROVE  closes[s] <= 1 /\ closes[s] = 0
    BY <1>2
  <2>2. QED
    BY <2>1 DEF CloseOnce
<1>6. QED
  BY <1>1, <1>2, <1>3, <1>4, <1>5 DEF IInv

\* IInv is inductive.
LEMMA InvStep == IInv /\ [Next]_vars => IInv'
<1> SUFFICES ASSUME IInv, [Next]_vars
             PROVE  IInv'
  OBVIOUS
<1>1. TypeOK'
  BY TypeStep DEF IInv
<1>2. CASE Publish
  BY <1>1, <1>2, PublishInv
<1>3. CASE \E s \in Subs, from \in 0..(seq + 1) : SubscribeBegin(s, from)
  BY <1>1, <1>3, SubscribeBeginInv
<1>4. CASE ReplayStep
  BY <1>1, <1>4, ReplayStepInv
<1>5. CASE SubscribeEnd
  BY <1>1, <1>5, SubscribeEndInv
<1>6. CASE \E s \in Subs : Receive(s)
  BY <1>1, <1>6, ReceiveInv
<1>7. CASE PublishFails \/ (\E s \in Subs : Cancel(s) \/ EndContext(s)) \/ CloseAll \/ UNCHANGED vars
  BY <1>1, <1>7, QuietSteps
<1>8. QED
  BY <1>2, <1>3, <1>4, <1>5, <1>6, <1>7 DEF Next, CancelOnDone

\* The inductive invariant holds in every reachable state.
THEOREM InvCorrect == Spec => []IInv
BY InitInv, InvStep, PTL DEF Spec

----------------------------------------------------------------------------
(* The properties *)

\* No channel is closed twice, and none the bus still sends to is closed.
THEOREM ClosedOnce == Spec => []CloseOnce
<1>1. IInv => CloseOnce
  BY DEF IInv
<1>2. QED
  BY <1>1, InvCorrect, PTL

\* A replay that loses frames has a channel smaller than the ring.
THEOREM OverrunBound == Spec => []OverrunOnlyIfSmaller
<1>1. ASSUME IInv, NEW s \in created \ {mu}, base[s] + replayed[s] < joined[s]
      PROVE  ChanCap[s] < BufCap
  <2>1. LeftOut(s) /\ s \in Subs
    BY <1>1 DEF IInv, TypeOK, SubTypes
  <2>2. base[s] \in Nat /\ replayed[s] \in Nat /\ joined[s] \in Nat
    BY <1>1, <2>1, SubFacts DEF IInv
  <2>3. joined[s] <= base[s] + BufCap /\ replayed[s] = ChanCap[s]
    BY <1>1, <2>1, <2>2 DEF LeftOut
  <2>4. QED
    BY <1>1, <2>2, <2>3
<1>2. IInv => OverrunOnlyIfSmaller
  BY <1>1 DEF OverrunOnlyIfSmaller
<1>3. QED
  BY <1>2, InvCorrect, PTL

\* The ring holds exactly the newest end of what was published.
THEOREM RingCorrect == Spec => []RingIsLatest
<1>1. ASSUME IInv
      PROVE  Snapshot = SubSeq(log, Len(log) - bufLen + 1, Len(log))
  <2>1. log \in Seq(Nat) /\ bufLen \in Nat /\ bufLen <= Len(log) /\ Len(log) \in Nat
    BY <1>1 DEF IInv, TypeOK, RingTypes
  <2>2. PICK L \in Nat, n \in Nat : L = Len(log) /\ n = bufLen /\ n <= L
    BY <2>1
  <2>3. L - (L - n + 1) + 1 = n
    OBVIOUS
  <2>4. SubSeq(log, L - n + 1, L) = [i \in 1..n |-> log[(L - n + 1) + i - 1]]
    BY <2>3
  <2>5. ASSUME NEW i \in 1..n
        PROVE  At(i - 1) = log[(L - n + 1) + i - 1]
    <3>1. i - 1 \in 0..(n - 1) /\ L - n + 1 + (i - 1) = (L - n + 1) + i - 1
      OBVIOUS
    <3>2. QED
      BY <1>1, <2>2, <3>1 DEF IInv, RingHolds
  <2>6. QED
    BY <2>2, <2>4, <2>5 DEF Snapshot
<1>2. IInv => RingIsLatest
  BY <1>1 DEF RingIsLatest, IInv, RingHolds
<1>3. QED
  BY <1>2, InvCorrect, PTL

\* What the bus has handed over is the log at the places handed over.
LEMMA HandedIsLog ==
  ASSUME IInv, NEW s \in Subs
  PROVE  /\ Handed(s) \in Seq(Nat)
         /\ Len(Handed(s)) = Count(s)
         /\ \A k \in 1..Count(s) : Handed(s)[k] = log[Place(s, k)]
         /\ \A k \in 1..Count(s) : Place(s, k) \in 1..Len(log)
<1>1. PICK q \in Seq(Nat), c \in Seq(Nat) : q = got[s] /\ c = ch[s]
  BY DEF IInv, TypeOK, ChanTypes
<1>2. PICK T \in Nat, W \in Nat : T = Len(q) /\ W = Len(c)
  OBVIOUS
<1>3. T = Taken(s) /\ W = Waiting(s) /\ Count(s) = T + W /\ Handed(s) = q \o c
  BY <1>1, <1>2 DEF Taken, Waiting, Count, Handed
<1>4. /\ q \o c \in Seq(Nat)
      /\ Len(q \o c) = T + W
      /\ \A k \in 1..T : (q \o c)[k] = q[k]
      /\ \A k \in 1..(T + W) : ~(k <= T) => (q \o c)[k] = c[k - T]
  BY <1>2
<1>5. /\ \A k \in 1..T : q[k] = log[Place(s, k)]
      /\ \A j \in 1..W : c[j] = log[Place(s, T + j)]
  BY <1>1, <1>3 DEF IInv, Placed
<1>6. ASSUME NEW k \in 1..(T + W)
      PROVE  Handed(s)[k] = log[Place(s, k)]
  <2>1. CASE k <= T
    BY <1>3, <1>4, <1>5, <2>1
  <2>2. CASE ~(k <= T)
    <3>1. k - T \in 1..W /\ T + (k - T) = k
      BY <2>2
    <3>2. c[k - T] = log[Place(s, k)]
      BY <1>5, <3>1
    <3>3. QED
      BY <1>3, <1>4, <2>2, <3>2
  <2>3. QED
    BY <2>1, <2>2
<1>7. QED
  BY <1>3, <1>4, <1>6, PlaceInLog

\* Places grow: the replay ends before the live frames begin.
LEMMA PlacesGrow ==
  ASSUME IInv, NEW s \in Subs, NEW i \in 1..Count(s), NEW j \in 1..Count(s), i < j
  PROVE  Place(s, i) < Place(s, j)
<1>1. PICK b \in Nat, r \in Nat, m \in Nat, c \in Nat :
        b = base[s] /\ r = replayed[s] /\ m = joined[s] /\ c = Count(s)
  BY SubFacts DEF IInv
<1>2. b + r <= m /\ i \in Nat /\ j \in Nat
  BY <1>1 DEF IInv, Runs
<1>3. /\ Place(s, i) = IF i <= r THEN b + i ELSE m + (i - r)
      /\ Place(s, j) = IF j <= r THEN b + j ELSE m + (j - r)
  BY <1>1 DEF Place
<1>4. QED
  BY <1>2, <1>3

\* A consumer is never shown a frame twice, nor an older after a newer one.
THEOREM OrderCorrect == Spec => []InOrder
<1>1. ASSUME IInv, NEW s \in Subs, NEW i \in DOMAIN Handed(s), NEW j \in DOMAIN Handed(s), i < j
      PROVE  Handed(s)[i] < Handed(s)[j]
  <2>1. i \in 1..Count(s) /\ j \in 1..Count(s)
    <3>1. Handed(s) \in Seq(Nat) /\ Len(Handed(s)) = Count(s)
      BY <1>1, HandedIsLog
    <3>2. QED
      BY <3>1
  <2>2. /\ Handed(s)[i] = log[Place(s, i)] /\ Place(s, i) \in 1..Len(log)
        /\ Handed(s)[j] = log[Place(s, j)] /\ Place(s, j) \in 1..Len(log)
    BY <1>1, <2>1, HandedIsLog
  <2>3. Place(s, i) < Place(s, j)
    BY <1>1, <2>1, PlacesGrow
  <2>4. QED
    BY <1>1, <2>2, <2>3 DEF IInv, LogInOrder
<1>2. IInv => InOrder
  BY <1>1 DEF InOrder
<1>3. QED
  BY <1>2, InvCorrect, PTL

\* A slow consumer never misses a frame and then sees a later one.
THEOREM LiveRunCorrect == Spec => []LiveRunUnbroken
<1>1. ASSUME IInv, NEW s \in created \ {mu}
      PROVE  \E n \in joined[s]..Len(log) :
               /\ SubSeq(Handed(s), replayed[s] + 1, Len(Handed(s)))
                    = SubSeq(log, joined[s] + 1, n)
               /\ s \in subs => n = Len(log)
  <2>1. s \in Subs /\ Runs(s)
    BY <1>1 DEF IInv, TypeOK, SubTypes
  <2>2. PICK r \in Nat, m \in Nat, c \in Nat, L \in Nat :
          r = replayed[s] /\ m = joined[s] /\ c = Count(s) /\ L = Len(log)
    BY <1>1, <2>1, SubFacts DEF IInv
  <2>3. m <= L /\ r <= c /\ c - r <= L - m
    BY <2>1, <2>2 DEF Runs
  <2>4. PICK n \in Nat : n = m + (c - r)
    BY <2>3
  <2>5. n \in m..L /\ c - (r + 1) + 1 = n - (m + 1) + 1
    BY <2>3, <2>4
  <2>6. s \in subs => n = L
    <3>1. s \in subs => c - r = L - m
      BY <1>1, <2>2 DEF IInv
    <3>2. QED
      BY <2>4, <3>1
  <2>7. /\ Handed(s) \in Seq(Nat) /\ Len(Handed(s)) = c
        /\ \A k \in 1..c : Handed(s)[k] = log[Place(s, k)]
    BY <1>1, <2>1, <2>2, HandedIsLog
  <2>8. ASSUME NEW i \in 1..(c - (r + 1) + 1)
        PROVE  Handed(s)[(r + 1) + i - 1] = log[(m + 1) + i - 1]
    <3>1. (r + 1) + i - 1 \in 1..c /\ ~((r + 1) + i - 1 <= r)
      BY <2>3
    <3>2. Place(s, (r + 1) + i - 1) = m + ((r + 1) + i - 1 - r)
      BY <2>2, <3>1 DEF Place
    <3>3. m + ((r + 1) + i - 1 - r) = (m + 1) + i - 1
      OBVIOUS
    <3>4. QED
      BY <2>7, <3>1, <3>2, <3>3
  <2>9. SubSeq(Handed(s), r + 1, c) = SubSeq(log, m + 1, n)
    <3>1. SubSeq(Handed(s), r + 1, c) = [i \in 1..(c - (r + 1) + 1) |-> Handed(s)[(r + 1) + i - 1]]
      OBVIOUS
    <3>2. SubSeq(log, m + 1, n) = [i \in 1..(n - (m + 1) + 1) |-> log[(m + 1) + i - 1]]
      OBVIOUS
    <3>3. QED
      BY <2>5, <2>8, <3>1, <3>2
  <2>10. QED
    BY <2>2, <2>5, <2>6, <2>7, <2>9
<1>2. IInv => LiveRunUnbroken
  BY <1>1 DEF LiveRunUnbroken
<1>3. QED
  BY <1>2, InvCorrect, PTL

\* A replay hands over everything retained that is newer than the resume
\* point, unless it fills the channel.
THEOREM ReplayCorrect == Spec => []ReplayComplete
<1>1. ASSUME IInv, NEW s \in created \ {mu}, NEW n \in 1..joined[s],
             n + BufCap > joined[s], log[n] > fromSeq[s], replayed[s] # ChanCap[s]
      PROVE  \E i \in 1..replayed[s] : Handed(s)[i] = log[n]
  <2>1. s \in Subs /\ LeftOut(s) /\ Runs(s) /\ fromSeq[s] \in Nat /\ log \in Seq(Nat)
    BY <1>1 DEF IInv, TypeOK, SubTypes, RingTypes
  <2>2. PICK b \in Nat, r \in Nat, m \in Nat, c \in Nat, L \in Nat :
          /\ b = base[s] /\ r = replayed[s] /\ m = joined[s] /\ c = Count(s) /\ L = Len(log)
    BY <1>1, <2>1, SubFacts DEF IInv
  <2>3. b + r = m /\ m <= L /\ r <= c
    BY <1>1, <2>1, <2>2 DEF LeftOut, Runs
  <2>4. ~(n <= b)
    <3>1. SUFFICES ASSUME n <= b PROVE FALSE
      OBVIOUS
    <3>2. n \in 1..b /\ n \in 1..L /\ ~(n + BufCap <= m)
      BY <1>1, <2>2, <2>3, <3>1
    <3>3. AlreadySeen(s, log[n])
      BY <2>1, <2>2, <3>2 DEF LeftOut
    <3>4. log[n] \in Nat
      BY <2>1, <2>2, <3>2
    <3>5. QED
      BY <1>1, <2>1, <3>3, <3>4 DEF AlreadySeen
  <2>5. n - b \in 1..r /\ n - b \in 1..c /\ b + (n - b) = n
    BY <2>2, <2>3, <2>4
  <2>6. Place(s, n - b) = n
    BY <2>2, <2>5 DEF Place
  <2>7. Handed(s)[n - b] = log[Place(s, n - b)]
    BY <1>1, <2>1, <2>2, <2>5, HandedIsLog
  <2>8. QED
    BY <2>2, <2>5, <2>6, <2>7
<1>2. IInv => ReplayComplete
  BY <1>1 DEF ReplayComplete
<1>3. QED
  BY <1>2, InvCorrect, PTL

----------------------------------------------------------------------------
(* The bus implements FrameStream *)

\* A receive is a read of the next place of FrameStream.
LEMMA ReceiveReads ==
  ASSUME IInv, NEW s \in Subs, Receive(s)
  PROVE  Stream!Read(s)
<1>1. /\ UNCHANGED <<log, created, joined, base, replayed>>
      /\ s # mu /\ ch[s] # <<>>
      /\ got' = [got EXCEPT ![s] = Append(@, Head(ch[s]))]
  BY DEF Receive, ringVars, subVars
<1>2. s \in created
  BY <1>1 DEF IInv, Unused
<1>3. PICK q \in Seq(Nat), c \in Seq(Nat) : q = got[s] /\ c = ch[s]
  BY DEF IInv, TypeOK, ChanTypes
<1>4. PICK T \in Nat, W \in Nat : T = Len(q) /\ W = Len(c) /\ W > 0
  BY <1>1, <1>3
<1>5. PICK b \in Nat, r \in Nat, m \in Nat, L \in Nat :
        b = base[s] /\ r = replayed[s] /\ m = joined[s] /\ L = Len(log)
  BY SubFacts DEF IInv
<1>6. T = Taken(s) /\ W = Waiting(s)
  BY <1>3, <1>4 DEF Taken, Waiting
<1>7. T + 1 \in 1..Count(s)
  BY <1>4, <1>6 DEF Count
<1>8. PICK n : n = Place(s, T + 1)
  OBVIOUS
<1>9. n \in 1..L
  BY <1>5, <1>7, <1>8, PlaceInLog
<1>10. c[1] = log[n]
  <2>1. \A j \in 1..W : c[j] = log[Place(s, T + j)]
    BY <1>3, <1>6 DEF IInv, Placed
  <2>2. 1 \in 1..W
    BY <1>4
  <2>3. QED
    BY <1>8, <2>1, <2>2
<1>11. b + r <= m
  BY <1>5 DEF IInv, Runs
<1>12. n = IF T + 1 <= r THEN b + (T + 1) ELSE m + (T + 1 - r)
  <2>1. PICK k \in Nat : k = T + 1
    OBVIOUS
  <2>2. Place(s, k) = IF k <= r THEN b + k ELSE m + (k - r)
    BY <1>5 DEF Place
  <2>3. QED
    BY <1>8, <2>1, <2>2
<1>13. LastPlace(s) = IF T = 0 THEN 0 ELSE IF T <= r THEN b + T ELSE m + (T - r)
  BY <1>3, <1>4, <1>5 DEF LastPlace, Place
<1>14. \/ T = 0 /\ n <= m + 1
       \/ T # 0 /\ n = LastPlace(s) + 1
       \/ LastPlace(s) <= m /\ n = m + 1
  <2>1. CASE T + 1 <= r
    <3>1. n = b + (T + 1) /\ T <= r
      BY <1>12, <2>1
    <3>2. CASE T = 0
      BY <1>11, <2>1, <3>1, <3>2
    <3>3. CASE T # 0
      <4>1. LastPlace(s) = b + T
        BY <1>13, <3>1, <3>3
      <4>2. QED
        BY <3>1, <3>3, <4>1
    <3>4. QED
      BY <3>2, <3>3
  <2>2. CASE ~(T + 1 <= r)
    <3>1. n = m + (T + 1 - r)
      BY <1>12, <2>2
    <3>2. CASE T <= r
      <4>1. T = r
        BY <2>2, <3>2
      <4>2. n = m + 1
        BY <3>1, <4>1
      <4>3. LastPlace(s) <= m
        BY <1>11, <1>13, <4>1
      <4>4. QED
        BY <4>2, <4>3
    <3>3. CASE ~(T <= r)
      <4>1. T # 0 /\ LastPlace(s) = m + (T - r)
        BY <1>13, <3>3
      <4>2. m + (T + 1 - r) = (m + (T - r)) + 1
        OBVIOUS
      <4>3. QED
        BY <3>1, <4>1, <4>2
    <3>4. QED
      BY <3>2, <3>3
  <2>3. QED
    BY <2>1, <2>2
<1>15. n \in Stream!NextPlaces(s)
  <2>1. n \in DOMAIN log
    BY <1>5, <1>9 DEF IInv, TypeOK, RingTypes
  <2>2. (T = 0) <=> (got[s] = <<>>)
    BY <1>3, <1>4
  <2>3. QED
    BY <1>5, <1>14, <2>1, <2>2 DEF Stream!NextPlaces
<1>16. /\ got[s] = q /\ got'[s] = Append(q, c[1])
       /\ \A t \in Subs : t # s => got'[t] = got[t]
       /\ got' = [got EXCEPT ![s] = Append(@, log[n])]
  <2>1. got \in [Subs -> Seq(Nat)]
    BY DEF IInv, TypeOK, ChanTypes
  <2>2. Head(ch[s]) = c[1]
    BY <1>1, <1>3
  <2>3. got' = [got EXCEPT ![s] = Append(got[s], c[1])]
    BY <1>1, <2>2
  <2>4. got'[s] = Append(got[s], c[1]) /\ \A t \in Subs : t # s => got'[t] = got[t]
    BY <2>1, <2>3
  <2>5. QED
    BY <1>3, <1>10, <2>3, <2>4
<1>17. LastPlace(s)' = n
  <2>1. c[1] \in Nat
    BY <1>4
  <2>2. Len(Append(q, c[1])) = T + 1
    BY <1>4, <2>1
  <2>3. Append(q, c[1]) # <<>>
    <3>1. Len(<<>>) = 0 /\ T + 1 # 0
      OBVIOUS
    <3>2. QED
      BY <2>2, <3>1
  <2>4. PICK k \in Nat : k = T + 1
    OBVIOUS
  <2>5. Len(got'[s]) = k /\ got'[s] # <<>>
    BY <1>16, <2>2, <2>3, <2>4
  <2>6. Place(s, k)' = n
    <3>1. Place(s, k)' = Place(s, k)
      BY <1>1 DEF Place
    <3>2. QED
      BY <1>8, <2>4, <3>1
  <2>7. LastPlace(s)' = Place(s, k)'
    BY <2>5 DEF LastPlace, Place
  <2>8. QED
    BY <2>6, <2>7
<1>18. \A t \in Subs : t # s => LastPlace(t)' = LastPlace(t)
  BY <1>1, <1>16 DEF LastPlace, Place
<1>19. [t \in Subs |-> LastPlace(t)]' = [[t \in Subs |-> LastPlace(t)] EXCEPT ![s] = n]
  BY <1>17, <1>18
<1>20. QED
  BY <1>1, <1>2, <1>15, <1>16, <1>19 DEF Stream!Read

\* Every step of the bus is a step of FrameStream or leaves it alone.
LEMMA StreamStep == IInv /\ [Next]_vars => [Stream!Next]_(Stream!vars)
<1> SUFFICES ASSUME IInv, [Next]_vars
             PROVE  [Stream!Next]_(Stream!vars)
  OBVIOUS
<1>1. ASSUME UNCHANGED <<log, created, joined, got>>,
             \A s \in Subs : got[s] # <<>> => base'[s] = base[s] /\ replayed'[s] = replayed[s]
      PROVE  UNCHANGED Stream!vars
  <2>1. \A s \in Subs : LastPlace(s)' = LastPlace(s)
    BY <1>1 DEF LastPlace, Place
  <2>2. [s \in Subs |-> LastPlace(s)]' = [s \in Subs |-> LastPlace(s)]
    BY <2>1
  <2>3. QED
    BY <1>1, <2>2 DEF Stream!vars
<1>2. CASE Publish
  <2>1. /\ log' = Append(log, seq + 1) /\ seq < MaxSeq
        /\ UNCHANGED <<created, joined, base, replayed, got>>
    BY <1>2 DEF Publish, subVars
  <2>2. seq \in Nat /\ log \in Seq(Nat) /\ \A i \in 1..Len(log) : log[i] <= seq
    BY DEF IInv, TypeOK, RingTypes, LogInOrder
  <2>3. seq + 1 \in 1..MaxSeq
    BY <2>1, <2>2
  <2>4. \A n \in DOMAIN log : log[n] < seq + 1
    BY <2>2
  <2>5. [s \in Subs |-> LastPlace(s)]' = [s \in Subs |-> LastPlace(s)]
    BY <2>1 DEF LastPlace, Place
  <2>6. Stream!Extend(seq + 1)
    BY <2>1, <2>4, <2>5 DEF Stream!Extend
  <2>7. QED
    BY <2>3, <2>6 DEF Stream!Next
<1>3. ASSUME NEW s \in Subs, NEW from \in 0..(seq + 1), SubscribeBegin(s, from)
      PROVE  Stream!Open(s)
  <2>1. /\ s \notin created /\ created' = created \cup {s}
        /\ joined' = [joined EXCEPT ![s] = Len(log)]
        /\ base' = [base EXCEPT ![s] = Len(log) - bufLen]
        /\ UNCHANGED <<log, replayed, got>>
    BY <1>3 DEF SubscribeBegin, ringVars
  <2>2. got[s] = <<>>
    BY <2>1 DEF IInv, Unused
  <2>3. base \in [Subs -> Nat] /\ joined \in [Subs -> Nat]
    BY DEF IInv, TypeOK, SubTypes
  <2>4. \A t \in Subs : LastPlace(t)' = LastPlace(t)
    BY <2>1, <2>2, <2>3 DEF LastPlace, Place
  <2>5. [t \in Subs |-> LastPlace(t)]' = [t \in Subs |-> LastPlace(t)]
    BY <2>4
  <2>6. QED
    BY <2>1, <2>5 DEF Stream!Open
<1>4. CASE ReplayStep
  <2>1. /\ UNCHANGED <<log, created, joined, got>>
        /\ base' = base \/ base' = [base EXCEPT ![mu] = @ + 1]
        /\ replayed' = replayed \/ replayed' = [replayed EXCEPT ![mu] = @ + 1]
    BY <1>4 DEF ReplayStep, ringVars
  <2>2. base \in [Subs -> Nat] /\ replayed \in [Subs -> Nat]
    BY DEF IInv, TypeOK, SubTypes
  <2>3. got[mu] = <<>>
    BY <1>4 DEF ReplayStep, IInv, InLoop
  <2>4. QED
    BY <1>1, <2>1, <2>2, <2>3
<1>5. CASE \E s \in Subs : Receive(s)
  BY <1>5, ReceiveReads DEF Stream!Next
<1>6. CASE \/ PublishFails \/ SubscribeEnd \/ CloseAll \/ UNCHANGED vars
           \/ \E s \in Subs : Cancel(s) \/ EndContext(s)
  <2>1. UNCHANGED <<log, created, joined, got, base, replayed>>
    BY <1>6 DEF PublishFails, SubscribeEnd, CloseAll, Cancel, EndContext, vars, ringVars, subVars
  <2>2. QED
    BY <1>1, <2>1
<1>7. QED
  BY <1>2, <1>3, <1>4, <1>5, <1>6 DEF Next, CancelOnDone, Stream!Next

\* Whatever consumers do, each reads along the log of published frames and
\* skips at most once, between its replay and the live frames.
THEOREM Refinement == Spec => StreamSpec
<1>1. Init => Stream!Init
  BY DEF Init, Stream!Init, LastPlace
<1>2. QED
  BY <1>1, InvCorrect, StreamStep, PTL DEF Spec, StreamSpec, Stream!Spec
=============================================================================
