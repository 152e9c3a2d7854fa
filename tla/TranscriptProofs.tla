-------------------------- MODULE TranscriptProofs --------------------------
(***************************************************************************)
(* Proofs about Transcript, for files and lines of any length and any set   *)
(* of lines that the scanner cannot take.                                   *)
(***************************************************************************)
EXTENDS Transcript, WellFoundedInduction, SequenceTheorems, TLAPS

USE TranscriptAssumption

\* A set of numbers that is not empty has a least one.
LEMMA LeastNumber ==
  ASSUME NEW T, T \subseteq Nat, T # {}
  PROVE  Min(T) \in T /\ \A y \in T : Min(T) <= y
<1>1. PICK x \in T : \A y \in T : <<y, x>> \notin OpToRel(<, Nat)
  BY NatLessThanWellFounded, WFMin, Zenon
<1>2. x \in Nat /\ \A y \in T : y \in Nat
  OBVIOUS
<1>3. \A y \in T : <<y, x>> \in Nat \X Nat /\ <<y, x>>[1] = y /\ <<y, x>>[2] = x
  BY <1>2
<1>4. \A y \in T : ~(<<y, x>>[1] < <<y, x>>[2])
  BY <1>1, <1>3, Zenon DEF OpToRel
<1>5. \A y \in T : x <= y
  BY <1>2, <1>4
<1>6. QED
  BY <1>5 DEF Min

\* The first newline of the rest of the file lies in it.
LEMMA NewlineLies ==
  ASSUME Complete, NEW S, Rest \in Seq(S)
  PROVE  SelectInSeq(Rest, LAMBDA b : b = Newline) \in 1..Len(Rest)
<1> DEFINE I == {j \in 1..Len(Rest) : Rest[j] = Newline}
<1>1. I \subseteq Nat /\ (DOMAIN Rest = 1..Len(Rest) => I # {})
  BY DEF Complete
<1>2. DOMAIN Rest = 1..Len(Rest)
  OBVIOUS
<1>3. Min(I) \in I
  <2> HIDE DEF I
  <2> QED
    BY <1>1, <1>2, LeastNumber
<1>4. SelectInSeq(Rest, LAMBDA b : b = Newline) = Min(I)
  BY <1>1, <1>2 DEF SelectInSeq
<1>5. QED
  BY <1>3, <1>4

----------------------------------------------------------------------------
Byte == {Newline} \cup (1..MaxLines) \X (1..LineLen)

\* The part of the type invariant that the writer can disturb.
FileOK ==
  /\ exists \in BOOLEAN
  /\ kind \in Seq(Kinds) /\ Len(kind) <= MaxLines
  /\ file \in Seq(Byte)
  /\ file # <<>> => kind # <<>>

\* The part that depends on the size of the file.
PlaceOK ==
  /\ cancelled \in BOOLEAN
  /\ pc \in {"wait", "stat", "scan", "done"}
  /\ off \in 0..(Size + 1) /\ at \in 0..Size
  /\ off = Size + 1 => torn # {}
  /\ ever \subseteq DOMAIN kind /\ torn \subseteq DOMAIN kind

\* The bytes of a line.
LEMMA LineKind ==
  ASSUME NEW k \in 1..MaxLines
  PROVE  Line(k) \in Seq(Byte) /\ Line(k) \o <<Newline>> \in Seq(Byte)
<1>1. Line(k) \in Seq(Byte)
  BY DEF Line, Byte
<1>2. <<Newline>> \in Seq(Byte)
  BY DEF Byte
<1>3. QED
  BY <1>1, <1>2, ConcatProperties

\* The writer only adds bytes, and begins a line before it adds any.
LEMMA WriterStep ==
  ASSUME FileOK, Creates \/ (\E t \in Kinds : Begins(t)) \/ Goes
  PROVE  /\ FileOK' /\ Len(file') >= Len(file) /\ DOMAIN kind \subseteq DOMAIN kind'
         /\ UNCHANGED <<pc, off, at, cancelled, out, ever, torn>>
<1> USE DEF FileOK
<1>1. CASE Creates
  BY <1>1 DEF Creates
<1>2. ASSUME NEW t \in Kinds, Begins(t)
      PROVE  /\ FileOK' /\ Len(file') >= Len(file) /\ DOMAIN kind \subseteq DOMAIN kind'
             /\ UNCHANGED <<pc, off, at, cancelled, out, ever, torn>>
  <2>1. /\ exists' = exists /\ kind' = Append(kind, t) /\ Len(kind) < MaxLines
        /\ UNCHANGED <<pc, off, at, cancelled, out, ever, torn>>
        /\ \/ file' = file \o (Line(Len(kind')) \o <<Newline>>)
           \/ file' = Append(file, <<Len(kind'), 1>>)
    <3>1. (file \o Line(Len(kind'))) \o <<Newline>> = file \o (Line(Len(kind')) \o <<Newline>>)
      <4>1. Len(kind') \in 1..MaxLines
        BY <1>2 DEF Begins
      <4>2. Line(Len(kind')) \in Seq(Byte) /\ <<Newline>> \in Seq(Byte)
        BY <4>1, LineKind DEF Byte
      <4>3. QED
        BY <4>2, ConcatAssociative
    <3>2. QED
      BY <1>2, <3>1 DEF Begins
  <2>2. /\ kind' \in Seq(Kinds) /\ Len(kind') = Len(kind) + 1 /\ Len(kind) \in Nat
        /\ DOMAIN kind = 1..Len(kind) /\ DOMAIN kind' = 1..Len(kind')
    BY <2>1
  <2>3. Len(kind') \in 1..MaxLines /\ kind' # <<>>
    BY <2>1, <2>2
  <2>4. file' \in Seq(Byte) /\ Len(file') >= Len(file)
    <3>1. CASE file' = file \o (Line(Len(kind')) \o <<Newline>>)
      <4>1. Line(Len(kind')) \o <<Newline>> \in Seq(Byte)
        BY <2>3, LineKind
      <4>2. /\ file' \in Seq(Byte) /\ Len(file) \in Nat /\ Len(Line(Len(kind')) \o <<Newline>>) \in Nat
            /\ Len(file') = Len(file) + Len(Line(Len(kind')) \o <<Newline>>)
        BY <3>1, <4>1, ConcatProperties
      <4>3. QED
        BY <4>2
    <3>2. CASE file' = Append(file, <<Len(kind'), 1>>)
      <4>1. <<Len(kind'), 1>> \in Byte
        BY <2>3 DEF Byte
      <4>2. QED
        BY <3>2, <4>1
    <3>3. QED
      BY <2>1, <3>1, <3>2
  <2>5. QED
    BY <2>1, <2>2, <2>3, <2>4
<1>3. CASE Goes
  <2> DEFINE i == Last(file)[2]
             rest == [j \in 1..(LineLen - i) |-> <<Len(kind), i + j>>] \o <<Newline>>
  <2>1. /\ file # <<>> /\ Last(file) # Newline
        /\ file' = Append(file, Head(rest)) \/ file' = file \o rest
        /\ UNCHANGED <<exists, kind, pc, off, at, cancelled, out, ever, torn>>
    BY <1>3 DEF Goes, LineOpen
  <2>2. Len(file) \in Nat \ {0} /\ Last(file) = file[Len(file)]
    <3>1. file # <<>> /\ file \in Seq(Byte)
      BY <2>1
    <3> HIDE DEF FileOK
    <3>2. Len(file) \in Nat \ {0}
      BY <3>1
    <3>3. QED
      BY <3>2 DEF Last
  <2>3. Last(file) \in (1..MaxLines) \X (1..LineLen)
    BY <2>1, <2>2 DEF Byte
  <2>4. i \in 1..LineLen /\ LineLen - i \in Nat
    BY <2>3
  <2>5. Len(kind) \in 1..MaxLines
    <3>1. kind # <<>> /\ Len(kind) <= MaxLines /\ kind \in Seq(Kinds) /\ MaxLines \in Nat
      BY <2>1
    <3>2. Len(kind) \in Nat /\ Len(kind) # 0
      BY <3>1
    <3>3. QED
      BY <3>1, <3>2
  <2>6. \A j \in 1..(LineLen - i) : <<Len(kind), i + j>> \in Byte
    <3> HIDE DEF i
    <3> QED
      BY <2>4, <2>5 DEF Byte
  <2>7. /\ [j \in 1..(LineLen - i) |-> <<Len(kind), i + j>>] \in Seq(Byte)
        /\ <<Newline>> \in Seq(Byte) /\ Len(<<Newline>>) = 1
    <3> HIDE DEF i
    <3> QED
      BY <2>4, <2>6 DEF Byte
  <2>8. rest \in Seq(Byte) /\ rest # <<>>
    <3> DEFINE part == [j \in 1..(LineLen - i) |-> <<Len(kind), i + j>>]
    <3>1. part \in Seq(Byte)
      BY <2>7
    <3> HIDE DEF part
    <3>2. part \o <<Newline>> \in Seq(Byte) /\ part \o <<Newline>> # <<>>
      BY <2>7, <3>1, ConcatProperties, ConcatEqualIffEmpty
    <3>3. QED
      BY <3>2 DEF part
  <2> HIDE DEF rest
  <2>9. Head(rest) \in Byte /\ Len(rest) \in Nat
    BY <2>8, HeadTailProperties
  <2>10. file' \in Seq(Byte) /\ Len(file') >= Len(file)
    <3>1. CASE file' = Append(file, Head(rest))
      BY <2>9, <3>1
    <3>2. CASE file' = file \o rest
      <4>1. file' \in Seq(Byte) /\ Len(file') = Len(file) + Len(rest)
        BY <2>8, <3>2, ConcatProperties
      <4>2. QED
        BY <2>2, <2>9, <4>1
    <3>3. QED
      BY <2>1, <3>1, <3>2
  <2>11. kind # <<>>
    BY <2>1
  <2>12. QED
    BY <2>1, <2>10, <2>11
<1>4. QED
  BY <1>1, <1>2, <1>3

\* Where the pass is after a whole line.
LEMMA AfterWhole ==
  ASSUME FileOK, PlaceOK, Complete
  PROVE  After \in 1..Size
<1> DEFINE n == SelectInSeq(Rest, LAMBDA b : b = Newline)
<1>1. Size \in Nat /\ at \in 0..Size /\ \A j \in (at + 1)..Size : file[j] \in Byte
  BY DEF FileOK, PlaceOK, Size
<1>2. Rest \in Seq(Byte) /\ Len(Rest) = (IF at + 1 <= Size THEN Size - (at + 1) + 1 ELSE 0)
  BY <1>1, SubSeqProperties DEF Rest
<1>3. Len(Rest) = Size - at
  BY <1>1, <1>2
<1>4. n \in 1..Len(Rest)
  BY <1>2, NewlineLies, Zenon
<1>5. FirstLine = SubSeq(Rest, 1, n - 1)
  BY DEF FirstLine
<1> HIDE DEF n
<1>6. \A j \in 1..(n - 1) : Rest[j] \in Byte
  BY <1>2, <1>4
<1>7. Len(FirstLine) = n - 1
  <2>1. Len(FirstLine) = (IF 1 <= n - 1 THEN n - 1 - 1 + 1 ELSE 0)
    BY <1>4, <1>5, <1>6, SubSeqProperties
  <2>2. n \in Int /\ n >= 1
    BY <1>2, <1>4
  <2>3. QED
    BY <2>1, <2>2
<1>8. QED
  BY <1>1, <1>3, <1>4, <1>7 DEF After

\* Every step keeps the types of the transcript.
LEMMA TypeStep == FileOK /\ PlaceOK /\ [Next]_vars => FileOK' /\ PlaceOK'
<1> SUFFICES ASSUME FileOK, PlaceOK, [Next]_vars
             PROVE  FileOK' /\ PlaceOK'
  OBVIOUS
<1>1. Size \in Nat
  BY DEF FileOK, Size
<1>2. CASE Creates \/ (\E t \in Kinds : Begins(t)) \/ Goes
  <2>1. /\ FileOK' /\ Size' >= Size /\ Size' \in Nat /\ DOMAIN kind \subseteq DOMAIN kind'
        /\ UNCHANGED <<pc, off, at, cancelled, out, ever, torn>>
    BY <1>2, WriterStep DEF Size, FileOK
  <2>2. /\ off \in 0..(Size' + 1) /\ at \in 0..Size'
        /\ off = Size' + 1 => off = Size + 1
    <3>1. off \in 0..(Size + 1) /\ at \in 0..Size
      BY DEF PlaceOK
    <3>2. Size' >= Size /\ Size' \in Nat
      BY <2>1
    <3>3. \A m, n \in Nat : n >= m =>
            /\ \A x \in 0..(m + 1) : x \in 0..(n + 1) /\ (x = n + 1 => x = m + 1)
            /\ \A x \in 0..m : x \in 0..n
      OBVIOUS
    <3>4. QED
      BY <1>1, <3>1, <3>2, <3>3
  <2>3. ever' \subseteq DOMAIN kind' /\ torn' \subseteq DOMAIN kind'
    BY <2>1 DEF PlaceOK
  <2>4. PlaceOK'
    BY <2>1, <2>2, <2>3 DEF PlaceOK
  <2>5. QED
    BY <2>1, <2>4
<1>3. ASSUME UNCHANGED writerVars
      PROVE  FileOK' /\ Size' = Size /\ kind' = kind
  BY <1>3 DEF writerVars, FileOK, Size
<1>4. CASE Cancel \/ Quits \/ Finds
  BY <1>3, <1>4 DEF Cancel, Quits, Finds, PlaceOK
<1>5. CASE Stats
  <2>1. /\ UNCHANGED writerVars /\ UNCHANGED <<cancelled, ever, torn>> /\ pc' = "scan" /\ at' = off'
        /\ off' = (IF Size < off THEN 0 ELSE off) /\ Size # off'
    BY <1>5 DEF Stats
  <2>2. off' \in 0..Size
    BY <1>1, <2>1 DEF PlaceOK
  <2>3. /\ off' \in 0..(Size' + 1) /\ at' \in 0..Size' /\ off' # Size' + 1
        /\ kind' = kind
    <3>1. Size' = Size /\ kind' = kind
      BY <1>3, <2>1
    <3>2. off' \in 0..(Size + 1) /\ off' # Size + 1
      BY <1>1, <2>2
    <3>3. QED
      BY <2>1, <2>2, <3>1, <3>2
  <2>4. PlaceOK'
    BY <2>1, <2>3 DEF PlaceOK
  <2>5. QED
    BY <1>3, <2>1, <2>4
<1>6. CASE Scans
  <2>1. After \in 1..Size
    BY <1>6, AfterWhole DEF Scans
  <2>2. /\ UNCHANGED writerVars /\ UNCHANGED <<pc, off, cancelled, torn>> /\ at' = After
        /\ ever' \subseteq ever \cup DOMAIN kind
    BY <1>6 DEF Scans, emit
  <2>3. QED
    BY <1>1, <1>3, <2>1, <2>2 DEF PlaceOK
<1>7. CASE ScansTorn
  <2>1. /\ UNCHANGED writerVars /\ UNCHANGED <<at, cancelled>> /\ pc' = "stat"
        /\ ever' \subseteq ever \cup DOMAIN kind /\ torn' = torn \cup {Len(kind)}
        /\ off' = After /\ Rest # <<>> /\ ~Complete
    BY <1>7 DEF ScansTorn, emit
  <2>2. at \in 0..Size /\ \A j \in (at + 1)..Size : file[j] \in Byte
    BY <1>1 DEF FileOK, PlaceOK, Size
  <2>3. Len(Rest) = (IF at + 1 <= Size THEN Size - (at + 1) + 1 ELSE 0) /\ Rest \in Seq(Byte)
    BY <1>1, <2>2, SubSeqProperties DEF Rest
  <2>4. at < Size
    <3>1. Len(Rest) # 0
      BY <2>1, <2>3, EmptySeq
    <3>2. QED
      BY <1>1, <2>2, <2>3, <3>1
  <2>5. off' = Size + 1
    BY <1>1, <2>1, <2>2, <2>3 DEF After, FirstLine
  <2>6. file # <<>>
    BY <2>2, <2>4 DEF Size
  <2>7. Len(kind) \in DOMAIN kind
    BY <2>6 DEF FileOK
  <2>8. QED
    BY <1>1, <1>3, <2>1, <2>5, <2>7 DEF PlaceOK
<1>8. CASE EndsPass
  <2>1. /\ UNCHANGED writerVars /\ UNCHANGED <<at, cancelled, ever, torn>> /\ pc' = "stat" /\ off' = at
    BY <1>8 DEF EndsPass
  <2>2. QED
    BY <1>1, <1>3, <2>1 DEF PlaceOK
<1>9. CASE UNCHANGED vars
  BY <1>3, <1>9 DEF vars, PlaceOK
<1>10. QED
  BY <1>2, <1>4, <1>5, <1>6, <1>7, <1>8, <1>9 DEF Next, Watch

LEMMA TypeInit == Init => FileOK /\ PlaceOK
<1> SUFFICES ASSUME Init PROVE FileOK /\ PlaceOK
  OBVIOUS
<1>1. file = <<>> /\ kind = <<>> /\ Len(file) = 0 /\ Len(kind) = 0
  BY DEF Init
<1>2. FileOK
  <2>1. <<>> \in Seq(Kinds) /\ <<>> \in Seq(Byte) /\ 0 <= MaxLines
    OBVIOUS
  <2>2. exists = FALSE
    BY DEF Init
  <2>3. QED
    BY <1>1, <2>1, <2>2 DEF FileOK
<1>3. PlaceOK
  <2>1. Size = 0 /\ off = 0 /\ at = 0 /\ ever = {} /\ torn = {} /\ cancelled = FALSE /\ pc = "wait"
    BY <1>1 DEF Init, Size
  <2>2. 0 \in 0..(0 + 1) /\ 0 \in 0..0 /\ 0 # 0 + 1
    OBVIOUS
  <2>3. QED
    BY <2>1, <2>2 DEF PlaceOK
<1>4. QED
  BY <1>2, <1>3

\* The watcher's place stays in the file, or one byte after its end and then
\* only because a line was torn; what it published and tore are lines.
THEOREM TypeCorrect == Spec => []TypeOK
<1>1. FileOK /\ PlaceOK => TypeOK
  BY DEF FileOK, PlaceOK, TypeOK, Byte
<1>2. QED
  BY <1>1, TypeInit, TypeStep, PTL DEF Spec

----------------------------------------------------------------------------
(* Flattening *)

\* f is the function by which the first n of the sequences in s are flattened.
Flattens(f, s, n) == f = [i \in 1..n |-> IF i = 1 THEN s[i] ELSE f[i-1] \o s[i]]

\* There is one, by the least n for which there would be none.
LEMMA FlattenExists ==
  ASSUME NEW s, NEW n \in Nat
  PROVE  \E f : Flattens(f, s, n)
<1> DEFINE Has(j) == \E f : Flattens(f, s, j)
           Bad == {j \in Nat : ~Has(j)}
           m == Min(Bad)
<1> SUFFICES ASSUME Bad # {} PROVE FALSE
  OBVIOUS
<1>1. m \in Nat /\ ~Has(m) /\ \A j \in Nat : j < m => Has(j)
  <2> HIDE DEF Has
  <2>1. Bad \subseteq Nat
    OBVIOUS
  <2>2. \A j \in Nat : ~Has(j) => j \in Bad
    OBVIOUS
  <2>3. \A j \in Bad : ~Has(j)
    OBVIOUS
  <2> HIDE DEF Bad
  <2>4. Min(Bad) \in Bad /\ \A j \in Bad : Min(Bad) <= j
    BY <2>1, LeastNumber
  <2> HIDE DEF m
  <2>5. m \in Bad /\ m \in Nat /\ \A j \in Bad : m <= j /\ j \in Nat
    BY <2>1, <2>4 DEF m
  <2>6. \A j \in Nat : j < m => ~(j \in Bad)
    BY <2>5
  <2>7. QED
    BY <2>2, <2>3, <2>5, <2>6
<1> HIDE DEF m, Bad
<1>2. m \in Nat /\ ~(\E f : Flattens(f, s, m)) /\ \A j \in Nat : j < m => \E f : Flattens(f, s, j)
  BY <1>1
<1> HIDE DEF Has
<1>3. CASE m = 0
  <2> DEFINE f == [i \in 1..0 |-> s]
  <2>1. Flattens(f, s, 0)
    BY DEF Flattens
  <2>2. QED
    BY <1>2, <1>3, <2>1
<1>4. CASE m # 0
  <2>1. m - 1 \in Nat /\ m - 1 < m
    BY <1>2, <1>4
  <2>2. PICK f : Flattens(f, s, m - 1)
    BY <1>2, <2>1
  <2> DEFINE g == [i \in 1..m |-> IF i = m THEN (IF m = 1 THEN s[m] ELSE f[m-1] \o s[m]) ELSE f[i]]
  <2>3. \A i \in 1..(m - 1) : f[i] = IF i = 1 THEN s[i] ELSE f[i-1] \o s[i]
    BY <2>2 DEF Flattens
  <2>4. ASSUME NEW i \in 1..m
        PROVE  g[i] = IF i = 1 THEN s[i] ELSE g[i-1] \o s[i]
    <3>1. CASE i = m
      <4>1. m # 1 => m - 1 \in 1..m /\ m - 1 # m
        BY <1>2, <1>4
      <4>2. QED
        BY <3>1, <4>1
    <3>2. CASE i # m
      <4>1. i \in 1..(m - 1) /\ (i # 1 => i - 1 \in 1..m /\ i - 1 # m)
        BY <1>2, <3>2
      <4>2. QED
        BY <2>3, <3>2, <4>1
    <3>3. QED
      BY <3>1, <3>2
  <2>5. g = [i \in 1..m |-> g[i]]
    OBVIOUS
  <2> HIDE DEF g
  <2>6. Flattens(g, s, m)
    BY <2>4, <2>5 DEF Flattens
  <2>7. QED
    BY <1>2, <2>6
<1>5. QED
  BY <1>3, <1>4

\* What a prefix is flattened to does not depend on what comes after it.
LEMMA FlattenAgrees ==
  ASSUME NEW s, NEW t, NEW m \in Nat, NEW n \in Nat, m <= n, \A i \in 1..m : s[i] = t[i],
         NEW f, NEW g, Flattens(f, s, m), Flattens(g, t, n)
  PROVE  \A i \in 1..m : f[i] = g[i]
<1> DEFINE Bad == {i \in 1..m : f[i] # g[i]}
<1> SUFFICES ASSUME Bad # {} PROVE FALSE
  OBVIOUS
<1>1. Min(Bad) \in Bad /\ \A j \in Bad : Min(Bad) <= j
  <2>1. Bad \subseteq Nat
    OBVIOUS
  <2> HIDE DEF Bad
  <2>2. QED
    BY <2>1, LeastNumber
<1> DEFINE k == Min(Bad)
<1>2. k \in 1..m /\ f[k] # g[k] /\ \A j \in 1..m : j < k => f[j] = g[j]
  BY <1>1
<1> HIDE DEF k, Bad
<1>3. k \in 1..n
  BY <1>2
<1>4. f[k] = (IF k = 1 THEN s[k] ELSE f[k-1] \o s[k]) /\ g[k] = (IF k = 1 THEN t[k] ELSE g[k-1] \o t[k])
  BY <1>2, <1>3 DEF Flattens
<1>5. CASE k = 1
  BY <1>2, <1>4, <1>5
<1>6. CASE k # 1
  <2>1. k - 1 \in 1..m /\ k - 1 < k
    BY <1>2, <1>6
  <2>2. QED
    BY <1>2, <1>4, <1>6, <2>1
<1>7. QED
  BY <1>5, <1>6

\* The last value of that function is what is flattened.
LEMMA FlattenIsLast ==
  ASSUME NEW s, Len(s) \in Nat, Len(s) # 0
  PROVE  \E f : Flattens(f, s, Len(s)) /\ FlattenSeq(s) = f[Len(s)]
<1> DEFINE f == CHOOSE h : h = [i \in 1..Len(s) |-> IF i = 1 THEN s[i] ELSE h[i-1] \o s[i]]
<1>1. FlattenSeq(s) = f[Len(s)]
  BY DEF FlattenSeq
<1>2. Flattens(f, s, Len(s))
  BY FlattenExists DEF Flattens
<1>3. QED
  BY <1>1, <1>2

\* One sequence more is appended to what the others flatten to.
LEMMA FlattenMore ==
  ASSUME NEW n \in Nat, NEW s, NEW t, s = <<>> \/ n # 0, Len(s) = n, Len(t) = n + 1,
         \A i \in 1..n : s[i] = t[i], <<>> \o t[n + 1] = t[n + 1]
  PROVE  FlattenSeq(t) = FlattenSeq(s) \o t[n + 1]
<1>1. PICK g : Flattens(g, t, n + 1) /\ FlattenSeq(t) = g[n + 1]
  BY FlattenIsLast
<1>2. g[n + 1] = IF n + 1 = 1 THEN t[n + 1] ELSE g[n] \o t[n + 1]
  <2>1. n + 1 \in 1..(n + 1) /\ (n + 1) - 1 = n
    OBVIOUS
  <2>2. QED
    BY <1>1, <2>1 DEF Flattens
<1>3. CASE n = 0
  <2>1. FlattenSeq(s) = <<>>
    BY <1>3 DEF FlattenSeq
  <2>2. QED
    BY <1>1, <1>2, <1>3, <2>1
<1>4. CASE n # 0
  <2>1. PICK f : Flattens(f, s, n) /\ FlattenSeq(s) = f[n]
    BY <1>4, FlattenIsLast
  <2>2. f[n] = g[n]
    <3>1. n \in 1..n /\ n <= n + 1
      BY <1>4
    <3>2. QED
      BY <1>1, <2>1, <3>1, FlattenAgrees
  <2>3. g[n + 1] = g[n] \o t[n + 1]
    <3>1. n + 1 # 1
      BY <1>4
    <3>2. QED
      BY <1>2, <3>1, Zenon
  <2>4. QED
    BY <1>1, <2>1, <2>2, <2>3
<1>5. QED
  BY <1>3, <1>4

----------------------------------------------------------------------------
(* The bytes of the file *)

\* A line with its newline, and where line k starts.
Width == LineLen + 1
Start(k) == (k - 1) * Width

\* Lines start one after the other.
LEMMA StartOrder ==
  ASSUME NEW k \in Nat \ {0}
  PROVE  /\ Start(k) \in Nat /\ Start(1) = 0 /\ Start(k + 1) = Start(k) + Width
         /\ \A l \in Nat : k < l => Start(k) + Width <= Start(l)
<1>1. Width \in Nat /\ Width >= 2
  BY DEF Width
<1>2. \A x, y \in Nat : x * y \in Nat
  OBVIOUS
<1>3. \A x \in Nat : (x + 1) * Width = x * Width + Width
  BY <1>1
<1>4. \A x, y \in Nat : (x + y) * Width = x * Width + y * Width
  BY <1>1
<1>5. Start(k) \in Nat /\ Start(1) = 0
  BY <1>1, <1>2 DEF Start
<1>6. Start(k + 1) = Start(k) + Width
  <2>1. k - 1 \in Nat /\ k + 1 - 1 = (k - 1) + 1
    OBVIOUS
  <2>2. QED
    BY <1>3, <2>1 DEF Start
<1>7. ASSUME NEW l \in Nat, k < l
      PROVE  Start(k) + Width <= Start(l)
  <2>1. k - 1 \in Nat /\ l - 1 - k \in Nat /\ l - 1 = ((k - 1) + 1) + (l - 1 - k)
    BY <1>7
  <2>2. (l - 1) * Width = ((k - 1) + 1) * Width + (l - 1 - k) * Width
    BY <1>4, <2>1
  <2>3. (l - 1 - k) * Width \in Nat /\ ((k - 1) + 1) * Width = (k - 1) * Width + Width /\ (k - 1) * Width \in Nat
    BY <1>1, <1>2, <1>3, <2>1
  <2> DEFINE a == (k - 1) * Width
             b == (l - 1 - k) * Width
  <2>4. Start(l) = a + Width + b /\ Start(k) = a /\ a \in Nat /\ b \in Nat
    BY <2>2, <2>3 DEF Start
  <2> HIDE DEF a, b
  <2>5. QED
    BY <1>1, <2>4
<1>8. QED
  BY <1>5, <1>6, <1>7

ByteOf(k, i) == IF i = Width THEN Newline ELSE <<k, i>>

\* f is made of the lines 1 to n, the last of them perhaps in part.
Laid(f, n) ==
  \A k \in 1..n : \A i \in 1..Width : Start(k) + i <= Len(f) => f[Start(k) + i] = ByteOf(k, i)

\* The file is made of the lines begun, and has at least a byte of each.
LayoutInv ==
  /\ kind = <<>> => file = <<>>
  /\ kind # <<>> => \E c \in 1..Width : Len(file) = Start(Len(kind)) + c
  /\ Laid(file, Len(kind))

\* Bytes that go on where the file ends, within its last line.
LEMMA LaidFurther ==
  ASSUME NEW f \in Seq(Byte), NEW r \in Seq(Byte), NEW n \in Nat \ {0}, NEW c \in 0..LineLen,
         Len(f) = Start(n) + c, Laid(f, n), c + Len(r) <= Width,
         \A j \in 1..Len(r) : r[j] = ByteOf(n, c + j)
  PROVE  Laid(f \o r, n) /\ Len(f \o r) = Start(n) + (c + Len(r))
<1>0. /\ Len(f) \in Nat /\ Len(r) \in Nat /\ Len(f \o r) = Len(f) + Len(r) /\ Start(n) \in Nat /\ c \in Nat
      /\ \A i \in 1..Len(f) : (f \o r)[i] = f[i]
      /\ \A i \in 1..Len(r) : (f \o r)[Len(f) + i] = r[i]
  <2>1. Start(n) \in Nat /\ c \in Nat
    BY StartOrder
  <2>2. Len(f) \in Nat /\ Len(r) \in Nat /\ Len(f \o r) = Len(f) + Len(r)
    <3>1. Len(f) \in Nat /\ Len(r) \in Nat
      OBVIOUS
    <3>2. Len(f \o r) = Len(f) + Len(r)
      BY ConcatProperties
    <3>3. QED
      BY <3>1, <3>2
  <2>3. \A i \in 1..(Len(f) + Len(r)) : (f \o r)[i] = IF i <= Len(f) THEN f[i] ELSE r[i - Len(f)]
    BY ConcatProperties
  <2>4. \A i \in 1..Len(f) : i \in 1..(Len(f) + Len(r)) /\ i <= Len(f)
    BY <2>2
  <2>5. \A i \in 1..Len(r) : Len(f) + i \in 1..(Len(f) + Len(r)) /\ ~(Len(f) + i <= Len(f)) /\ Len(f) + i - Len(f) = i
    BY <2>2
  <2>6. \A i \in 1..Len(f) : (f \o r)[i] = f[i]
    BY <2>4, <2>3
  <2>7. \A i \in 1..Len(r) : (f \o r)[Len(f) + i] = r[i]
    <3> SUFFICES ASSUME NEW i \in 1..Len(r) PROVE (f \o r)[Len(f) + i] = r[i]
      OBVIOUS
    <3>1. /\ Len(f) + i \in 1..(Len(f) + Len(r)) /\ ~(Len(f) + i <= Len(f))
          /\ Len(f) + i - Len(f) = i
      BY <2>5
    <3>2. PICK a \in 1..(Len(f) + Len(r)) : a = Len(f) + i
      BY <3>1
    <3>3. (f \o r)[a] = IF a <= Len(f) THEN f[a] ELSE r[a - Len(f)]
      BY <2>3
    <3>4. ~(a <= Len(f)) /\ a - Len(f) = i
      BY <3>1, <3>2
    <3>5. (f \o r)[a] = r[i]
      BY <3>3, <3>4
    <3>6. QED
      BY <3>2, <3>5
  <2>8. QED
    BY <2>1, <2>2, <2>6, <2>7
<1> DEFINE g == f \o r
<1>a. Len(g) = Start(n) + (c + Len(r))
  BY <1>0
<1> SUFFICES ASSUME NEW k \in 1..n, NEW i \in 1..Width, Start(k) + i <= Len(g)
             PROVE  g[Start(k) + i] = ByteOf(k, i)
  BY <1>a DEF Laid
<1>1. Start(k) \in Nat /\ Width \in Nat /\ (k < n => Start(k) + Width <= Start(n))
  <2>1. k \in Nat \ {0} /\ n \in Nat
    OBVIOUS
  <2>2. QED
    BY <2>1, StartOrder DEF Width
<1>2. CASE Start(k) + i <= Len(f)
  <2>1. Start(k) + i \in 1..Len(f)
    BY <1>0, <1>1, <1>2
  <2>2. QED
    BY <1>0, <1>2, <2>1 DEF Laid
<1>3. CASE ~(Start(k) + i <= Len(f))
  <2>1. k = n
    BY <1>0, <1>1, <1>3
  <2>2. i - c \in 1..Len(r) /\ Start(k) + i = Len(f) + (i - c) /\ c + (i - c) = i
    BY <1>0, <1>1, <1>3, <2>1
  <2>3. g[Start(k) + i] = r[i - c]
    BY <1>0, <2>2
  <2>4. QED
    BY <2>1, <2>2, <2>3
<1>4. QED
  BY <1>2, <1>3

\* Where the file ends: at the end of a line, or within the last one, after the
\* byte it shows.
LEMMA FileEnds ==
  ASSUME FileOK, LayoutInv
  PROVE  /\ Len(kind) \in Nat /\ (kind = <<>> <=> Len(kind) = 0)
         /\ ~LineOpen => Len(file) = Start(Len(kind) + 1)
         /\ LineOpen => /\ Len(kind) # 0 /\ Last(file)[2] \in 1..LineLen
                        /\ Len(file) = Start(Len(kind)) + Last(file)[2]
<1> DEFINE n == Len(kind)
<1>1. n \in Nat /\ (kind = <<>> <=> n = 0) /\ Len(file) \in Nat /\ Start(1) = 0
  <2>1. Start(1) = 0
    <3>1. 1 \in Nat \ {0}
      OBVIOUS
    <3>2. QED
      BY <3>1, StartOrder
  <2>2. QED
    BY <2>1 DEF FileOK
<1>2. CASE kind = <<>>
  <2>1. file = <<>> /\ Len(file) = 0
    BY <1>2 DEF LayoutInv
  <2>2. QED
    BY <1>1, <1>2, <2>1 DEF LineOpen
<1>3. CASE kind # <<>>
  <2>1. n \in Nat \ {0} /\ Start(n) \in Nat /\ Start(n + 1) = Start(n) + Width
    BY <1>1, <1>3, StartOrder
  <2>2. PICK c \in 1..Width : Len(file) = Start(n) + c
    BY <1>3 DEF LayoutInv
  <2>3. file # <<>> /\ Last(file) = file[Len(file)]
    BY <2>1, <2>2 DEF Last, Width
  <2>4. Last(file) = ByteOf(n, c)
    <3>1. n \in 1..n /\ Start(n) + c <= Len(file)
      BY <1>1, <2>1, <2>2
    <3>2. file[Start(n) + c] = ByteOf(n, c)
      BY <3>1 DEF LayoutInv, Laid
    <3>3. QED
      BY <2>2, <2>3, <3>2
  <2>5. CASE c = Width
    BY <1>1, <1>3, <2>1, <2>2, <2>3, <2>4, <2>5 DEF LineOpen, ByteOf
  <2>6. CASE c # Width
    <3>1. Last(file) = <<n, c>> /\ <<n, c>>[2] = c /\ <<n, c>> # Newline
      <4>1. n # 0
        BY <2>1
      <4>2. QED
        BY <2>4, <2>6, <4>1 DEF ByteOf, Newline
    <3>2. c \in 1..LineLen
      BY <2>6 DEF Width
    <3>3. QED
      BY <1>1, <1>3, <2>2, <2>3, <3>1, <3>2 DEF LineOpen
  <2>7. QED
    BY <2>5, <2>6
<1>4. QED
  BY <1>2, <1>3

\* A byte is in its place in the line that is begun.
LEMMA LineBytes ==
  ASSUME NEW k \in 1..MaxLines
  PROVE  /\ Line(k) \in Seq(Byte) /\ Len(Line(k)) = LineLen /\ \A j \in 1..LineLen : Line(k)[j] = <<k, j>>
         /\ Line(k) \o <<Newline>> \in Seq(Byte) /\ Len(Line(k) \o <<Newline>>) = Width
         /\ \A j \in 1..Width : (Line(k) \o <<Newline>>)[j] = ByteOf(k, j)
<1> DEFINE r == <<Newline>>
           l == Line(k)
<1>1. l \in Seq(Byte) /\ Len(l) = LineLen /\ \A j \in 1..LineLen : l[j] = <<k, j>>
  <2>1. l \in Seq(Byte)
    BY LineKind
  <2>2. l = [j \in 1..LineLen |-> <<k, j>>]
    BY DEF Line
  <2>3. QED
    BY <2>1, <2>2
<1>2. r \in Seq(Byte) /\ Len(r) = 1 /\ r[1] = Newline
  BY DEF Byte
<1> HIDE DEF l, r
<1>3. l \o r \in Seq(Byte) /\ Len(l \o r) = Width
  <2>1. l \o r \in Seq(Byte) /\ Len(l \o r) = Len(l) + Len(r)
    BY <1>1, <1>2, ConcatProperties
  <2>2. QED
    BY <1>1, <1>2, <2>1 DEF Width
<1>4. \A j \in 1..(Len(l) + Len(r)) : (l \o r)[j] = IF j <= Len(l) THEN l[j] ELSE r[j - Len(l)]
  BY <1>1, <1>2, ConcatProperties
<1>5. ASSUME NEW j \in 1..Width
      PROVE  (l \o r)[j] = ByteOf(k, j)
  <2>1. (l \o r)[j] = IF j <= Len(l) THEN l[j] ELSE r[j - Len(l)]
    BY <1>1, <1>2, <1>4 DEF Width
  <2>2. CASE j <= LineLen
    <3>1. j \in 1..LineLen /\ j # Width
      BY <2>2 DEF Width
    <3>2. QED
      BY <1>1, <2>1, <2>2, <3>1 DEF ByteOf
  <2>3. CASE ~(j <= LineLen)
    <3>1. j = Width /\ j - LineLen = 1
      BY <2>3 DEF Width
    <3>2. QED
      BY <1>1, <1>2, <2>1, <2>3, <3>1 DEF ByteOf
  <2>4. QED
    BY <2>2, <2>3
<1>6. QED
  BY <1>1, <1>3, <1>5 DEF l, r

\* The file keeps to its lines when bytes r are added to its last one, n.
LEMMA Extended ==
  ASSUME FileOK, NEW r \in Seq(Byte), file' = file \o r, NEW n \in Nat \ {0}, n = Len(kind'), kind' # <<>>,
         NEW c \in 0..LineLen, Len(file) = Start(n) + c, Laid(file, n), Len(r) \in 1..(Width - c),
         \A j \in 1..Len(r) : r[j] = ByteOf(n, c + j)
  PROVE  LayoutInv'
<1>1. file \in Seq(Byte)
  BY DEF FileOK
<1>2. c + Len(r) <= Width /\ c + Len(r) \in 1..Width
  BY DEF Width
<1>3. Laid(file', n) /\ Len(file') = Start(n) + (c + Len(r))
  BY <1>1, <1>2, LaidFurther
<1>4. (kind' # <<>> => \E d \in 1..Width : Len(file') = Start(Len(kind')) + d) /\ Laid(file', Len(kind'))
  BY <1>2, <1>3
<1>5. QED
  BY <1>4 DEF LayoutInv, Start, Width, Laid, ByteOf, Newline

\* What claude writes keeps the file to its lines.
LEMMA LayoutStep ==
  ASSUME FileOK, LayoutInv, Creates \/ (\E t \in Kinds : Begins(t)) \/ Goes
  PROVE  LayoutInv'
<1>0. Len(kind) \in Nat /\ file \in Seq(Byte) /\ Len(kind) <= MaxLines /\ LineLen \in Nat \ {0}
  BY DEF FileOK
<1>1. CASE Creates
  BY <1>1 DEF Creates, LayoutInv, Laid, ByteOf, Start, Width, Newline
<1>2. ASSUME NEW t \in Kinds, Begins(t)
      PROVE  LayoutInv'
  <2> DEFINE n == Len(kind) + 1
  <2>1. kind' = Append(kind, t) /\ ~LineOpen /\ Len(kind) < MaxLines
    BY <1>2 DEF Begins
  <2>2. n = Len(kind') /\ kind' # <<>> /\ n \in Nat \ {0} /\ n \in 1..MaxLines
    <3>1. kind \in Seq(Kinds)
      BY DEF FileOK
    <3>2. QED
      BY <1>0, <2>1, <3>1
  <2>3. Len(file) = Start(n) + 0
    <3>1. Len(file) = Start(n)
      BY <2>1, FileEnds
    <3>2. Start(n) \in Nat
      BY <2>2, StartOrder
    <3>3. QED
      BY <3>1, <3>2
  <2>4. Laid(file, n)
    <3> SUFFICES ASSUME NEW k \in 1..n, NEW i \in 1..Width, Start(k) + i <= Len(file)
                 PROVE  file[Start(k) + i] = ByteOf(k, i)
      BY DEF Laid
    <3>1. Start(n) \in Nat
      BY <2>2, StartOrder
    <3>2. k # n
      BY <2>3, <3>1 DEF Width
    <3>3. k \in 1..Len(kind)
      BY <1>0, <3>2
    <3>4. QED
      BY <3>3 DEF LayoutInv, Laid
  <2>5. CASE file' = file \o Line(n) \o <<Newline>>
    <3> DEFINE r == Line(n) \o <<Newline>>
    <3>1. r \in Seq(Byte) /\ Len(r) = Width /\ \A j \in 1..Width : r[j] = ByteOf(n, j)
      BY <2>2, LineBytes
    <3>2. file' = file \o r
      <4>1. Line(n) \in Seq(Byte) /\ <<Newline>> \in Seq(Byte)
        BY <2>2, LineKind DEF Byte
      <4>2. file \in Seq(Byte)
        BY <1>0
      <4> HIDE DEF n
      <4>3. (file \o Line(n)) \o <<Newline>> = file \o (Line(n) \o <<Newline>>)
        BY <4>1, <4>2, ConcatAssociative
      <4>4. QED
        BY <2>5, <4>3
    <3> HIDE DEF r
    <3>3. Len(r) \in 1..(Width - 0) /\ \A j \in 1..Len(r) : r[j] = ByteOf(n, 0 + j)
      BY <1>0, <3>1 DEF Width
    <3>4. 0 \in 0..LineLen
      BY <1>0
    <3> HIDE DEF n
    <3>5. QED
      BY <2>2, <2>3, <2>4, <3>1, <3>2, <3>3, <3>4, Extended
  <2>6. CASE file' = Append(file, <<n, 1>>)
    <3> DEFINE r == <<<<n, 1>>>>
    <3>1. r \in Seq(Byte) /\ Len(r) = 1 /\ r[1] = <<n, 1>>
      <4>1. <<n, 1>> \in Byte
        BY <1>0, <2>2 DEF Byte
      <4>2. QED
        BY <4>1
    <3>2. file' = file \o r
      BY <1>0, <2>6, <3>1, AppendIsConcat
    <3>3. <<n, 1>> = ByteOf(n, 0 + 1) /\ 1 \in 1..(Width - 0)
      BY <1>0 DEF ByteOf, Width
    <3> HIDE DEF r
    <3>4. Len(r) \in 1..(Width - 0) /\ \A j \in 1..Len(r) : r[j] = ByteOf(n, 0 + j)
      BY <3>1, <3>3
    <3>5. 0 \in 0..LineLen
      BY <1>0
    <3> HIDE DEF n
    <3>6. QED
      BY <2>2, <2>3, <2>4, <3>1, <3>2, <3>4, <3>5, Extended
  <2>7. QED
    <3>1. \/ file' = file \o Line(Len(kind')) \o <<Newline>>
          \/ file' = Append(file, <<Len(kind'), 1>>)
      BY <1>2 DEF Begins
    <3>2. QED
      BY <2>2, <2>5, <2>6, <3>1
<1>3. CASE Goes
  <2> DEFINE n == Len(kind)
             i == Last(file)[2]
             part == [j \in 1..(LineLen - i) |-> <<n, i + j>>]
             rest == part \o <<Newline>>
  <2>1. LineOpen /\ UNCHANGED kind /\ (file' = Append(file, Head(rest)) \/ file' = file \o rest)
    BY <1>3 DEF Goes
  <2>2. n \in Nat \ {0} /\ n \in 1..MaxLines /\ i \in 1..LineLen /\ Len(file) = Start(n) + i /\ kind' # <<>>
    <3>1. n # 0 /\ i \in 1..LineLen /\ Len(file) = Start(n) + i /\ (kind = <<>> <=> n = 0)
      BY <2>1, FileEnds
    <3>2. QED
      BY <1>0, <2>1, <3>1
  <2>3. Laid(file, n)
    BY DEF LayoutInv
  <2> HIDE DEF i, n
  <2>4. part \in Seq(Byte) /\ Len(part) = LineLen - i /\ \A j \in 1..(LineLen - i) : part[j] = <<n, i + j>>
    <3>1. LineLen - i \in Nat /\ \A j \in 1..(LineLen - i) : i + j \in 1..LineLen
      BY <1>0, <2>2
    <3>2. \A j \in 1..(LineLen - i) : <<n, i + j>> \in Byte
      BY <2>2, <3>1 DEF Byte
    <3>3. QED
      BY <3>1, <3>2
  <2>5. <<Newline>> \in Seq(Byte) /\ Len(<<Newline>>) = 1 /\ <<Newline>>[1] = Newline
    BY DEF Byte
  <2> HIDE DEF part
  <2>6. rest \in Seq(Byte) /\ Len(rest) = Width - i
    <3>1. rest \in Seq(Byte) /\ Len(rest) = Len(part) + Len(<<Newline>>)
      BY <2>4, <2>5, ConcatProperties
    <3>2. QED
      BY <1>0, <2>2, <2>4, <2>5, <3>1 DEF Width
  <2>7. ASSUME NEW j \in 1..(Width - i)
        PROVE  rest[j] = ByteOf(n, i + j)
    <3>1. \A x \in 1..(Len(part) + Len(<<Newline>>)) :
            rest[x] = IF x <= Len(part) THEN part[x] ELSE <<Newline>>[x - Len(part)]
      BY <2>4, <2>5, ConcatProperties
    <3>2. j \in 1..(Len(part) + 1)
      BY <1>0, <2>2, <2>4 DEF Width
    <3>3. rest[j] = IF j <= Len(part) THEN part[j] ELSE <<Newline>>[j - Len(part)]
      BY <2>5, <3>1, <3>2
    <3>4. CASE j <= Len(part)
      <4>1. j \in 1..(LineLen - i) /\ i + j # Width
        BY <1>0, <2>2, <2>4, <3>4 DEF Width
      <4>2. QED
        BY <2>4, <3>3, <3>4, <4>1 DEF ByteOf
    <3>5. CASE ~(j <= Len(part))
      <4>1. j - Len(part) = 1 /\ i + j = Width
        BY <1>0, <2>2, <2>4, <3>5 DEF Width
      <4>2. QED
        BY <2>5, <3>3, <3>5, <4>1 DEF ByteOf
    <3>6. QED
      BY <3>4, <3>5
  <2> HIDE DEF rest
  <2>8. CASE file' = file \o rest
    <3>1. Len(rest) \in 1..(Width - i) /\ i \in 0..LineLen /\ n = Len(kind')
      BY <1>0, <2>1, <2>2, <2>6 DEF Width, n
    <3>2. QED
      BY <2>2, <2>3, <2>6, <2>7, <2>8, <3>1, Extended
  <2>9. CASE file' = Append(file, Head(rest))
    <3> DEFINE r == <<Head(rest)>>
    <3>1. 1 \in 1..(Width - i) /\ i \in 0..LineLen /\ n = Len(kind') /\ Len(rest) # 0
      BY <1>0, <2>1, <2>2, <2>6 DEF Width, n
    <3>2. Head(rest) = rest[1] /\ Head(rest) \in Byte
      BY <2>6, <3>1
    <3>3. r \in Seq(Byte) /\ Len(r) = 1 /\ r[1] = ByteOf(n, i + 1)
      BY <2>7, <3>1, <3>2
    <3>4. file' = file \o r
      BY <1>0, <2>9, <3>2, AppendIsConcat
    <3> HIDE DEF r
    <3>5. Len(r) \in 1..(Width - i) /\ \A j \in 1..Len(r) : r[j] = ByteOf(n, i + j)
      BY <3>1, <3>3
    <3>6. QED
      BY <2>2, <2>3, <3>1, <3>3, <3>4, <3>5, Extended
  <2>10. QED
    BY <2>1, <2>8, <2>9
<1>4. QED
  BY <1>1, <1>2, <1>3

----------------------------------------------------------------------------
(* The lines that are published *)

\* A pass at the start of line m + 1 that finds a newline reads that line, and
\* goes on at the next.
LEMMA ReadsLine ==
  ASSUME FileOK, LayoutInv, NEW m \in 0..Len(kind), at = Start(m + 1), at \in 0..Size, Complete
  PROVE  m + 1 \in 1..Len(kind) /\ FirstLine = Line(m + 1) /\ After = Start(m + 2)
<1> DEFINE n == Len(kind)
           k == m + 1
<1>0. /\ n \in Nat /\ n <= MaxLines /\ m \in Nat /\ k \in Nat \ {0} /\ Size \in Nat /\ Width \in Nat /\ file \in Seq(Byte)
      /\ Size = Len(file) /\ Start(k) \in Nat /\ Start(k + 1) = Start(k) + Width /\ k + 1 = m + 2
      /\ at = Start(k) /\ k = m + 1
  <2>1. n \in Nat /\ Size \in Nat /\ Width \in Nat
    BY DEF FileOK, Size, Width
  <2>2. k \in Nat \ {0} /\ k + 1 = m + 2
    BY <2>1
  <2>3. QED
    BY <2>1, <2>2, StartOrder DEF FileOK, Size
<1> HIDE DEF k
<1>1. /\ Rest \in Seq(Byte) /\ Len(Rest) = Size - at /\ DOMAIN Rest = 1..(Size - at)
      /\ \A j \in 1..(Size - at) : Rest[j] = file[at + j]
  <2>1. \A j \in (at + 1)..Size : file[j] \in Byte
    BY <1>0
  <2>2. Rest \in Seq(Byte) /\ Len(Rest) = (IF at + 1 <= Size THEN Size - (at + 1) + 1 ELSE 0)
    BY <1>0, <2>1, SubSeqProperties DEF Rest
  <2>3. Len(Rest) = Size - at
    BY <1>0, <2>2
  <2>4. \A j \in 1..(Size - (at + 1) + 1) : Rest[j] = file[(at + 1) + j - 1]
    <3>1. at + 1 \in Int /\ Size \in Int
      BY <1>0
    <3>2. \A i \in (at + 1)..Size : file[i] \in Byte
      BY <2>1
    <3> DEFINE a == at + 1
               rest == SubSeq(file, a, Size)
    <3>3. a \in Int /\ \A i \in a..Size : file[i] \in Byte
      BY <3>1, <3>2
    <3> HIDE DEF a
    <3>4. \A j \in 1..(Size - a + 1) : rest[j] = file[a + j - 1]
      BY <3>1, <3>3, SubSeqProperties
    <3>5. QED
      BY <3>4 DEF Rest, a
  <2>5. \A j \in 1..(Size - at) : (at + 1) + j - 1 = at + j /\ j \in 1..(Size - (at + 1) + 1)
    BY <1>0
  <2>6. \A j \in 1..(Size - at) : Rest[j] = file[at + j]
    BY <2>4, <2>5
  <2>7. QED
    BY <2>2, <2>3, <2>6
<1>2. PICK j0 \in 1..(Size - at) : Rest[j0] = Newline
  BY <1>1 DEF Complete
<1>3. k \in 1..n
  <2>1. at < Size
    BY <1>0, <1>2
  <2>2. kind # <<>>
    <3>1. file # <<>>
      BY <1>0, <2>1
    <3>2. QED
      BY <3>1 DEF LayoutInv
  <2>3. PICK c \in 1..Width : Size = Start(n) + c
    BY <1>0, <2>2 DEF LayoutInv
  <2>4. n \in Nat \ {0}
    BY <1>0, <2>2 DEF FileOK
  <2>5. Start(n) \in Nat /\ Start(n + 1) = Start(n) + Width
    BY <2>4, StartOrder
  <2>6. m # n
    <3> SUFFICES ASSUME m = n PROVE FALSE
      OBVIOUS
    <3>1. at = Start(n) + Width
      BY <1>0, <2>5
    <3> HIDE DEF n
    <3>2. QED
      BY <1>0, <2>1, <2>3, <2>5, <3>1
  <2>7. m \in 0..n /\ k = m + 1 /\ n \in Nat
    BY <1>0
  <2> HIDE DEF n
  <2>8. QED
    BY <2>6, <2>7
<1>4. \A j \in 1..Width : j <= Size - at => Rest[j] = ByteOf(k, j)
  <2> SUFFICES ASSUME NEW j \in 1..Width, j <= Size - at
               PROVE  Rest[j] = ByteOf(k, j)
    OBVIOUS
  <2>1. at = Start(k) /\ Size = Len(file) /\ j \in Nat /\ Size \in Nat /\ at \in Nat
    BY <1>0
  <2>2. j \in 1..(Size - at) /\ at + j <= Size
    BY <2>1
  <2>3. Rest[j] = file[at + j]
    BY <1>1, <2>2
  <2>4. QED
    BY <1>3, <2>1, <2>2, <2>3 DEF LayoutInv, Laid
<1>5. \A j \in 1..LineLen : j \in 1..Width /\ ByteOf(k, j) = <<k, j>> /\ <<k, j>> # Newline
  <2>1. k # 0
    BY <1>0
  <2>2. \A j \in 1..LineLen : j # Width /\ j \in 1..Width
    BY DEF Width
  <2>3. QED
    BY <2>1, <2>2 DEF ByteOf, Newline
<1>6. Width <= Size - at
  <2>1. ~(j0 \in 1..LineLen)
    BY <1>2, <1>4, <1>5
  <2>2. QED
    BY <1>0, <1>2, <2>1 DEF Width
<1> DEFINE I == {j \in 1..Len(Rest) : Rest[j] = Newline}
<1>7. SelectInSeq(Rest, LAMBDA b : b = Newline) = Width
  <2>1. Width \in I
    <3>1. Width \in 1..Width /\ Width \in 1..Len(Rest)
      BY <1>0, <1>1, <1>6 DEF Width
    <3>2. Rest[Width] = Newline
      BY <1>4, <1>6, <3>1 DEF ByteOf
    <3>3. QED
      BY <3>1, <3>2
  <2>2. \A j \in I : j \in Nat /\ j >= Width
    <3> SUFFICES ASSUME NEW j \in I PROVE j \in Nat /\ j >= Width
      OBVIOUS
    <3>1. j \in 1..(Size - at) /\ Rest[j] = Newline
      BY <1>1
    <3>2. ~(j \in 1..LineLen)
      BY <1>4, <1>5, <3>1
    <3>3. QED
      BY <1>0, <3>1, <3>2 DEF Width
  <2>3. I # {} /\ SelectInSeq(Rest, LAMBDA b : b = Newline) = Min(I)
    BY <2>1 DEF SelectInSeq
  <2> HIDE DEF I
  <2>4. Min(I) \in I /\ Min(I) <= Width
    <3>1. I \subseteq Nat /\ I # {}
      BY <2>1, <2>2
    <3>2. QED
      BY <2>1, <3>1, LeastNumber
  <2>5. QED
    BY <1>0, <2>2, <2>3, <2>4
<1>8. FirstLine = SubSeq(Rest, 1, LineLen)
  <2>1. FirstLine = SubSeq(Rest, 1, Width - 1)
    BY <1>7 DEF FirstLine
  <2>2. Width - 1 = LineLen
    BY DEF Width
  <2>3. QED
    BY <2>1, <2>2
<1>9. FirstLine = Line(k)
  <2>0. \A j \in 1..LineLen : j <= Size - at /\ j \in 1..(Size - at)
    BY <1>0, <1>6 DEF Width
  <2>1. \A j \in 1..LineLen : Rest[j] = <<k, j>>
    BY <1>4, <1>5, <2>0
  <2>2. \A j \in 1..LineLen : Rest[j] \in Byte
    BY <1>1, <2>0
  <2>3. FirstLine \in Seq(Byte) /\ Len(FirstLine) = LineLen /\ \A j \in 1..LineLen : FirstLine[j] = Rest[1 + j - 1]
    BY <1>0, <1>8, <2>2, SubSeqProperties
  <2>4. FirstLine = [j \in 1..LineLen |-> FirstLine[j]]
    BY <2>3
  <2>5. \A j \in 1..LineLen : 1 + j - 1 = j
    OBVIOUS
  <2>6. \A j \in 1..LineLen : FirstLine[j] = <<k, j>>
    BY <2>1, <2>3, <2>5
  <2> DEFINE l == FirstLine
  <2>7. l = [j \in 1..LineLen |-> l[j]] /\ \A j \in 1..LineLen : l[j] = <<k, j>>
    BY <2>4, <2>6
  <2> HIDE DEF l
  <2>8. l = [j \in 1..LineLen |-> <<k, j>>]
    BY <2>7
  <2>9. QED
    BY <2>8 DEF Line, l
<1>10. Len(Line(k)) = LineLen
  <2>1. k \in 1..MaxLines
    <3>1. MaxLines \in Nat
      OBVIOUS
    <3> HIDE DEF n
    <3>2. QED
      BY <1>0, <1>3, <3>1
  <2>2. QED
    BY <2>1, LineBytes
<1>11. After = Start(k + 1)
  <2>1. After = at + LineLen + 1
    BY <1>9, <1>10 DEF After
  <2>2. QED
    BY <1>0, <2>1 DEF Width
<1>12. QED
  BY <1>0, <1>3, <1>9, <1>11 DEF k

\* A line's frames are a sequence.
LEMMA FramesKind ==
  ASSUME FileOK, NEW k \in 1..Len(kind)
  PROVE  \E S : Frames(k) \in Seq(S)
<1> DEFINE Names == {"meta", "thinking", "text.delta", "todo.update", "tool.use.start", "usage",
                     "tool.use.result", "stop"}
<1>1. kind[k] \in {"init", "assistant", "user", "result", "other"}
  <2>1. kind[k] \in Kinds
    BY DEF FileOK
  <2>2. QED
    BY <2>1
<1>2. FramesOf(kind[k]) \in Seq(Names)
  <2>1. CASE kind[k] = "init"
    BY <2>1 DEF FramesOf
  <2>2. CASE kind[k] = "assistant"
    BY <2>2 DEF FramesOf
  <2>3. CASE kind[k] = "user"
    BY <2>3 DEF FramesOf
  <2>4. CASE kind[k] = "result"
    BY <2>4 DEF FramesOf
  <2>5. CASE kind[k] = "other"
    BY <2>5 DEF FramesOf
  <2>6. QED
    BY <1>1, <2>1, <2>2, <2>3, <2>4, <2>5
<1> DEFINE fs == FramesOf(kind[k])
<1> HIDE DEF fs
<1>3. Len(fs) \in Nat /\ DOMAIN fs = 1..Len(fs)
  BY <1>2 DEF fs
<1>4. Frames(k) = [i \in 1..Len(fs) |-> <<k, fs[i]>>]
  BY <1>3 DEF Frames, fs
<1>5. [i \in 1..Len(fs) |-> <<k, fs[i]>>] \in Seq({<<k, fs[i]>> : i \in 1..Len(fs)})
  BY <1>3
<1>6. QED
  BY <1>4, <1>5

\* One line's bytes are not another's.
LEMMA LinesDiffer ==
  ASSUME NEW k, NEW l, Line(k) = Line(l)
  PROVE  k = l
<1>1. 1 \in 1..LineLen
  OBVIOUS
<1>2. Line(k)[1] = <<k, 1>> /\ Line(l)[1] = <<l, 1>>
  BY <1>1 DEF Line
<1>3. QED
  BY <1>2

\* The frames of the first m lines.
FirstFrames(m) == FlattenSeq([k \in 1..m |-> Frames(k)])

\* What is published while no line was torn are the frames of the lines before
\* the place the watcher is at.
LinesInv ==
  torn = {} => \E m \in 0..Len(kind) :
    /\ out = FirstFrames(m)
    /\ pc = "scan" => at = Start(m + 1)
    /\ pc = "stat" => off = Start(m + 1)
    /\ pc = "wait" => off = 0 /\ m = 0

\* A whole line's frames are appended.
LEMMA EmitsLine ==
  ASSUME FileOK, torn = {}, NEW m \in Nat, m + 1 \in 1..Len(kind), out = FirstFrames(m), emit(Line(m + 1))
  PROVE  out' = FirstFrames(m + 1)
<1> DEFINE whole == {k \in DOMAIN kind : Line(m + 1) = Line(k)}
<1>1. whole = {m + 1}
  <2>1. DOMAIN kind = 1..Len(kind)
    BY DEF FileOK
  <2>2. QED
    BY <2>1, LinesDiffer
<1>2. out' = IF whole = {} \/ torn # {} THEN out ELSE out \o Frames(CHOOSE k \in whole : TRUE)
  BY DEF emit
<1>3. out' = out \o Frames(m + 1)
  <2>1. (CHOOSE k \in whole : TRUE) = m + 1
    BY <1>1
  <2> HIDE DEF whole
  <2>2. QED
    BY <1>1, <1>2, <2>1
<1> DEFINE s == [k \in 1..m |-> Frames(k)]
           t == [k \in 1..(m + 1) |-> Frames(k)]
<1>4. Len(s) = m /\ Len(t) = m + 1 /\ (s = <<>> \/ m # 0)
  OBVIOUS
<1>5. (\A i \in 1..m : s[i] = t[i]) /\ t[m + 1] = Frames(m + 1)
  OBVIOUS
<1>6. FlattenSeq(t) = FlattenSeq(s) \o t[m + 1]
  <2>1. <<>> \o t[m + 1] = t[m + 1]
    <3>1. PICK S : t[m + 1] \in Seq(S)
      BY <1>5, FramesKind
    <3> HIDE DEF t
    <3>2. QED
      BY <3>1
  <2> HIDE DEF s, t
  <2> DEFINE k == m
  <2>2. k \in Nat /\ Len(s) = k /\ Len(t) = k + 1 /\ (s = <<>> \/ k # 0) /\ (\A i \in 1..k : s[i] = t[i])
        /\ <<>> \o t[k + 1] = t[k + 1]
    BY <1>4, <1>5, <2>1
  <2> HIDE DEF k
  <2>3. FlattenSeq(t) = FlattenSeq(s) \o t[k + 1]
    BY <2>2, FlattenMore
  <2>4. QED
    BY <2>3 DEF k
<1>7. QED
  BY <1>3, <1>5, <1>6 DEF FirstFrames

\* A line more does not change what the first ones are.
LEMMA FirstFramesStay ==
  ASSUME FileOK, Creates \/ (\E t \in Kinds : Begins(t)) \/ Goes, NEW m \in 0..Len(kind)
  PROVE  FirstFrames(m)' = FirstFrames(m) /\ m \in 0..Len(kind')
<1>1. kind \in Seq(Kinds) /\ Len(kind) \in Nat
  BY DEF FileOK
<1>2. kind' = kind \/ \E t \in Kinds : kind' = Append(kind, t)
  BY DEF Creates, Begins, Goes
<1>3. Len(kind') >= Len(kind) /\ Len(kind') \in Nat /\ \A k \in 1..Len(kind) : kind'[k] = kind[k]
  BY <1>1, <1>2
<1>4. \A k \in 1..m : Frames(k)' = Frames(k)
  <2>1. \A k \in 1..m : k \in 1..Len(kind)
    BY <1>1
  <2>2. QED
    <3> SUFFICES ASSUME NEW k \in 1..m PROVE Frames(k)' = Frames(k)
      OBVIOUS
    <3>1. kind'[k] = kind[k]
      BY <1>3, <2>1
    <3>2. Frames(k)' = [i \in DOMAIN FramesOf(kind'[k]) |-> <<k, FramesOf(kind'[k])[i]>>]
      BY Zenon DEF Frames, FramesOf
    <3>3. QED
      BY <3>1, <3>2, Zenon DEF Frames
<1>5. [k \in 1..m |-> Frames(k)'] = [k \in 1..m |-> Frames(k)]
  BY <1>4
<1>6. m \in 0..Len(kind')
  BY <1>1, <1>3
<1>7. QED
  BY <1>5, <1>6 DEF FirstFrames

\* Every step keeps what is published to the first lines.
LEMMA LinesStep == FileOK /\ PlaceOK /\ LayoutInv /\ LinesInv /\ [Next]_vars => LayoutInv' /\ LinesInv'
<1> SUFFICES ASSUME FileOK, PlaceOK, LayoutInv, LinesInv, [Next]_vars
             PROVE  LayoutInv' /\ LinesInv'
  OBVIOUS
<1>1. CASE Creates \/ (\E t \in Kinds : Begins(t)) \/ Goes
  <2>1. UNCHANGED <<pc, off, at, out, torn>>
    BY <1>1 DEF Creates, Begins, Goes
  <2>2. ASSUME torn = {}
        PROVE  \E m \in 0..Len(kind') :
                 /\ out = FirstFrames(m)'
                 /\ pc = "scan" => at = Start(m + 1)
                 /\ pc = "stat" => off = Start(m + 1)
                 /\ pc = "wait" => off = 0 /\ m = 0
    <3>1. PICK m \in 0..Len(kind) :
            /\ out = FirstFrames(m)
            /\ pc = "scan" => at = Start(m + 1)
            /\ pc = "stat" => off = Start(m + 1)
            /\ pc = "wait" => off = 0 /\ m = 0
      BY <2>2 DEF LinesInv
    <3>2. FirstFrames(m)' = FirstFrames(m) /\ m \in 0..Len(kind')
      BY <1>1, FirstFramesStay
    <3>3. QED
      BY <3>1, <3>2
  <2>3. LinesInv'
    BY <2>1, <2>2 DEF LinesInv, Start, Width
  <2>4. QED
    BY <1>1, <2>3, LayoutStep
\* The watcher only reads.
<1>2. ASSUME UNCHANGED writerVars
      PROVE  LayoutInv' /\ kind' = kind /\ \A m : FirstFrames(m)' = FirstFrames(m)
  <2>1. kind' = kind /\ file' = file
    BY <1>2 DEF writerVars
  <2>2. LayoutInv'
    BY <2>1 DEF LayoutInv, Laid, ByteOf, Start, Width, Newline
  <2>3. \A m : FirstFrames(m)' = FirstFrames(m)
    BY <2>1 DEF FirstFrames, Frames, FramesOf
  <2>4. QED
    BY <2>1, <2>2, <2>3
<1> SUFFICES ASSUME UNCHANGED writerVars, torn' = {}, torn = {},
                    Watch \/ Cancel \/ UNCHANGED vars,
                    NEW m \in 0..Len(kind), out = FirstFrames(m),
                    pc = "scan" => at = Start(m + 1),
                    pc = "stat" => off = Start(m + 1),
                    pc = "wait" => off = 0 /\ m = 0
             PROVE  \E l \in 0..Len(kind) :
                      /\ out' = FirstFrames(l)
                      /\ pc' = "scan" => at' = Start(l + 1)
                      /\ pc' = "stat" => off' = Start(l + 1)
                      /\ pc' = "wait" => off' = 0 /\ l = 0
  <2>1. CASE Watch \/ Cancel \/ UNCHANGED vars
    <3>1. UNCHANGED writerVars /\ (torn' = {} => torn = {})
      BY <2>1 DEF Watch, Quits, Finds, Stats, Scans, ScansTorn, EndsPass, Cancel, vars
    <3>2. ASSUME torn' = {}
          PROVE  \E l \in 0..Len(kind') :
                      /\ out' = FirstFrames(l)'
                      /\ pc' = "scan" => at' = Start(l + 1)
                      /\ pc' = "stat" => off' = Start(l + 1)
                      /\ pc' = "wait" => off' = 0 /\ l = 0
      BY <1>2, <2>1, <3>1, <3>2 DEF LinesInv
    <3>3. LinesInv'
      BY <3>2 DEF LinesInv, Start, Width
    <3>4. QED
      BY <1>2, <3>1, <3>3
  <2>2. QED
    BY <1>1, <2>1 DEF Next
<1>3. m \in Nat /\ Start(0 + 1) = 0
  <2>1. Len(kind) \in Nat
    BY DEF FileOK
  <2>2. Start(1) = 0
    <3>1. 1 \in Nat \ {0}
      OBVIOUS
    <3>2. QED
      BY <3>1, StartOrder
  <2>3. QED
    BY <2>1, <2>2
<1>4. CASE Cancel \/ Quits \/ Finds \/ UNCHANGED vars
  <2>1. UNCHANGED <<off, at, out>> /\ (pc' = pc \/ pc' = "done" \/ (pc = "wait" /\ pc' = "stat"))
    BY <1>4 DEF Cancel, Quits, Finds, vars
  <2>2. QED
    BY <1>3, <2>1
<1>5. CASE Stats
  <2>1. pc = "stat" /\ pc' = "scan" /\ at' = off' /\ out' = out /\ off' = IF Size < off THEN 0 ELSE off
    BY <1>5 DEF Stats
  <2>2. off \in 0..Size /\ Size \in Nat
    BY DEF PlaceOK, FileOK, Size
  <2>3. off' = off
    BY <2>1, <2>2
  <2>4. QED
    BY <2>1, <2>3
<1>6. CASE Scans
  <2>1. pc = "scan" /\ pc' = pc /\ Complete /\ emit(FirstLine) /\ at' = After
    BY <1>6 DEF Scans
  <2>2. m + 1 \in 1..Len(kind) /\ FirstLine = Line(m + 1) /\ After = Start(m + 2)
    BY <2>1, ReadsLine DEF PlaceOK
  <2>3. out' = FirstFrames(m + 1)
    BY <1>3, <2>1, <2>2, EmitsLine
  <2>4. m + 1 \in 0..Len(kind) /\ (m + 1) + 1 = m + 2
    BY <1>3, <2>2
  <2>5. QED
    BY <2>1, <2>2, <2>3, <2>4
<1>7. CASE ScansTorn
  BY <1>7 DEF ScansTorn
<1>8. CASE EndsPass
  <2>1. pc = "scan" /\ pc' = "stat" /\ off' = at /\ out' = out
    BY <1>8 DEF EndsPass
  <2>2. QED
    BY <2>1
<1>9. QED
  BY <1>4, <1>5, <1>6, <1>7, <1>8 DEF Watch

LEMMA LinesInit == Init => LayoutInv /\ LinesInv
<1> SUFFICES ASSUME Init PROVE LayoutInv /\ LinesInv
  OBVIOUS
<1>1. file = <<>> /\ kind = <<>> /\ Len(kind) = 0 /\ out = <<>> /\ pc = "wait" /\ off = 0
  BY DEF Init
<1>2. LayoutInv
  BY <1>1 DEF LayoutInv, Laid
<1>3. FirstFrames(0) = <<>>
  <2>1. [k \in 1..0 |-> Frames(k)] = <<>>
    OBVIOUS
  <2>2. QED
    BY <2>1 DEF FirstFrames, FlattenSeq
<1>4. LinesInv
  BY <1>1, <1>3 DEF LinesInv
<1>5. QED
  BY <1>2, <1>4

\* As long as no pass has met a line without its newline, what is published are
\* the frames of the first lines of the file, each line once and in order,
\* however the writing, the passes and their offsets fall together.
THEOREM LinesCorrect == Spec => []LinesOnce
<1>1. FileOK /\ LinesInv => LinesOnce
  BY DEF LinesInv, LinesOnce, FirstFrames
<1>2. QED
  BY <1>1, TypeInit, TypeStep, LinesInit, LinesStep, PTL DEF Spec
=============================================================================
