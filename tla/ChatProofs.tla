----------------------------- MODULE ChatProofs -----------------------------
(***************************************************************************)
(* Proofs about Chat, for every set of tools and of other frames, every     *)
(* size of the ring and the channel, and every number of frames.            *)
(***************************************************************************)
EXTENDS Chat, WellFoundedInduction, SequenceTheorems, FiniteSetTheorems, TLAPS

----------------------------------------------------------------------------
(* Numbers and what is computed along them *)

\* A set of numbers that is not empty has a least one.
LEMMA LeastNumber ==
  ASSUME NEW T, T \subseteq Nat, T # {}
  PROVE  \E x \in T : \A y \in T : x <= y
<1>1. PICK x \in T : \A y \in T : <<y, x>> \notin OpToRel(<, Nat)
  BY NatLessThanWellFounded, WFMin, Zenon
<1>2. x \in Nat /\ \A y \in T : y \in Nat
  OBVIOUS
<1>3. \A y \in T : <<y, x>> \in Nat \X Nat /\ <<y, x>>[1] = y /\ <<y, x>>[2] = x
  BY <1>2
<1>4. \A y \in T : ~(<<y, x>>[1] < <<y, x>>[2])
  BY <1>1, <1>3, Zenon DEF OpToRel
<1>5. \A y \in T : x <= y
  BY <1>2, <1>4
<1>6. QED
  BY <1>5

\* What holds of 0, and of each number up to n if it does of the one before,
\* holds up to n: the least exception would be none.
LEMMA UpTo ==
  ASSUME NEW n \in Nat, NEW P, 0 \in P, \A k \in 1..n : k - 1 \in P => k \in P
  PROVE  \A k \in 0..n : k \in P
<1> DEFINE Bad == {k \in 0..n : k \notin P}
<1> SUFFICES ASSUME Bad # {} PROVE FALSE
  OBVIOUS
<1>1. PICK x \in Bad : \A y \in Bad : x <= y
  <2>1. Bad \subseteq Nat
    OBVIOUS
  <2> HIDE DEF Bad
  <2>2. QED
    BY <2>1, LeastNumber
<1>2. x \in 1..n /\ x \notin P
  OBVIOUS
<1>3. x - 1 \in 0..n /\ x - 1 < x
  BY <1>2
<1>4. x - 1 \in P
  <2>1. x - 1 \in Bad => x <= x - 1
    BY <1>1
  <2>2. x - 1 \notin Bad
    BY <1>2, <2>1
  <2>3. QED
    BY <1>3, <2>2
<1>5. QED
  BY <1>2, <1>4

\* f goes from b on by the steps in F.
Follows(f, b, F, n) == f = [k \in 0..n |-> IF k = 0 THEN b ELSE F[<<k, f[k - 1]>>]]

\* There is always such a function.
LEMMA FollowsExists ==
  ASSUME NEW n \in Nat, NEW b, NEW F
  PROVE  \E f : Follows(f, b, F, n)
<1> DEFINE P == {k \in 0..n : \E f : Follows(f, b, F, k)}
<1>1. 0 \in P
  <2> DEFINE f == [k \in 0..0 |-> b]
  <2>1. Follows(f, b, F, 0)
    BY DEF Follows
  <2>2. QED
    BY <2>1
<1>2. ASSUME NEW k \in 1..n, k - 1 \in P
      PROVE  k \in P
  <2>1. PICK f : Follows(f, b, F, k - 1)
    BY <1>2
  <2> DEFINE g == [i \in 0..k |-> IF i = k THEN F[<<k, f[k - 1]>>] ELSE f[i]]
  <2>2. \A i \in 0..(k - 1) : f[i] = IF i = 0 THEN b ELSE F[<<i, f[i - 1]>>]
    BY <2>1 DEF Follows
  <2>3. ASSUME NEW i \in 0..k
        PROVE  g[i] = IF i = 0 THEN b ELSE F[<<i, g[i - 1]>>]
    <3>1. CASE i = k
      <4>1. k - 1 \in 0..k /\ k - 1 # k /\ k # 0
        OBVIOUS
      <4>2. QED
        BY <3>1, <4>1
    <3>2. CASE i # k
      <4>1. i \in 0..(k - 1) /\ (i # 0 => i - 1 \in 0..k /\ i - 1 # k)
        BY <3>2
      <4>2. QED
        BY <2>2, <3>2, <4>1
    <3>3. QED
      BY <3>1, <3>2
  <2>4. g = [i \in 0..k |-> g[i]]
    OBVIOUS
  <2> HIDE DEF g
  <2>5. Follows(g, b, F, k)
    BY <2>3, <2>4 DEF Follows
  <2>6. QED
    BY <2>5
<1> HIDE DEF P
<1>3. \A k \in 0..n : k \in P
  BY <1>1, <1>2, UpTo
<1>4. n \in P
  BY <1>3
<1>5. QED
  BY <1>4 DEF P

\* A function whose values go through the sets T, one step to the next.
LEMMA GoesThrough ==
  ASSUME NEW n \in Nat, NEW T, NEW f, f[0] \in T[0],
         \A k \in 1..n : f[k - 1] \in T[k - 1] => f[k] \in T[k]
  PROVE  \A k \in 0..n : f[k] \in T[k]
<1> DEFINE P == {k \in 0..n : f[k] \in T[k]}
<1>1. 0 \in P
  OBVIOUS
<1>2. \A k \in 1..n : k - 1 \in P => k \in P
  OBVIOUS
<1> HIDE DEF P
<1>3. \A k \in 0..n : k \in P
  BY <1>1, <1>2, UpTo
<1>4. QED
  BY <1>3 DEF P

\* Steps that lead from each of the sets T to the next have a function.
LEMMA FollowsThrough ==
  ASSUME NEW n \in Nat, NEW T, NEW b, NEW F, b \in T[0],
         \A k \in 1..n : \A a \in T[k - 1] : F[<<k, a>>] \in T[k]
  PROVE  \E f : Follows(f, b, F, n) /\ \A k \in 0..n : f[k] \in T[k]
<1>1. PICK f : Follows(f, b, F, n)
  BY FollowsExists
<1>2. f[0] = b /\ \A k \in 1..n : f[k] = F[<<k, f[k - 1]>>]
  BY <1>1 DEF Follows
<1>3. f[0] \in T[0] /\ \A k \in 1..n : f[k - 1] \in T[k - 1] => f[k] \in T[k]
  BY <1>2
<1>4. QED
  BY <1>1, <1>3, GoesThrough

----------------------------------------------------------------------------
(* Messages *)

Roles == Texts \cup {"tool"}
Summaries == {"", "running", "ok", "orphan"}
Messages == [first : Nat, seq : Nat, role : Roles, text : Seq(Nat), summary : Summaries]

\* The messages that frames up to top can make.
Upto(top) ==
  {m \in Messages : /\ m.first \in 1..top /\ m.seq \in m.first..top
                    /\ ToSet(m.text) \subseteq m.first..m.seq}

\* The frames a message begins with, or grows by.
Speaks(n) == log[n].kind \in {"text", "start"}

\* What is assumed of the constants.
LEMMA Sizes ==
  /\ MaxFrames \in Nat \ {0} /\ RingCap \in Nat \ {0} /\ ChanCap \in Nat \ {0}
  /\ IsFiniteSet(Tools) /\ Questions \subseteq Tools
  /\ Other \cap {"text", "start", "result", "stop"} = {}
  /\ Hidden \cap (Other \cup {"text", "start", "result", "stop"}) = {}
  BY ChatAssumption

\* What a frame of each kind is of.
LEMMA FrameKind ==
  ASSUME log \in Seq(Frames), NEW n \in 1..Len(log)
  PROVE  /\ log[n].kind = "text" => log[n].of \in Texts
         /\ log[n].kind \in {"start", "result"} => log[n].of \in Tools
<1>1. log[n] \in Frames
  OBVIOUS
<1>2. CASE log[n] \in [kind : {"text"}, of : Texts]
  BY <1>2
<1>3. CASE log[n] \in [kind : {"start", "result"}, of : Tools]
  BY <1>3
<1>4. CASE log[n] \in [kind : {"stop"} \cup Other \cup Hidden, of : {"session"}]
  BY <1>4, Sizes
<1>5. QED
  BY <1>1, <1>2, <1>3, <1>4 DEF Frames

\* More frames can make more messages.
LEMMA UptoGrows ==
  ASSUME NEW top \in Nat, NEW more \in Nat, top <= more
  PROVE  Upto(top) \subseteq Upto(more)
  BY DEF Upto

\* What a message is.
LEMMA MessageKind ==
  ASSUME NEW top \in Nat, NEW m \in Upto(top)
  PROVE  /\ m \in Messages /\ m.first \in 1..top /\ m.seq \in m.first..top /\ m.seq \in 1..top
         /\ m.role \in Roles /\ m.summary \in Summaries /\ m.text \in Seq(Nat)
         /\ ToSet(m.text) \subseteq m.first..m.seq /\ ToSet(m.text) \subseteq 1..top
         /\ \A x \in ToSet(m.text) : x <= m.seq
<1>1. m \in Messages /\ m.first \in 1..top /\ m.seq \in m.first..top /\ ToSet(m.text) \subseteq m.first..m.seq
  BY DEF Upto
<1>2. m.seq \in 1..top /\ m.first \in Nat /\ m.seq \in Nat
  BY <1>1
<1>3. \A x \in m.first..m.seq : x <= m.seq /\ x \in 1..top
  BY <1>1, <1>2
<1>4. QED
  BY <1>1, <1>2, <1>3 DEF Messages

\* A record of such fields is a message.
LEMMA MessageIn ==
  ASSUME NEW top \in Nat, NEW f \in 1..top, NEW q \in f..top, NEW r \in Roles, NEW x \in Seq(Nat),
         NEW u \in Summaries, ToSet(x) \subseteq f..q
  PROVE  [first |-> f, seq |-> q, role |-> r, text |-> x, summary |-> u] \in Upto(top)
<1> DEFINE m == [first |-> f, seq |-> q, role |-> r, text |-> x, summary |-> u]
<1>1. f \in Nat /\ q \in Nat
  OBVIOUS
<1>2. m \in Messages
  BY <1>1 DEF Messages
<1>3. m.first = f /\ m.seq = q /\ m.text = x
  OBVIOUS
<1> HIDE DEF m
<1>4. m \in Upto(top)
  BY <1>2, <1>3 DEF Upto
<1>5. QED
  BY <1>4 DEF m

\* A sequence with one element more.
LEMMA AppendSet ==
  ASSUME NEW S, NEW s \in Seq(S), NEW x \in S
  PROVE  /\ Append(s, x) \in Seq(S) /\ Len(Append(s, x)) = Len(s) + 1
         /\ \A i \in 1..Len(s) : Append(s, x)[i] = s[i]
         /\ Append(s, x)[Len(s) + 1] = x
         /\ ToSet(Append(s, x)) = ToSet(s) \cup {x}
<1>1. /\ Append(s, x) \in Seq(S) /\ Len(Append(s, x)) = Len(s) + 1 /\ Len(s) \in Nat
      /\ \A i \in 1..Len(s) : Append(s, x)[i] = s[i]
      /\ Append(s, x)[Len(s) + 1] = x
  OBVIOUS
<1>2. DOMAIN Append(s, x) = 1..(Len(s) + 1) /\ DOMAIN s = 1..Len(s)
  OBVIOUS
<1>3. \A i \in 1..(Len(s) + 1) : i \in 1..Len(s) \/ i = Len(s) + 1
  BY <1>1
<1>4. 1..Len(s) \subseteq 1..(Len(s) + 1) /\ Len(s) + 1 \in 1..(Len(s) + 1)
  BY <1>1
<1> DEFINE t == Append(s, x)
           n == Len(s)
<1>5. DOMAIN t = 1..(n + 1) /\ (\A i \in 1..n : t[i] = s[i]) /\ t[n + 1] = x /\ DOMAIN s = 1..n
  BY <1>1, <1>2
<1>6. (\A i \in 1..(n + 1) : i \in 1..n \/ i = n + 1) /\ 1..n \subseteq 1..(n + 1) /\ n + 1 \in 1..(n + 1)
  BY <1>3, <1>4
<1> HIDE DEF t, n
<1>7. ToSet(t) = ToSet(s) \cup {x}
  BY <1>5, <1>6 DEF ToSet
<1>8. QED
  BY <1>1, <1>7 DEF t

\* The message a frame begins.
LEMMA BubbleKind ==
  ASSUME log \in Seq(Frames), NEW n \in 1..Len(log), log[n].kind = "text"
  PROVE  Bubble(n) \in Upto(n) /\ Bubble(n).seq = n /\ Bubble(n).role = log[n].of /\ ToSet(Bubble(n).text) = {n}
<1>1. log[n].of \in Roles /\ n \in Nat /\ n \in 1..n /\ n \in n..n
  BY FrameKind DEF Roles
<1>2. <<n>> \in Seq(Nat) /\ ToSet(<<n>>) = {n}
  BY <1>1 DEF ToSet
<1>3. "" \in Summaries
  BY DEF Summaries
<1>4. Bubble(n) \in Upto(n)
  BY <1>1, <1>2, <1>3, MessageIn, Zenon DEF Bubble
<1>5. QED
  BY <1>2, <1>4, Zenon DEF Bubble

\* The message a tool's start begins.
LEMMA ToolKind ==
  ASSUME NEW n \in Nat \ {0}
  PROVE  Tool(n) \in Upto(n) /\ Tool(n).seq = n
<1>1. "tool" \in Roles /\ n \in 1..n /\ n \in n..n
  BY DEF Roles
<1>2. <<>> \in Seq(Nat) /\ ToSet(<<>>) = {}
  BY DEF ToSet
<1>3. "running" \in Summaries
  BY DEF Summaries
<1>4. Tool(n) \in Upto(n)
  BY <1>1, <1>2, <1>3, MessageIn DEF Tool
<1>5. QED
  BY <1>4 DEF Tool

\* What is written to a message, field by field.
LEMMA MessageFields ==
  ASSUME NEW m \in Messages, NEW n \in Nat
  PROVE  /\ Append(m.text, n) \in Seq(Nat) => Grown(m, n) \in Messages
         /\ Grown(m, n).first = m.first /\ Grown(m, n).seq = n /\ Grown(m, n).role = m.role
         /\ Grown(m, n).text = Append(m.text, n)
         /\ \A u \in Summaries :
              /\ Ended(m, n, u) \in Messages
              /\ Ended(m, n, u).first = m.first /\ Ended(m, n, u).seq = n
              /\ Ended(m, n, u).role = m.role /\ Ended(m, n, u).text = m.text
<1>1. Append(m.text, n) \in Seq(Nat) => Grown(m, n) \in Messages
  BY DEF Grown, Messages
<1>2. /\ Grown(m, n).first = m.first /\ Grown(m, n).seq = n /\ Grown(m, n).role = m.role
      /\ Grown(m, n).text = Append(m.text, n)
  BY DEF Grown, Messages
<1>3. ASSUME NEW u \in Summaries
      PROVE  /\ Ended(m, n, u) \in Messages
             /\ Ended(m, n, u).first = m.first /\ Ended(m, n, u).seq = n
             /\ Ended(m, n, u).role = m.role /\ Ended(m, n, u).text = m.text
  BY DEF Ended, Messages
<1>4. QED
  BY <1>1, <1>2, <1>3

\* A later frame adds itself to a message.
LEMMA GrownKind ==
  ASSUME NEW top \in Nat, NEW m \in Upto(top), NEW n \in Nat, top < n
  PROVE  /\ Grown(m, n) \in Upto(n) /\ Grown(m, n).seq = n /\ Grown(m, n).role = m.role
         /\ ToSet(Grown(m, n).text) = ToSet(m.text) \cup {n}
<1> DEFINE x == Append(m.text, n)
<1>1. /\ m.first \in 1..top /\ m.seq \in m.first..top /\ m.role \in Roles /\ m.summary \in Summaries
      /\ m.text \in Seq(Nat) /\ ToSet(m.text) \subseteq m.first..m.seq /\ m \in Messages
  BY MessageKind
<1>2. x \in Seq(Nat) /\ ToSet(x) = ToSet(m.text) \cup {n}
  BY <1>1, AppendSet
<1>3. m.first \in 1..n /\ n \in m.first..n /\ m.first..m.seq \subseteq m.first..n
  BY <1>1
<1>4. ToSet(x) \subseteq m.first..n
  BY <1>1, <1>2, <1>3
<1> DEFINE g == Grown(m, n)
<1>5. g \in Messages /\ g.first = m.first /\ g.seq = n /\ g.role = m.role /\ g.text = x
  BY <1>1, <1>2, MessageFields
<1> HIDE DEF x, g
<1>6. g \in Upto(n)
  BY <1>3, <1>4, <1>5 DEF Upto
<1>7. QED
  BY <1>2, <1>5, <1>6 DEF g

\* The texts of g are those of m and n.
Gains(g, m, n) == ToSet(g.text) = ToSet(m.text) \cup {n}

\* GrownKind, with its equation of texts as one predicate.
LEMMA GrownGains ==
  ASSUME NEW top \in Nat, NEW m \in Upto(top), NEW n \in Nat, top < n
  PROVE  Gains(Grown(m, n), m, n) /\ Grown(m, n) \in Upto(n)
  BY GrownKind DEF Gains

\* A later frame ends a message.
LEMMA EndedKind ==
  ASSUME NEW top \in Nat, NEW m \in Upto(top), NEW n \in Nat, top < n, NEW u \in Summaries
  PROVE  /\ Ended(m, n, u) \in Upto(n) /\ Ended(m, n, u).seq = n /\ Ended(m, n, u).role = m.role
         /\ Ended(m, n, u).text = m.text
<1>1. /\ m.first \in 1..top /\ m.seq \in m.first..top /\ m.role \in Roles /\ m.summary \in Summaries
      /\ m.text \in Seq(Nat) /\ ToSet(m.text) \subseteq m.first..m.seq /\ m \in Messages
  BY MessageKind
<1>2. m.first \in 1..n /\ n \in m.first..n /\ m.first..m.seq \subseteq m.first..n
  BY <1>1
<1>3. ToSet(m.text) \subseteq m.first..n
  BY <1>1, <1>2
<1> DEFINE g == Ended(m, n, u)
<1>4. g \in Messages /\ g.first = m.first /\ g.seq = n /\ g.role = m.role /\ g.text = m.text
  BY <1>1, MessageFields
<1> HIDE DEF g
<1>5. g \in Upto(n)
  BY <1>2, <1>3, <1>4 DEF Upto
<1>6. QED
  BY <1>4, <1>5 DEF g

----------------------------------------------------------------------------
(* The projection of a snapshot *)

\* What ChatStep keeps: its messages, and where the tools are among them.
Chats(top) ==
  {a \in [out : Seq(Upto(top)), tools : [Tools -> Nat]] : \A t \in Tools : a.tools[t] <= Len(a.out)}

\* Every message is still in its place and holds what it held.
Keeps(old, new) ==
  \A i \in DOMAIN old :
    i \in DOMAIN new /\ ToSet(old[i].text) \subseteq ToSet(new[i].text) /\ old[i].seq <= new[i].seq

\* A text is in a message; what begins a message has one with its number or
\* a later one.
Told(ms, n) ==
  /\ IsText(n) => n \in TextOf(ms)
  /\ Speaks(n) => \E i \in DOMAIN ms : n <= ms[i].seq

\* A list that keeps what another holds tells what that one does.
LEMMA ToldStays ==
  ASSUME NEW top \in Nat, NEW more \in Nat, NEW old \in Seq(Upto(top)), NEW new \in Seq(Upto(more)),
         Keeps(old, new), NEW n \in Nat, Told(old, n)
  PROVE  Told(new, n)
<1>1. ASSUME IsText(n)
      PROVE  n \in TextOf(new)
  <2>1. PICK i \in DOMAIN old : n \in ToSet(old[i].text)
    BY <1>1 DEF Told, TextOf
  <2>2. i \in DOMAIN new /\ n \in ToSet(new[i].text)
    BY <2>1 DEF Keeps
  <2>3. QED
    BY <2>2 DEF TextOf
<1>2. ASSUME Speaks(n)
      PROVE  \E i \in DOMAIN new : n <= new[i].seq
  <2>1. PICK i \in DOMAIN old : n <= old[i].seq
    BY <1>2 DEF Told
  <2>2. i \in DOMAIN new /\ old[i].seq <= new[i].seq
    BY <2>1 DEF Keeps
  <2>3. old[i] \in Upto(top) /\ new[i] \in Upto(more)
    BY <2>1, <2>2
  <2>4. old[i].seq \in Nat /\ new[i].seq \in Nat
    BY <2>3, MessageKind
  <2>5. QED
    BY <2>1, <2>2, <2>4
<1>3. QED
  BY <1>1, <1>2 DEF Told

\* The last of a sequence is exchanged.
LEMMA LastExchanged ==
  ASSUME NEW S, NEW s \in Seq(S), s # <<>>, NEW x \in S
  PROVE  /\ Append(Front(s), x) \in Seq(S) /\ Len(Append(Front(s), x)) = Len(s)
         /\ \A i \in 1..(Len(s) - 1) : Append(Front(s), x)[i] = s[i]
         /\ Append(Front(s), x)[Len(s)] = x /\ Last(s) = s[Len(s)] /\ Last(s) \in S
<1>1. Len(s) \in Nat \ {0} /\ Len(s) \in 1..Len(s) /\ DOMAIN s = 1..Len(s)
  OBVIOUS
<1>2. \A i \in 1..(Len(s) - 1) : s[i] \in S
  BY <1>1
<1> DEFINE f == Front(s)
<1>3. f \in Seq(S) /\ Len(f) = Len(s) - 1 /\ \A i \in 1..(Len(s) - 1) : f[i] = s[i]
  BY <1>1, <1>2, SubSeqProperties DEF Front
<1> HIDE DEF f
<1>4. /\ Append(f, x) \in Seq(S) /\ Len(Append(f, x)) = Len(f) + 1
      /\ \A i \in 1..Len(f) : Append(f, x)[i] = f[i]
      /\ Append(f, x)[Len(f) + 1] = x
  BY <1>3, AppendSet
<1>5. Len(f) + 1 = Len(s)
  BY <1>1, <1>3
<1>6. Last(s) = s[Len(s)] /\ Last(s) \in S
  BY <1>1 DEF Last
<1>7. QED
  BY <1>3, <1>4, <1>5, <1>6 DEF f

\* A message keeps itself; Upto(p) is within Upto(n).
LEMMA SameKept ==
  ASSUME NEW p \in Nat, NEW n \in Nat, p < n, NEW m \in Upto(p)
  PROVE  m \in Upto(n) /\ m.seq \in Nat /\ m.seq <= m.seq /\ m.seq <= n
<1>1. m \in Upto(n) /\ m.seq \in 1..p
  BY UptoGrows, MessageKind
<1>2. QED
  BY <1>1

\* A message with a new number goes to the end of a list,
LEMMA ListAppended ==
  ASSUME NEW p \in Nat, NEW n \in Nat, p < n, NEW out \in Seq(Upto(p)), NEW g \in Upto(n)
  PROVE  /\ Append(out, g) \in Seq(Upto(n)) /\ Len(Append(out, g)) = Len(out) + 1
         /\ Keeps(out, Append(out, g))
         /\ Len(out) + 1 \in DOMAIN Append(out, g) /\ Append(out, g)[Len(out) + 1] = g
<1> DEFINE x == Append(out, g)
           len == Len(out)
<1>1. len \in Nat /\ DOMAIN out = 1..len /\ out \in Seq(Upto(n)) /\ \A i \in 1..len : out[i] \in Upto(p)
  BY UptoGrows
<1>2. /\ x \in Seq(Upto(n)) /\ Len(x) = len + 1 /\ x[len + 1] = g
      /\ \A i \in 1..len : x[i] = out[i]
  BY <1>1, AppendSet
<1>3. DOMAIN x = 1..(len + 1)
  BY <1>2
<1> HIDE DEF x, len
<1>4. len + 1 \in DOMAIN x /\ \A i \in 1..len : i \in DOMAIN x
  BY <1>1, <1>3
<1>5. \A i \in 1..len : out[i].seq <= out[i].seq
  BY <1>1, SameKept
<1>6. Keeps(out, x)
  BY <1>1, <1>2, <1>4, <1>5 DEF Keeps
<1>7. QED
  BY <1>2, <1>4, <1>6 DEF x, len

\* ... or in place of one whose text it has.
LEMMA ListExchanged ==
  ASSUME NEW p \in Nat, NEW n \in Nat, p < n, NEW out \in Seq(Upto(p)), NEW j \in 1..Len(out),
         NEW g \in Upto(n), g.seq = n, ToSet(out[j].text) \subseteq ToSet(g.text),
         NEW x \in Seq(Upto(n)), Len(x) = Len(out), x[j] = g, \A i \in 1..Len(out) : i # j => x[i] = out[i]
  PROVE  Keeps(out, x) /\ j \in DOMAIN x
<1> DEFINE len == Len(out)
<1>1. len \in Nat /\ DOMAIN out = 1..len /\ DOMAIN x = 1..len /\ \A i \in 1..len : out[i] \in Upto(p)
  OBVIOUS
<1>2. \A i \in 1..len : out[i].seq <= out[i].seq /\ out[i].seq <= n
  BY <1>1, SameKept
<1>3. ASSUME NEW i \in 1..len
      PROVE  ToSet(out[i].text) \subseteq ToSet(x[i].text) /\ out[i].seq <= x[i].seq
  <2>1. CASE i = j
    BY <1>2, <2>1
  <2>2. CASE i # j
    BY <1>2, <2>2
  <2>3. QED
    BY <2>1, <2>2
<1>4. QED
  BY <1>1, <1>3 DEF Keeps

\* Each step keeps what the list holds, and adds its frame to it.
LEMMA ChatStepKind ==
  ASSUME log \in Seq(Frames), NEW n \in 1..Len(log), NEW p \in Nat, p < n, NEW a \in Chats(p)
  PROVE  /\ ChatStep(a, n) \in Chats(n)
         /\ Keeps(a.out, ChatStep(a, n).out) /\ Told(ChatStep(a, n).out, n)
<1> SUFFICES ASSUME NEW out, NEW tools, NEW f, NEW r, out = a.out, tools = a.tools, f = log[n], r = ChatStep(a, n)
             PROVE  r \in Chats(n) /\ Keeps(out, r.out) /\ Told(r.out, n)
  OBVIOUS
<1>0. /\ n \in Nat /\ n \in Nat \ {0} /\ a \in [out : Seq(Upto(p)), tools : [Tools -> Nat]]
      /\ out \in Seq(Upto(p)) /\ out \in Seq(Upto(n)) /\ tools \in [Tools -> Nat]
      /\ \A t \in Tools : tools[t] <= Len(out)
      /\ Len(out) \in Nat
  BY UptoGrows DEF Chats
<1>1. \A i \in 1..Len(out) : out[i] \in Upto(p)
  BY <1>0
<1>2. ASSUME NEW x \in Seq(Upto(n)), Len(out) <= Len(x), r = [a EXCEPT !.out = x]
      PROVE  r \in Chats(n) /\ r.out = x
  <2>1. r.out = x /\ r.tools = tools /\ r \in [out : Seq(Upto(n)), tools : [Tools -> Nat]]
    BY <1>0, <1>2
  <2>2. \A t \in Tools : tools[t] <= Len(x)
    BY <1>0, <1>2
  <2>3. QED
    BY <2>1, <2>2 DEF Chats
<1>3. ASSUME NEW x \in Seq(Upto(n)), NEW t \in [Tools -> Nat], \A y \in Tools : t[y] <= Len(x),
             r = [out |-> x, tools |-> t]
      PROVE  r \in Chats(n) /\ r.out = x
  BY <1>3 DEF Chats
<1>4. CASE f.kind = "text" /\ out # <<>> /\ Last(out).role = f.of
  <2> DEFINE g == Grown(Last(out), n)
             x == Append(Front(out), g)
             j == Len(out)
  <2>1. r = [a EXCEPT !.out = x]
    BY <1>4 DEF ChatStep
  <2>2. Last(out) = out[j] /\ j \in 1..Len(out)
    BY <1>0, <1>4 DEF Last
  <2>3. g \in Upto(n) /\ g.seq = n /\ ToSet(g.text) = ToSet(out[j].text) \cup {n}
    <3>1. Last(out) \in Upto(p)
      BY <1>1, <2>2
    <3>2. QED
      BY <1>0, <2>2, <3>1, GrownKind
  <2> HIDE DEF g
  <2>4. x \in Seq(Upto(n)) /\ Len(x) = Len(out) /\ (\A i \in 1..(j - 1) : x[i] = out[i]) /\ x[j] = g
    <3>1. g \in Upto(n) /\ out \in Seq(Upto(n)) /\ out # <<>>
      BY <1>0, <1>4, <2>3
    <3> DEFINE S == Upto(n)
               y == g
               s == out
    <3>2. y \in S /\ s \in Seq(S) /\ s # <<>>
      BY <3>1
    <3> HIDE DEF S, y, s
    <3>3. /\ Append(Front(s), y) \in Seq(S) /\ Len(Append(Front(s), y)) = Len(s)
          /\ \A i \in 1..(Len(s) - 1) : Append(Front(s), y)[i] = s[i]
          /\ Append(Front(s), y)[Len(s)] = y
      BY <3>2, LastExchanged
    <3>4. QED
      BY <3>3 DEF S, y, s
  <2> HIDE DEF x
  <2>5. \A i \in 1..Len(out) : i # j => x[i] = out[i]
    <3>1. \A i \in 1..Len(out) : i # Len(out) => i \in 1..(Len(out) - 1)
      BY <1>0
    <3>2. QED
      BY <2>4, <3>1
  <2> HIDE DEF j
  <2>6. Keeps(out, x) /\ j \in DOMAIN x
    BY <1>0, <2>2, <2>3, <2>4, <2>5, ListExchanged
  <2>7. Told(x, n)
    <3>1. n \in ToSet(x[j].text) /\ n <= x[j].seq
      BY <1>0, <2>3, <2>4
    <3>2. QED
      BY <2>6, <3>1 DEF Told, TextOf
  <2>8. r \in Chats(n) /\ r.out = x
    <3>1. Len(out) <= Len(x)
      BY <1>0, <2>4
    <3>2. QED
      BY <1>2, <2>1, <2>4, <3>1
  <2>9. QED
    BY <2>6, <2>7, <2>8
<1>5. CASE f.kind = "text" /\ ~(out # <<>> /\ Last(out).role = f.of)
  <2> DEFINE x == Append(out, Bubble(n))
             j == Len(out) + 1
  <2>1. r = [a EXCEPT !.out = x]
    BY <1>5 DEF ChatStep
  <2>2. Bubble(n) \in Upto(n) /\ Bubble(n).seq = n /\ ToSet(Bubble(n).text) = {n}
    BY <1>5, BubbleKind
  <2>3. x \in Seq(Upto(n)) /\ Len(x) = Len(out) + 1 /\ Keeps(out, x) /\ j \in DOMAIN x /\ x[j] = Bubble(n)
    BY <1>0, <2>2, ListAppended
  <2> HIDE DEF x, j
  <2>4. Told(x, n)
    BY <1>0, <2>2, <2>3 DEF Told, TextOf
  <2>5. r \in Chats(n) /\ r.out = x
    <3>1. Len(out) <= Len(x)
      BY <1>0, <2>3
    <3>2. QED
      BY <1>2, <2>1, <2>3, <3>1
  <2>6. QED
    BY <2>3, <2>4, <2>5
<1>6. CASE f.kind = "start"
  <2> DEFINE x == Append(out, Tool(n))
             j == Len(out) + 1
             t == [tools EXCEPT ![f.of] = j]
  <2>1. r = [out |-> x, tools |-> t]
    BY <1>6 DEF ChatStep
  <2>2. Tool(n) \in Upto(n) /\ Tool(n).seq = n
    BY <1>0, ToolKind
  <2>3. x \in Seq(Upto(n)) /\ Len(x) = j /\ Keeps(out, x) /\ j \in DOMAIN x /\ x[j] = Tool(n)
    BY <1>0, <2>2, ListAppended
  <2>4. t \in [Tools -> Nat] /\ \A y \in Tools : t[y] <= j
    <3>1. j \in Nat /\ \A y \in Tools : tools[y] \in Nat /\ tools[y] <= j
      BY <1>0
    <3> HIDE DEF j
    <3>2. t \in [Tools -> Nat]
      BY <1>0, <3>1
    <3>3. \A y \in Tools : t[y] = j \/ t[y] = tools[y]
      BY <1>0
    <3> HIDE DEF t
    <3>4. QED
      BY <3>1, <3>2, <3>3
  <2> HIDE DEF x, j, t
  <2>5. Told(x, n)
    BY <1>0, <1>6, <2>2, <2>3 DEF Told, IsText
  <2>6. r \in Chats(n) /\ r.out = x
    BY <1>3, <2>1, <2>3, <2>4
  <2>7. QED
    BY <2>3, <2>5, <2>6
<1>7. CASE f.kind = "result" /\ tools[f.of] > 0
  <2> DEFINE j == tools[f.of]
             g == Ended(out[j], n, "ok")
             x == [out EXCEPT ![j] = g]
             t == [tools EXCEPT ![f.of] = 0]
  <2>1. r = [out |-> x, tools |-> t]
    BY <1>7 DEF ChatStep
  <2>2. f.of \in Tools /\ j \in 1..Len(out)
    <3>1. f.of \in Tools
      BY <1>7, FrameKind
    <3>2. QED
      BY <1>0, <1>7, <3>1
  <2>3. g \in Upto(n) /\ g.seq = n /\ g.text = out[j].text
    <3>1. "ok" \in Summaries
      BY DEF Summaries
    <3>2. QED
      BY <1>0, <1>1, <2>2, <3>1, EndedKind
  <2>4. t \in [Tools -> Nat] /\ \A y \in Tools : t[y] <= Len(out)
    <3>1. 0 \in Nat /\ 0 <= Len(out)
      BY <1>0
    <3>2. t \in [Tools -> Nat]
      BY <1>0, <3>1
    <3>3. \A y \in Tools : t[y] = 0 \/ t[y] = tools[y]
      BY <1>0
    <3> HIDE DEF t
    <3>4. QED
      BY <1>0, <3>1, <3>2, <3>3
  <2> HIDE DEF t, j, g
  <2>5. x \in Seq(Upto(n)) /\ Len(x) = Len(out) /\ x[j] = g /\ \A i \in 1..Len(out) : i # j => x[i] = out[i]
    BY <1>0, <2>2, <2>3, ExceptSeq
  <2> HIDE DEF x
  <2>6. Keeps(out, x)
    <3>1. g.seq = n /\ ToSet(out[j].text) \subseteq ToSet(g.text)
      BY <2>3
    <3>2. QED
      BY <1>0, <2>2, <2>3, <2>5, <3>1, ListExchanged
  <2>7. Told(x, n)
    BY <1>7 DEF Told, Speaks, IsText
  <2>8. r \in Chats(n) /\ r.out = x
    BY <1>3, <2>1, <2>4, <2>5
  <2>9. QED
    BY <2>6, <2>7, <2>8
<1>8. CASE ~(f.kind = "text") /\ ~(f.kind = "start") /\ ~(f.kind = "result" /\ tools[f.of] > 0)
  <2>1. r = a
    BY <1>8 DEF ChatStep
  <2>2. Keeps(out, out)
    <3>1. \A i \in 1..Len(out) : out[i].seq <= out[i].seq
      BY <1>0, <1>1, SameKept
    <3>2. QED
      BY <1>0, <3>1 DEF Keeps
  <2>3. Told(out, n)
    BY <1>8 DEF Told, Speaks, IsText
  <2>4. r \in Chats(n)
    BY <1>0, <2>1 DEF Chats
  <2>5. QED
    BY <2>1, <2>2, <2>3, <2>4
<1>9. QED
  BY <1>4, <1>5, <1>6, <1>7, <1>8


\* The last of its numbers in a list is bound for every one of them.
Numbers(ns) ==
  /\ ns \in Seq(Nat) /\ \A k \in DOMAIN ns : ns[k] \in 1..Len(log)
  /\ \A i, j \in DOMAIN ns : i < j => ns[i] < ns[j]

\* The number the first k of ns end at.
EndsAt(ns, k) == IF k = 0 THEN 0 ELSE ns[k]

\* A list of numbers ends within the log, and each is after the one before.
LEMMA EndsKind ==
  ASSUME log \in Seq(Frames), NEW ns, Numbers(ns)
  PROVE  /\ Len(ns) \in Nat /\ DOMAIN ns = 1..Len(ns)
         /\ \A k \in 0..Len(ns) : EndsAt(ns, k) \in 0..Len(log)
         /\ \A k \in 1..Len(ns) : /\ ns[k] \in 1..Len(log) /\ EndsAt(ns, k) = ns[k]
                                  /\ EndsAt(ns, k - 1) < ns[k]
<1>1. /\ Len(ns) \in Nat /\ DOMAIN ns = 1..Len(ns) /\ Len(log) \in Nat
      /\ \A k \in 1..Len(ns) : ns[k] \in 1..Len(log)
      /\ \A i, j \in 1..Len(ns) : i < j => ns[i] < ns[j]
  BY DEF Numbers
<1>2. \A k \in 0..Len(ns) : EndsAt(ns, k) \in 0..Len(log)
  BY <1>1 DEF EndsAt
<1>3. ASSUME NEW k \in 1..Len(ns)
      PROVE  /\ ns[k] \in 1..Len(log) /\ EndsAt(ns, k) = ns[k]
             /\ EndsAt(ns, k - 1) < ns[k]
  <2>1. ns[k] \in 1..Len(log) /\ EndsAt(ns, k) = ns[k]
    BY <1>1 DEF EndsAt
  <2>2. CASE k = 1
    BY <2>1, <2>2 DEF EndsAt
  <2>3. CASE k # 1
    <3>1. k - 1 \in 1..Len(ns) /\ k - 1 < k /\ k - 1 # 0
      BY <2>3
    <3>2. QED
      BY <1>1, <3>1 DEF EndsAt
  <2>4. QED
    BY <2>1, <2>2, <2>3
<1>4. QED
  BY <1>1, <1>2, <1>3

\* What the first k of ns have told.
ChatsTold(ns, k) ==
  {a \in Chats(EndsAt(ns, k)) : \A i \in 1..k : Told(a.out, ns[i])}

\* The list after each of its frames follows from the one before.
LEMMA ChatOfFollows ==
  ASSUME log \in Seq(Frames), NEW ns, Numbers(ns)
  PROVE  /\ ChatOf(ns)[0] = NoChat
         /\ \A k \in 1..Len(ns) : ChatOf(ns)[k] = ChatStep(ChatOf(ns)[k - 1], ns[k])
         /\ \A k \in 0..Len(ns) : ChatOf(ns)[k] \in ChatsTold(ns, k)
<1> DEFINE n == Len(ns)
           T == [k \in 0..n |-> ChatsTold(ns, k)]
           All == UNION {T[k] : k \in 0..n}
           F == [p \in (1..n) \X All |-> ChatStep(p[2], ns[p[1]])]
<1>1. /\ n \in Nat /\ \A k \in 0..n : EndsAt(ns, k) \in Nat
      /\ \A k \in 1..n : /\ ns[k] \in 1..Len(log) /\ EndsAt(ns, k) = ns[k]
                         /\ EndsAt(ns, k - 1) < ns[k] /\ k - 1 \in 0..n
  BY EndsKind
<1>2. NoChat \in T[0]
  <2>1. NoChat \in Chats(0)
    BY DEF NoChat, Chats
  <2>2. NoChat \in ChatsTold(ns, 0)
    BY <2>1 DEF ChatsTold, EndsAt
  <2>3. QED
    BY <1>1, <2>2
<1>3. ASSUME NEW k \in 1..n, NEW a \in T[k - 1]
      PROVE  F[<<k, a>>] = ChatStep(a, ns[k]) /\ F[<<k, a>>] \in T[k]
  <2>1. a \in Chats(EndsAt(ns, k - 1)) /\ \A i \in 1..(k - 1) : Told(a.out, ns[i])
    BY <1>1 DEF ChatsTold
  <2>2. <<k, a>> \in (1..n) \X All
    BY <1>1
  <2>3. F[<<k, a>>] = ChatStep(a, ns[k])
    BY <2>2
  <2> DEFINE p == EndsAt(ns, k - 1)
             m == ns[k]
             b == ChatStep(a, m)
  <2>4. p \in Nat /\ m \in 1..Len(log) /\ m \in Nat /\ p < m /\ EndsAt(ns, k) = m
    BY <1>1
  <2>5. b \in Chats(m) /\ Keeps(a.out, b.out) /\ Told(b.out, m)
    <3>1. a \in Chats(p)
      BY <2>1
    <3> HIDE DEF p, m
    <3>2. QED
      BY <2>4, <3>1, ChatStepKind
  <2> HIDE DEF p, b, m
  <2>6. ASSUME NEW i \in 1..k
        PROVE  Told(b.out, ns[i])
    <3>1. CASE i = k
      BY <2>5, <3>1 DEF m
    <3>2. CASE i # k
      <4>1. i \in 1..(k - 1) /\ ns[i] \in Nat
        BY <1>1, <3>2
      <4>2. Told(a.out, ns[i])
        BY <2>1, <4>1
      <4>3. a.out \in Seq(Upto(p)) /\ b.out \in Seq(Upto(m))
        BY <2>1, <2>5 DEF Chats, p
      <4>4. QED
        BY <2>4, <2>5, <4>1, <4>2, <4>3, ToldStays
    <3>3. QED
      BY <3>1, <3>2
  <2>7. b \in ChatsTold(ns, k)
    BY <2>4, <2>5, <2>6 DEF ChatsTold
  <2>8. k \in 0..n
    OBVIOUS
  <2>9. QED
    BY <2>3, <2>7, <2>8 DEF b, m
<1> HIDE DEF T, F, All
<1>4. PICK f : Follows(f, NoChat, F, n) /\ \A k \in 0..n : f[k] \in T[k]
  <2>1. \A k \in 1..n : \A a \in T[k - 1] : F[<<k, a>>] \in T[k]
    BY <1>3, Zenon
  <2> HIDE DEF n
  <2>2. QED
    BY <1>1, <1>2, <2>1, FollowsThrough
<1>5. f = [k \in 0..n |-> IF k = 0 THEN NoChat ELSE ChatStep(f[k - 1], ns[k])]
  <2>1. f = [k \in 0..n |-> IF k = 0 THEN NoChat ELSE F[<<k, f[k - 1]>>]]
    BY <1>4 DEF Follows
  <2>2. \A k \in 1..n : F[<<k, f[k - 1]>>] = ChatStep(f[k - 1], ns[k])
    BY <1>1, <1>3, <1>4
  <2>3. \A k \in 0..n : k # 0 => k \in 1..n
    BY <1>1
  <2>4. \A k \in 0..n : (IF k = 0 THEN NoChat ELSE F[<<k, f[k - 1]>>])
                      = (IF k = 0 THEN NoChat ELSE ChatStep(f[k - 1], ns[k]))
    BY <2>2, <2>3
  <2>5. QED
    BY <2>1, <2>4
<1> DEFINE G(g) == g = [k \in 0..n |-> IF k = 0 THEN NoChat ELSE ChatStep(g[k - 1], ns[k])]
<1>6. G(ChatOf(ns)) 
  <2>1. \E g : G(g)
    BY <1>5
  <2>2. ChatOf(ns) = CHOOSE g : G(g)
    BY DEF ChatOf
  <2> HIDE DEF G
  <2>3. QED
    BY <2>1, <2>2
<1> DEFINE c == ChatOf(ns)
<1>7. c[0] = NoChat /\ \A k \in 1..n : c[k] = ChatStep(c[k - 1], ns[k])
  BY <1>1, <1>6
<1> HIDE DEF c, G
<1>8. \A k \in 1..n : c[k - 1] \in T[k - 1] => c[k] \in T[k]
  BY <1>3, <1>7
<1>9. \A k \in 0..n : c[k] \in T[k]
  <2>1. c[0] \in T[0]
    BY <1>2, <1>7
  <2> HIDE DEF n
  <2>2. QED
    BY <1>1, <1>8, <2>1, GoesThrough
<1>10. \A k \in 0..n : c[k] \in ChatsTold(ns, k)
  BY <1>1, <1>9 DEF T
<1>11. QED
  BY <1>7, <1>10 DEF c

\* A list of frames makes messages that hold all their texts.
LEMMA ChatOfKind ==
  ASSUME log \in Seq(Frames), NEW ns, Numbers(ns)
  PROVE  /\ aggregateChat(ns) \in Seq(Upto(EndsAt(ns, Len(ns))))
         /\ \A i \in 1..Len(ns) : Told(aggregateChat(ns), ns[i])
<1>1. Len(ns) \in 0..Len(ns)
  BY EndsKind
<1>2. ChatOf(ns)[Len(ns)] \in ChatsTold(ns, Len(ns))
  BY <1>1, ChatOfFollows
<1>3. QED
  BY <1>2 DEF ChatsTold, Chats, aggregateChat

\* What is kept of the first k messages of ms: those above n, in their order.
KeptOf(ms, n, k, s) ==
  /\ \A i \in DOMAIN s : \E j \in 1..k : s[i] = ms[j] /\ ms[j].seq > n
  /\ \A j \in 1..k : ms[j].seq > n => \E i \in DOMAIN s : s[i] = ms[j]
  /\ \A i, h \in DOMAIN s : i < h => \E j, l \in 1..k : j < l /\ s[i] = ms[j] /\ s[h] = ms[l]

\* filterSince keeps the messages above a number, in their order.
LEMMA FilterKind ==
  ASSUME NEW M, NEW ms \in Seq(M), NEW n \in Nat
  PROVE  filterSince(ms, n) \in Seq(M) /\ KeptOf(ms, n, Len(ms), filterSince(ms, n))
<1> DEFINE len == Len(ms)
           T == [k \in 0..len |-> {s \in Seq(M) : KeptOf(ms, n, k, s)}]
           All == Seq(M)
           St(k, s) == IF ms[k].seq > n THEN Append(s, ms[k]) ELSE s
           F == [p \in (1..len) \X All |-> St(p[1], p[2])]
<1>1. len \in Nat /\ DOMAIN ms = 1..len /\ \A k \in 1..len : ms[k] \in M /\ k - 1 \in 0..len /\ k \in 0..len
  OBVIOUS
<1>2. <<>> \in T[0]
  BY <1>1 DEF KeptOf
<1>3. ASSUME NEW k \in 1..len, NEW s \in T[k - 1]
      PROVE  St(k, s) \in T[k]
  <2>0. k \in 1..k /\ 1..(k - 1) \subseteq 1..k /\ k \in 0..len /\ \A j \in 1..(k - 1) : j < k
    OBVIOUS
  <2>00. \A j \in 1..k : j = k \/ j \in 1..(k - 1)
    OBVIOUS
  <2>1. s \in Seq(M) /\ KeptOf(ms, n, k - 1, s)
    BY <1>1
  <2> DEFINE before == 1..(k - 1)
             upto == 1..k
             m == ms[k]
             t == Append(s, m)
  <2>2. CASE ms[k].seq > n
    <3>1. t \in Seq(M) /\ Len(t) = Len(s) + 1 /\ (\A i \in 1..Len(s) : t[i] = s[i]) /\ t[Len(s) + 1] = m
      BY <1>1, <2>1, AppendSet
    <3>2. Len(s) \in Nat /\ DOMAIN s = 1..Len(s) /\ DOMAIN t = 1..(Len(s) + 1)
      BY <2>1, <3>1
    <3>3. \A i \in DOMAIN t : i = Len(s) + 1 \/ (i \in DOMAIN s /\ i < Len(s) + 1)
      BY <3>2
    <3>4. Len(s) + 1 \in DOMAIN t /\ DOMAIN s \subseteq DOMAIN t
      BY <3>2
    <3> DEFINE new == Len(s) + 1
    <3>5. \A i \in DOMAIN s : t[i] = s[i]
      BY <3>1, <3>2
    <3>6. ASSUME NEW i \in DOMAIN t
          PROVE  \E j \in upto : t[i] = ms[j] /\ ms[j].seq > n
      <4>1. CASE i = new
        BY <2>0, <2>2, <3>1, <4>1
      <4>2. CASE i \in DOMAIN s
        BY <2>0, <2>1, <3>5, <4>2 DEF KeptOf
      <4>3. QED
        BY <3>3, <4>1, <4>2
    <3>7. ASSUME NEW j \in upto, ms[j].seq > n
          PROVE  \E i \in DOMAIN t : t[i] = ms[j]
      <4>1. CASE j = k
        BY <3>1, <3>4, <4>1
      <4>2. CASE j \in before
        <5>1. PICK i \in DOMAIN s : s[i] = ms[j]
          BY <2>1, <3>7, <4>2 DEF KeptOf
        <5>2. QED
          BY <3>4, <3>5, <5>1
      <4>3. QED
        BY <2>00, <4>1, <4>2
    <3>8. ASSUME NEW i \in DOMAIN t, NEW h \in DOMAIN t, i < h
          PROVE  \E j, l \in upto : j < l /\ t[i] = ms[j] /\ t[h] = ms[l]
      <4>0. i \in DOMAIN s
        BY <3>2, <3>3, <3>8
      <4>1. CASE h = new
        <5>1. PICK j \in before : s[i] = ms[j]
          BY <2>1, <4>0 DEF KeptOf
        <5>2. QED
          BY <2>0, <3>1, <3>5, <4>0, <4>1, <5>1
      <4>2. CASE h \in DOMAIN s
        <5>1. PICK j \in before, l \in before : j < l /\ s[i] = ms[j] /\ s[h] = ms[l]
          BY <2>1, <3>8, <4>0, <4>2 DEF KeptOf
        <5>2. QED
          BY <2>0, <3>5, <4>0, <4>2, <5>1
      <4>3. QED
        BY <3>3, <4>1, <4>2
    <3> HIDE DEF t, m
    <3>9. KeptOf(ms, n, k, t)
      BY <3>6, <3>7, <3>8 DEF KeptOf
    <3>10. St(k, s) = t
      BY <2>2 DEF t, m
    <3>11. QED
      BY <2>0, <3>1, <3>9, <3>10
  <2>3. CASE ~(ms[k].seq > n)
    <3>1. KeptOf(ms, n, k, s)
      <4>1. \A i \in DOMAIN s : \E j \in upto : s[i] = ms[j] /\ ms[j].seq > n
        BY <2>0, <2>1 DEF KeptOf
      <4>2. \A j \in upto : ms[j].seq > n => \E i \in DOMAIN s : s[i] = ms[j]
        BY <2>00, <2>1, <2>3 DEF KeptOf
      <4>3. \A i, h \in DOMAIN s : i < h => \E j, l \in upto : j < l /\ s[i] = ms[j] /\ s[h] = ms[l]
        BY <2>0, <2>1 DEF KeptOf
      <4>4. QED
        BY <4>1, <4>2, <4>3 DEF KeptOf
    <3>2. St(k, s) = s
      BY <2>3
    <3>3. QED
      BY <2>0, <2>1, <3>1, <3>2
  <2>4. QED
    BY <2>2, <2>3
<1>4. ASSUME NEW k \in 1..len, NEW s \in T[k - 1]
      PROVE  F[<<k, s>>] = St(k, s)
  <2>1. s \in Seq(M)
    BY <1>1
  <2>2. <<k, s>> \in (1..len) \X All
    BY <2>1
  <2>3. QED
    BY <2>2
<1> HIDE DEF T, F, All
<1>5. PICK f : Follows(f, <<>>, F, len) /\ \A k \in 0..len : f[k] \in T[k]
  <2>1. \A k \in 1..len : \A a \in T[k - 1] : F[<<k, a>>] \in T[k]
    BY <1>3, <1>4, Zenon
  <2> HIDE DEF len, St
  <2>2. QED
    BY <1>1, <1>2, <2>1, FollowsThrough
<1> HIDE DEF St
<1>6. f = [k \in 0..len |-> IF k = 0 THEN <<>> ELSE St(k, f[k - 1])]
  <2>1. f = [k \in 0..len |-> IF k = 0 THEN <<>> ELSE F[<<k, f[k - 1]>>]]
    BY <1>5 DEF Follows
  <2>2. \A k \in 1..len : F[<<k, f[k - 1]>>] = St(k, f[k - 1])
    BY <1>1, <1>4, <1>5
  <2>3. \A k \in 0..len : k # 0 => k \in 1..len
    BY <1>1
  <2>4. \A k \in 0..len : (IF k = 0 THEN <<>> ELSE F[<<k, f[k - 1]>>])
                        = (IF k = 0 THEN <<>> ELSE St(k, f[k - 1]))
    BY <2>2, <2>3
  <2>5. QED
    BY <2>1, <2>4
<1> DEFINE G(g) == g = [k \in 0..Len(ms) |->
                     IF k = 0 THEN <<>>
                     ELSE IF ms[k].seq > n THEN Append(g[k - 1], ms[k]) ELSE g[k - 1]]
           c == CHOOSE g : G(g)
<1>7. G(c) /\ filterSince(ms, n) = c[Len(ms)]
  <2>1. \E g : G(g)
    BY <1>6 DEF St
  <2>2. filterSince(ms, n) = c[Len(ms)]
    BY DEF filterSince
  <2> HIDE DEF G
  <2>3. QED
    BY <2>1, <2>2
<1>8. c[0] = <<>> /\ \A k \in 1..len : c[k] = St(k, c[k - 1])
  <2> HIDE DEF c
  <2>1. c = [k \in 0..len |-> IF k = 0 THEN <<>> ELSE St(k, c[k - 1])]
    BY <1>7 DEF St
  <2> HIDE DEF G, len
  <2>2. 0 \in 0..len /\ \A k \in 1..len : k \in 0..len /\ k # 0
    BY <1>1
  <2>3. QED
    BY <2>1, <2>2
<1> HIDE DEF c, G
<1>9. \A k \in 0..len : c[k] \in T[k]
  <2>1. c[0] \in T[0]
    BY <1>2, <1>8
  <2>2. \A k \in 1..len : c[k - 1] \in T[k - 1] => c[k] \in T[k]
    BY <1>3, <1>8
  <2> HIDE DEF len
  <2>3. QED
    BY <1>1, <2>1, <2>2, GoesThrough
<1>10. c[len] \in Seq(M) /\ KeptOf(ms, n, len, c[len])
  BY <1>1, <1>9 DEF T
<1>11. QED
  BY <1>7, <1>10

----------------------------------------------------------------------------
(* The projection of a stream *)

\* What an aggregator that has read frames up to top keeps, and what it emits.
Opens(top) ==
  {o \in [Texts -> Upto(top) \cup {None}] : \A r \in Texts : o[r] # None => o[r].role = r}
Waits(top) ==
  {w \in [Tools -> Upto(top) \cup {None}] :
     \A t \in Tools : w[t] # None => w[t].role = "tool" /\ ToSet(w[t].text) = {}}
Aggs(top) == [open : Opens(top), tools : Waits(top)]
Events(n) ==
  {e \in [event : {"chat", "update", "stop"}, msg : Upto(n) \cup {None}] :
     e.event # "stop" => e.msg # None}

\* The events without a text: a tool's, and the stop.
ToolEvents(n) ==
  {e \in Events(n) : e.event # "stop" => e.msg.role = "tool" /\ ToSet(e.msg.text) = {}}

\* No message is taken for the absence of one.
LEMMA NoneApart ==
  ASSUME NEW top \in Nat, NEW m \in Upto(top)
  PROVE  m # None
<1>1. m.role # "none"
  BY MessageKind DEF Roles, Texts
<1>2. QED
  BY <1>1 DEF None

\* What an aggregator of fewer frames may hold, one of more may too.
LEMMA AggsGrow ==
  ASSUME NEW top \in Nat, NEW more \in Nat, top <= more
  PROVE  /\ Opens(top) \subseteq Opens(more) /\ Waits(top) \subseteq Waits(more)
         /\ Aggs(top) \subseteq Aggs(more)
<1>1. Upto(top) \subseteq Upto(more)
  BY UptoGrows
<1> HIDE DEF Upto
<1>2. Opens(top) \subseteq Opens(more)
  BY <1>1 DEF Opens
<1>3. Waits(top) \subseteq Waits(more)
  BY <1>1 DEF Waits
<1>4. QED
  BY <1>2, <1>3 DEF Aggs

\* The aggregator that a stream starts with.
LEMMA NoAggKind ==
  ASSUME NEW top \in Nat
  PROVE  /\ NoAgg \in Aggs(top) /\ NoAgg.open = [r \in Texts |-> None]
         /\ [r \in Texts |-> None] \in Opens(top)
<1>1. [r \in Texts |-> None] \in Opens(top) /\ [t \in Tools |-> None] \in Waits(top)
  BY DEF Opens, Waits
<1>2. QED
  BY <1>1 DEF NoAgg, Aggs

\* A set of events as a list.
LEMMA ListOfSet ==
  ASSUME NEW S, IsFiniteSet(S)
  PROVE  SetToSeq(S) \in Seq(S)
<1>1. Cardinality(S) \in Nat /\ ExistsBijection(1..Cardinality(S), S)
  BY FS_CardinalityType
<1>2. \E f \in [1..Cardinality(S) -> S] : IsInjective(f)
  BY <1>1 DEF ExistsBijection, Bijection, Injection, IsInjective
<1>3. SetToSeq(S) \in [1..Cardinality(S) -> S]
  BY <1>2 DEF SetToSeq
<1>4. QED
  BY <1>1, <1>3

\* What a step emits when a frame is the last word of the tools that wait.
LEMMA OrphansKind ==
  ASSUME NEW n \in Nat, NEW p \in Nat, p < n, NEW w \in Waits(p)
  PROVE  SetToSeq({Event("update", Ended(w[t], n, "orphan")) : t \in {x \in Tools : w[x] # None}})
           \in Seq(ToolEvents(n))
<1> DEFINE W == {x \in Tools : w[x] # None}
           Op(t) == Event("update", Ended(w[t], n, "orphan"))
           S == {Op(t) : t \in W}
<1>1. IsFiniteSet(W)
  BY Sizes, FS_Subset
<1>2. IsFiniteSet(S)
  <2> DEFINE f == [t \in W |-> Op(t)]
  <2> HIDE DEF W, Op
  <2>1. f \in Surjection(W, S)
    BY DEF Surjection
  <2> HIDE DEF f, S
  <2>2. QED
    BY <1>1, <2>1, FS_Surjection
<1>3. SetToSeq(S) \in Seq(S)
  <2> HIDE DEF S
  <2>1. QED
    BY <1>2, ListOfSet
<1>4. ASSUME NEW t \in W
      PROVE  Op(t) \in ToolEvents(n)
  <2>1. w[t] \in Upto(p) /\ "orphan" \in Summaries /\ w[t].role = "tool" /\ ToSet(w[t].text) = {}
    BY DEF Waits, Summaries
  <2> DEFINE m == Ended(w[t], n, "orphan")
  <2>2. m \in Upto(n) /\ m.role = "tool" /\ ToSet(m.text) = {}
    BY <2>1, EndedKind
  <2>3. m # None
    BY <2>2, NoneApart
  <2> HIDE DEF m
  <2>4. Event("update", m) \in ToolEvents(n)
    BY <2>2, <2>3 DEF Event, Events, ToolEvents
  <2>5. QED
    BY <2>4 DEF m
<1>5. S \subseteq ToolEvents(n)
  BY <1>4
<1>6. SetToSeq(S) \in Seq(ToolEvents(n))
  <2> HIDE DEF S
  <2>1. QED
    BY <1>3, <1>5
<1>7. QED
  BY <1>6

\* An assignment inside an aggregator is one to its field.
LEMMA AggAssign ==
  ASSUME NEW a, NEW o, NEW w, NEW x, NEW g, a = [open |-> o, tools |-> w]
  PROVE  /\ [a EXCEPT !.open[x] = g] = [open |-> [o EXCEPT ![x] = g], tools |-> w]
         /\ [a EXCEPT !.tools[x] = g] = [open |-> o, tools |-> [w EXCEPT ![x] = g]]
OBVIOUS

\* A step takes an aggregator on, and tells of a text in what it emits first.
LEMMA AggStep ==
  ASSUME log \in Seq(Frames), NEW n \in 1..Len(log), NEW p \in Nat, p < n, NEW a \in Aggs(p)
  PROVE  /\ Step(a, n).agg \in Aggs(n) /\ (~Speaks(n) => Step(a, n).agg \in Aggs(p))
         /\ Step(a, n).out \in Seq(Events(n)) /\ (~IsText(n) => Step(a, n).out \in Seq(ToolEvents(n)))
         /\ IsText(n) => /\ Step(a, n).out # <<>> /\ Step(a, n).out[1].msg \in Upto(n)
                         /\ n \in ToSet(Step(a, n).out[1].msg.text)
<1> DEFINE shut == [r \in Texts |-> None]
<1> SUFFICES ASSUME NEW open, NEW tools, NEW f, NEW s, open = a.open, tools = a.tools, f = log[n], s = Step(a, n)
             PROVE  /\ s.agg \in Aggs(n) /\ (~Speaks(n) => s.agg \in Aggs(p))
                    /\ s.out \in Seq(Events(n)) /\ (~IsText(n) => s.out \in Seq(ToolEvents(n)))
                    /\ IsText(n) => s.out # <<>> /\ s.out[1].msg \in Upto(n) /\ n \in ToSet(s.out[1].msg.text)
  OBVIOUS
<1>0. /\ n \in Nat /\ n \in Nat \ {0} /\ p <= n
      /\ open \in Opens(p) /\ tools \in Waits(p) /\ open \in Opens(n) /\ tools \in Waits(n)
      /\ a = [open |-> open, tools |-> tools] /\ a \in Aggs(n) /\ a \in Aggs(p)
      /\ shut \in Opens(n) /\ shut \in Opens(p)
  <2>1. n \in Nat /\ n \in Nat \ {0} /\ p <= n
    OBVIOUS
  <2>2. open \in Opens(p) /\ tools \in Waits(p) /\ a = [open |-> open, tools |-> tools]
    BY DEF Aggs
  <2>3. QED
    BY <2>1, <2>2, AggsGrow, NoAggKind
<1> HIDE DEF shut
<1>1. ASSUME NEW q \in Nat, NEW o \in Opens(q), NEW w \in Waits(q)
      PROVE  [open |-> o, tools |-> w] \in Aggs(q)
  BY DEF Aggs
<1>2. ASSUME NEW q \in Nat, NEW o \in Opens(q), NEW r \in Texts, NEW m \in Upto(q), m.role = r
      PROVE  [o EXCEPT ![r] = m] \in Opens(q)
  BY <1>2 DEF Opens
<1>3. ASSUME NEW q \in Nat, NEW w \in Waits(q), NEW t \in Tools, NEW m \in Upto(q), m.role = "tool", ToSet(m.text) = {}
      PROVE  [w EXCEPT ![t] = m] \in Waits(q)
  BY <1>3 DEF Waits
<1>4. ASSUME NEW m \in Upto(n), NEW e \in {"chat", "update"}
      PROVE  /\ <<Event(e, m)>> \in Seq(Events(n)) /\ <<Event(e, m)>> # <<>>
             /\ <<Event(e, m)>>[1].msg = m
  <2>1. m # None
    BY NoneApart
  <2>2. Event(e, m) \in Events(n) /\ Event(e, m).msg = m
    BY <2>1 DEF Events, Event
  <2>3. QED
    BY <2>2
<1>00. ASSUME NEW m \in Upto(n), NEW e \in {"chat", "update"}, m.role = "tool", ToSet(m.text) = {}
       PROVE  <<Event(e, m)>> \in Seq(Events(n)) /\ <<Event(e, m)>> \in Seq(ToolEvents(n))
  <2>1. m # None
    BY NoneApart
  <2>2. Event(e, m) \in Events(n) /\ Event(e, m) \in ToolEvents(n)
    BY <1>00, <2>1 DEF Events, Event, ToolEvents
  <2>3. QED
    BY <2>2
<1>5. CASE f.kind = "text" /\ open[f.of] = None
  <2>1. s = [agg |-> [a EXCEPT !.open = [shut EXCEPT ![f.of] = Bubble(n)]], out |-> <<Event("chat", Bubble(n))>>]
    BY <1>5 DEF Step, shut
  <2>2. Bubble(n) \in Upto(n) /\ Bubble(n).role = f.of /\ ToSet(Bubble(n).text) = {n} /\ f.of \in Texts
    BY <1>5, BubbleKind, FrameKind
  <2>3. [shut EXCEPT ![f.of] = Bubble(n)] \in Opens(n)
    BY <1>0, <1>2, <2>2
  <2>4. s.agg = [open |-> [shut EXCEPT ![f.of] = Bubble(n)], tools |-> tools]
    BY <1>0, <2>1
  <2>5. s.agg \in Aggs(n)
    BY <1>0, <1>1, <2>3, <2>4
  <2>6. s.out = <<Event("chat", Bubble(n))>> /\ Speaks(n) /\ IsText(n)
    BY <1>5, <2>1 DEF Speaks, IsText
  <2>7. QED
    BY <1>4, <2>2, <2>5, <2>6
<1>6. CASE f.kind = "text" /\ open[f.of] # None
  <2> DEFINE g == Grown(open[f.of], n)
  <2>1. s = [agg |-> [a EXCEPT !.open[f.of] = g], out |-> <<Event("update", g)>>]
    BY <1>6 DEF Step
  <2>2. f.of \in Texts
    BY <1>6, FrameKind
  <2>3. open[f.of] \in Upto(p) /\ open[f.of].role = f.of
    BY <1>0, <1>6, <2>2 DEF Opens
  <2>4. g \in Upto(n) /\ g.role = f.of /\ n \in ToSet(g.text)
    <3> DEFINE m == open[f.of]
    <3>1. m \in Upto(p) /\ m.role = f.of
      BY <2>3
    <3> HIDE DEF m
    <3>2. Grown(m, n).role = m.role
      BY <1>0, <3>1, GrownKind
    <3>3. Gains(Grown(m, n), m, n) /\ Grown(m, n) \in Upto(n)
      BY <1>0, <3>1, GrownGains
    <3>4. n \in ToSet(Grown(m, n).text)
      BY <3>3 DEF Gains
    <3>5. g = Grown(m, n)
      BY DEF m
    <3>6. QED
      BY <3>1, <3>2, <3>3, <3>4, <3>5
  <2> HIDE DEF g
  <2>5. [open EXCEPT ![f.of] = g] \in Opens(n)
    BY <1>0, <1>2, <2>2, <2>4
  <2>6. s.agg = [open |-> [open EXCEPT ![f.of] = g], tools |-> tools]
    <3>1. s.agg = [a EXCEPT !.open[f.of] = g]
      BY <2>1
    <3>2. a = [open |-> open, tools |-> tools]
      BY <1>0
    <3>3. QED
      BY <3>1, <3>2, AggAssign
  <2>7. s.agg \in Aggs(n)
    BY <1>0, <1>1, <2>5, <2>6
  <2>8. s.out = <<Event("update", g)>> /\ Speaks(n) /\ IsText(n)
    BY <1>6, <2>1 DEF Speaks, IsText
  <2>9. QED
    BY <1>4, <2>4, <2>7, <2>8
<1>7. CASE f.kind = "start"
  <2>1. s = [agg |-> [open |-> shut, tools |-> [tools EXCEPT ![f.of] = Tool(n)]], out |-> <<Event("chat", Tool(n))>>]
    BY <1>7 DEF Step, shut
  <2>2. Tool(n) \in Upto(n) /\ Tool(n).role = "tool" /\ ToSet(Tool(n).text) = {} /\ f.of \in Tools
    <3>1. Tool(n).role = "tool" /\ Tool(n).text = <<>> /\ ToSet(<<>>) = {}
      BY DEF Tool, ToSet
    <3>2. QED
      BY <1>0, <1>7, <3>1, ToolKind, FrameKind
  <2>3. [tools EXCEPT ![f.of] = Tool(n)] \in Waits(n)
    BY <1>0, <1>3, <2>2
  <2>4. s.agg \in Aggs(n)
    <3>1. s.agg = [open |-> shut, tools |-> [tools EXCEPT ![f.of] = Tool(n)]]
      BY <2>1
    <3>2. QED
      BY <1>0, <1>1, <2>3, <3>1
  <2>5. s.out = <<Event("chat", Tool(n))>> /\ Speaks(n) /\ ~IsText(n)
    BY <1>7, <2>1 DEF Speaks, IsText
  <2>6. QED
    BY <1>00, <2>2, <2>4, <2>5
<1>8. CASE f.kind = "result" /\ tools[f.of] # None
  <2> DEFINE g == Ended(tools[f.of], n, "ok")
  <2>1. s = [agg |-> [a EXCEPT !.tools[f.of] = None], out |-> <<Event("update", g)>>]
    BY <1>8 DEF Step
  <2>2. /\ f.of \in Tools /\ tools[f.of] \in Upto(p) /\ "ok" \in Summaries
        /\ tools[f.of].role = "tool" /\ ToSet(tools[f.of].text) = {}
    <3>1. f.of \in Tools
      BY <1>8, FrameKind
    <3>2. QED
      BY <1>0, <1>8, <3>1 DEF Waits, Summaries
  <2>3. g \in Upto(n) /\ g.role = "tool" /\ ToSet(g.text) = {}
    BY <1>0, <2>2, EndedKind
  <2> HIDE DEF g
  <2>4. [tools EXCEPT ![f.of] = None] \in Waits(p) /\ [tools EXCEPT ![f.of] = None] \in Waits(n)
    BY <1>0, <2>2 DEF Waits
  <2>5. s.agg = [open |-> open, tools |-> [tools EXCEPT ![f.of] = None]]
    <3>1. s.agg = [a EXCEPT !.tools[f.of] = None]
      BY <2>1
    <3>2. a = [open |-> open, tools |-> tools]
      BY <1>0
    <3>3. QED
      BY <3>1, <3>2, AggAssign
  <2>6. s.agg \in Aggs(n) /\ s.agg \in Aggs(p)
    BY <1>0, <1>1, <2>4, <2>5
  <2>7. s.out = <<Event("update", g)>> /\ ~IsText(n)
    BY <1>8, <2>1 DEF IsText
  <2>8. QED
    BY <1>00, <2>3, <2>6, <2>7
<1>9. CASE f.kind = "stop"
  <2> DEFINE q == SetToSeq({Event("update", Ended(tools[t], n, "orphan")) : t \in {x \in Tools : tools[x] # None}})
             e == Event("stop", None)
  <2>1. s = [agg |-> NoAgg, out |-> q \o <<e>>]
    BY <1>9 DEF Step
  <2>2. NoAgg \in Aggs(n) /\ NoAgg \in Aggs(p)
    BY <1>0, NoAggKind
  <2>3. q \in Seq(ToolEvents(n))
    BY <1>0, OrphansKind
  <2>4. e \in ToolEvents(n)
    BY DEF Event, Events, ToolEvents
  <2> HIDE DEF q, e
  <2>5. q \o <<e>> \in Seq(ToolEvents(n)) /\ q \o <<e>> \in Seq(Events(n))
    <3> DEFINE E == ToolEvents(n)
               D == Events(n)
    <3>1. q \in Seq(E) /\ e \in E /\ E \subseteq D
      BY <2>3, <2>4 DEF ToolEvents
    <3> HIDE DEF E, D
    <3>2. q \o <<e>> \in Seq(E)
      BY <3>1
    <3>3. q \in Seq(D) /\ e \in D
      BY <3>1
    <3>4. q \o <<e>> \in Seq(D)
      BY <3>3
    <3>5. QED
      BY <3>2, <3>4 DEF E, D
  <2>6. ~IsText(n)
    BY <1>9 DEF IsText
  <2>7. QED
    BY <2>1, <2>2, <2>5, <2>6
<1>10. CASE /\ ~(f.kind = "text") /\ ~(f.kind = "start") /\ ~(f.kind = "result" /\ tools[f.of] # None)
            /\ ~(f.kind = "stop")
  <2>1. s = [agg |-> a, out |-> <<>>]
    BY <1>10 DEF Step
  <2>2. ~IsText(n)
    BY <1>10 DEF IsText
  <2>3. s.agg = a /\ s.out = <<>> /\ <<>> \in Seq(Events(n)) /\ <<>> \in Seq(ToolEvents(n))
    BY <2>1
  <2>4. QED
    BY <1>0, <2>2, <2>3
<1>11. QED
  BY <1>5, <1>6, <1>7, <1>8, <1>9, <1>10

\* What the first k of ns leave open was begun or went on at q or before.
Early(q, k) == IF k < q THEN k ELSE q

\* A snapshot whose speech ends at q leaves nothing later open.
LEMMA WarmFollows ==
  ASSUME log \in Seq(Frames), NEW ns, Numbers(ns), NEW q \in Nat,
         \A k \in 1..Len(ns) : Speaks(ns[k]) => ns[k] <= q
  PROVE  \E w : /\ w[0] = NoAgg /\ Warm(ns) = w[Len(ns)]
                /\ \A k \in 1..Len(ns) : w[k] = Step(w[k - 1], ns[k]).agg
                /\ \A k \in 0..Len(ns) : w[k] \in Aggs(Early(q, EndsAt(ns, k)))
<1> DEFINE n == Len(ns)
           T == [k \in 0..n |-> Aggs(Early(q, EndsAt(ns, k)))]
           All == UNION {T[k] : k \in 0..n}
           F == [p \in (1..n) \X All |-> Step(p[2], ns[p[1]]).agg]
<1>1. /\ n \in Nat /\ \A k \in 0..n : EndsAt(ns, k) \in Nat
      /\ \A k \in 1..n : /\ ns[k] \in 1..Len(log) /\ EndsAt(ns, k) = ns[k]
                         /\ EndsAt(ns, k - 1) < ns[k] /\ k - 1 \in 0..n
  BY EndsKind
<1>2. NoAgg \in T[0]
  <2>1. Early(q, EndsAt(ns, 0)) \in Nat
    BY <1>1 DEF Early
  <2>2. QED
    BY <1>1, <2>1, NoAggKind
<1>3. ASSUME NEW k \in 1..n, NEW a \in T[k - 1]
      PROVE  F[<<k, a>>] = Step(a, ns[k]).agg /\ F[<<k, a>>] \in T[k]
  <2> DEFINE p == Early(q, EndsAt(ns, k - 1))
             m == ns[k]
  <2>1. a \in Aggs(p) /\ k \in 0..n
    BY <1>1
  <2>2. <<k, a>> \in (1..n) \X All
    BY <1>1
  <2>3. F[<<k, a>>] = Step(a, ns[k]).agg
    BY <2>2
  <2>4. p \in Nat /\ m \in 1..Len(log) /\ p < m /\ Early(q, m) \in Nat /\ p <= Early(q, m)
    BY <1>1 DEF Early
  <2>5. Step(a, m).agg \in Aggs(m) /\ (~Speaks(m) => Step(a, m).agg \in Aggs(p))
    <3>1. a \in Aggs(p)
      BY <2>1
    <3> HIDE DEF p, m
    <3>2. QED
      BY <2>4, <3>1, AggStep
  <2>6. Step(a, m).agg \in Aggs(Early(q, m))
    <3>1. CASE Speaks(m)
      <4>1. Early(q, m) = m
        BY <1>1, <3>1 DEF Early
      <4>2. QED
        BY <2>5, <4>1
    <3>2. CASE ~Speaks(m)
      <4> HIDE DEF p, m
      <4>1. Step(a, m).agg \in Aggs(p)
        BY <2>5, <3>2
      <4>2. QED
        BY <2>4, <4>1, AggsGrow
    <3>3. QED
      BY <3>1, <3>2
  <2>7. QED
    BY <1>1, <2>1, <2>3, <2>6
<1> HIDE DEF T, F, All
<1>4. PICK f : Follows(f, NoAgg, F, n) /\ \A k \in 0..n : f[k] \in T[k]
  <2>1. \A k \in 1..n : \A a \in T[k - 1] : F[<<k, a>>] \in T[k]
    BY <1>3, Zenon
  <2> HIDE DEF n
  <2>2. QED
    BY <1>1, <1>2, <2>1, FollowsThrough
<1>5. f = [k \in 0..n |-> IF k = 0 THEN NoAgg ELSE Step(f[k - 1], ns[k]).agg]
  <2>1. f = [k \in 0..n |-> IF k = 0 THEN NoAgg ELSE F[<<k, f[k - 1]>>]]
    BY <1>4 DEF Follows
  <2>2. \A k \in 1..n : F[<<k, f[k - 1]>>] = Step(f[k - 1], ns[k]).agg
    BY <1>1, <1>3, <1>4
  <2>3. \A k \in 0..n : k # 0 => k \in 1..n
    BY <1>1
  <2>4. \A k \in 0..n : (IF k = 0 THEN NoAgg ELSE F[<<k, f[k - 1]>>])
                      = (IF k = 0 THEN NoAgg ELSE Step(f[k - 1], ns[k]).agg)
    BY <2>2, <2>3
  <2>5. QED
    BY <2>1, <2>4
<1> DEFINE G(g) == g = [k \in 0..Len(ns) |-> IF k = 0 THEN NoAgg ELSE Step(g[k - 1], ns[k]).agg]
           c == CHOOSE g : G(g)
<1>6. G(c) /\ Warm(ns) = c[Len(ns)]
  <2>1. \E g : G(g)
    BY <1>5
  <2>2. Warm(ns) = c[Len(ns)]
    BY DEF Warm
  <2> HIDE DEF G
  <2>3. QED
    BY <2>1, <2>2
<1>7. c[0] = NoAgg /\ \A k \in 1..n : c[k] = Step(c[k - 1], ns[k]).agg
  <2> HIDE DEF c
  <2>1. c = [k \in 0..n |-> IF k = 0 THEN NoAgg ELSE Step(c[k - 1], ns[k]).agg]
    BY <1>6
  <2> HIDE DEF G, n
  <2>2. 0 \in 0..n /\ \A k \in 1..n : k \in 0..n /\ k # 0
    BY <1>1
  <2>3. QED
    BY <2>1, <2>2
<1> HIDE DEF c, G
<1>8. \A k \in 0..n : c[k] \in T[k]
  <2>1. c[0] \in T[0]
    BY <1>2, <1>7
  <2>2. \A k \in 1..n : c[k - 1] \in T[k - 1] => c[k] \in T[k]
    BY <1>3, <1>7
  <2> HIDE DEF n
  <2>3. QED
    BY <1>1, <2>1, <2>2, GoesThrough
<1>9. \A k \in 0..n : c[k] \in Aggs(Early(q, EndsAt(ns, k)))
  BY <1>8 DEF T
<1>10. QED
  BY <1>6, <1>7, <1>9

----------------------------------------------------------------------------
(* What a client sees *)

\* A set of numbers with a bound has a greatest one.
LEMMA GreatestNumber ==
  ASSUME NEW S, S \subseteq Nat, S # {}, NEW n \in Nat, \A x \in S : x <= n
  PROVE  Max(S) \in S /\ \A x \in S : x <= Max(S)
<1> DEFINE Above == {b \in Nat : \A x \in S : x <= b}
<1>1. PICK b \in Above : \A c \in Above : b <= c
  <2>1. Above \subseteq Nat /\ n \in Above
    OBVIOUS
  <2> HIDE DEF Above
  <2>2. QED
    BY <2>1, LeastNumber
<1>2. b \in Nat /\ \A x \in S : x <= b
  OBVIOUS
<1>3. b \in S
  <2> SUFFICES ASSUME b \notin S PROVE FALSE
    OBVIOUS
  <2>1. \A x \in S : x \in Nat /\ x <= b /\ x # b
    BY <1>2
  <2>2. \A x \in S : x <= b - 1
    BY <1>2, <2>1
  <2>3. PICK x \in S : TRUE
    OBVIOUS
  <2>4. b - 1 \in Nat
    BY <1>2, <2>1, <2>3
  <2>5. b - 1 \in Above
    BY <2>2, <2>4
  <2>6. b <= b - 1
    BY <1>1, <2>5
  <2>7. QED
    BY <1>2, <2>6
<1>4. \A y \in S : b >= y
  BY <1>2
<1>5. Max(S) \in S /\ \A y \in S : Max(S) >= y
  BY <1>3, <1>4 DEF Max
<1>6. QED
  BY <1>5

\* The line of ms an update replaces.
SameLine(ms, m) ==
  {i \in DOMAIN ms : ms[i].role = m.role /\ (m.role = "tool" => ms[i].first = m.first)}

\* An event puts its message at the end or in the place of another, or, if it
\* is a stop, changes nothing.
LEMMA ShownKind ==
  ASSUME NEW top \in Nat, NEW ms \in Seq(Upto(top)), NEW n \in Nat, top <= n, NEW e \in Events(n)
  PROVE  /\ Shown(ms, e) \in Seq(Upto(n))
         /\ e.event = "stop" => Shown(ms, e) = ms
         /\ e.event # "stop" =>
              /\ e.msg \in Upto(n)
              /\ e.event = "chat" \/ SameLine(ms, e.msg) = {} => Shown(ms, e) = Append(ms, e.msg)
              /\ ~(e.event = "chat" \/ SameLine(ms, e.msg) = {}) =>
                   /\ Max(SameLine(ms, e.msg)) \in SameLine(ms, e.msg)
                   /\ \A i \in SameLine(ms, e.msg) : i <= Max(SameLine(ms, e.msg))
                   /\ Shown(ms, e) = [ms EXCEPT ![Max(SameLine(ms, e.msg))] = e.msg]
<1> SUFFICES ASSUME NEW m, m = e.msg, NEW same, same = SameLine(ms, m), NEW x, x = Shown(ms, e)
             PROVE  /\ x \in Seq(Upto(n))
                    /\ e.event = "stop" => x = ms
                    /\ e.event # "stop" =>
                         /\ m \in Upto(n)
                         /\ e.event = "chat" \/ same = {} => x = Append(ms, m)
                         /\ ~(e.event = "chat" \/ same = {}) =>
                              /\ Max(same) \in same
                              /\ \A i \in same : i <= Max(same)
                              /\ x = [ms EXCEPT ![Max(same)] = m]
  OBVIOUS
<1>1. ms \in Seq(Upto(n)) /\ Len(ms) \in Nat /\ DOMAIN ms = 1..Len(ms)
  <2>1. Upto(top) \subseteq Upto(n)
    BY UptoGrows
  <2>2. QED
    BY <2>1
<1>2. e.event # "stop" => m \in Upto(n)
  BY DEF Events
<1>3. x = IF e.event = "stop" THEN ms
          ELSE IF e.event = "chat" \/ same = {} THEN Append(ms, m) ELSE [ms EXCEPT ![Max(same)] = m]
  BY DEF Shown, SameLine
<1>4. same \subseteq 1..Len(ms)
  BY <1>1 DEF SameLine
<1>5. CASE e.event = "stop"
  BY <1>1, <1>3, <1>5
<1>6. CASE e.event # "stop" /\ (e.event = "chat" \/ same = {})
  <2>1. x = Append(ms, m)
    BY <1>3, <1>6
  <2>2. x \in Seq(Upto(n))
    BY <1>1, <1>2, <1>6, <2>1, AppendSet
  <2>3. QED
    BY <1>2, <1>6, <2>1, <2>2
<1>7. CASE e.event # "stop" /\ ~(e.event = "chat" \/ same = {})
  <2>1. x = [ms EXCEPT ![Max(same)] = m]
    BY <1>3, <1>7
  <2>2. Max(same) \in same /\ \A i \in same : i <= Max(same)
    <3>1. same \subseteq Nat /\ same # {} /\ \A i \in same : i <= Len(ms)
      BY <1>1, <1>4, <1>7
    <3>2. QED
      BY <1>1, <3>1, GreatestNumber
  <2>3. x \in Seq(Upto(n))
    <3>1. Max(same) \in 1..Len(ms) /\ m \in Upto(n)
      BY <1>2, <1>4, <1>7, <2>2
    <3>2. QED
      BY <1>1, <2>1, <3>1, ExceptSeq
  <2>4. QED
    BY <1>2, <1>7, <2>1, <2>2, <2>3
<1>8. QED
  BY <1>5, <1>6, <1>7

\* The events es shown one after the other.
LEMMA ReadsFollows ==
  ASSUME NEW top \in Nat, NEW ms \in Seq(Upto(top)), NEW n \in Nat, top <= n, NEW es \in Seq(Events(n))
  PROVE  \E v : /\ v[0] = ms /\ Reads(ms, es) = v[Len(es)]
                /\ \A k \in 1..Len(es) : v[k] = Shown(v[k - 1], es[k])
                /\ \A k \in 0..Len(es) : v[k] \in Seq(Upto(n))
<1> DEFINE len == Len(es)
           All == Seq(Upto(n))
           T == [k \in 0..len |-> All]
           F == [p \in (1..len) \X All |-> Shown(p[2], es[p[1]])]
<1>1. /\ len \in Nat /\ \A k \in 1..len : es[k] \in Events(n) /\ k - 1 \in 0..len /\ k \in 0..len /\ k # 0
      /\ 0 \in 0..len
  OBVIOUS
<1>2. ms \in All
  <2>1. Upto(top) \subseteq Upto(n)
    BY UptoGrows
  <2>2. QED
    BY <2>1
<1>3. ASSUME NEW k \in 1..len, NEW s \in All
      PROVE  F[<<k, s>>] = Shown(s, es[k]) /\ F[<<k, s>>] \in All
  <2>1. F[<<k, s>>] = Shown(s, es[k])
    OBVIOUS
  <2>2. Shown(s, es[k]) \in All
    <3>1. es[k] \in Events(n) /\ n <= n
      BY <1>1
    <3>2. QED
      BY <3>1, ShownKind
  <2>3. QED
    BY <2>1, <2>2
<1>4. T[0] = All /\ (\A k \in 1..len : T[k] = All /\ T[k - 1] = All) /\ \A k \in 0..len : T[k] = All
  BY <1>1
<1> HIDE DEF T, F, All
<1>5. PICK f : Follows(f, ms, F, len) /\ \A k \in 0..len : f[k] \in T[k]
  <2>1. \A k \in 1..len : \A a \in T[k - 1] : F[<<k, a>>] \in T[k]
    BY <1>3, <1>4, Zenon
  <2>2. ms \in T[0]
    BY <1>2, <1>4
  <2> HIDE DEF len
  <2>3. QED
    BY <1>1, <2>1, <2>2, FollowsThrough
<1>6. f = [k \in 0..len |-> IF k = 0 THEN ms ELSE Shown(f[k - 1], es[k])]
  <2>1. f = [k \in 0..len |-> IF k = 0 THEN ms ELSE F[<<k, f[k - 1]>>]]
    BY <1>5 DEF Follows
  <2>2. \A k \in 1..len : F[<<k, f[k - 1]>>] = Shown(f[k - 1], es[k])
    BY <1>1, <1>3, <1>4, <1>5
  <2>3. \A k \in 0..len : k # 0 => k \in 1..len
    BY <1>1
  <2>4. \A k \in 0..len : (IF k = 0 THEN ms ELSE F[<<k, f[k - 1]>>])
                        = (IF k = 0 THEN ms ELSE Shown(f[k - 1], es[k]))
    BY <2>2, <2>3
  <2>5. QED
    BY <2>1, <2>4
<1> DEFINE G(g) == g = [k \in 0..Len(es) |-> IF k = 0 THEN ms ELSE Shown(g[k - 1], es[k])]
           c == CHOOSE g : G(g)
<1>7. G(c) /\ Reads(ms, es) = c[Len(es)]
  <2>1. \E g : G(g)
    BY <1>6
  <2>2. Reads(ms, es) = c[Len(es)]
    BY DEF Reads
  <2> HIDE DEF G
  <2>3. QED
    BY <2>1, <2>2
<1>8. c[0] = ms /\ \A k \in 1..len : c[k] = Shown(c[k - 1], es[k])
  <2> HIDE DEF c
  <2>1. c = [k \in 0..len |-> IF k = 0 THEN ms ELSE Shown(c[k - 1], es[k])]
    BY <1>7
  <2> HIDE DEF G, len
  <2>2. 0 \in 0..len
    BY <1>1
  <2>3. c[0] = ms
    BY <2>1, <2>2
  <2>4. ASSUME NEW k \in 1..len
        PROVE  c[k] = Shown(c[k - 1], es[k])
    <3>1. k \in 0..len /\ k # 0
      BY <1>1
    <3>2. c[k] = IF k = 0 THEN ms ELSE Shown(c[k - 1], es[k])
      BY <2>1, <3>1
    <3>3. QED
      BY <3>1, <3>2
  <2>5. QED
    BY <2>3, <2>4
<1> HIDE DEF c, G
<1>9. \A k \in 0..len : c[k] \in T[k]
  <2>1. c[0] \in T[0]
    BY <1>2, <1>4, <1>8
  <2> HIDE DEF len
  <2>2. ASSUME NEW k \in 1..len, c[k - 1] \in T[k - 1]
        PROVE  c[k] \in T[k]
    <3>1. T[k] = All /\ T[k - 1] = All
      BY <1>4
    <3>2. c[k] = Shown(c[k - 1], es[k])
      BY <1>8
    <3>3. F[<<k, c[k - 1]>>] = Shown(c[k - 1], es[k]) /\ F[<<k, c[k - 1]>>] \in All
      BY <1>3, <2>2, <3>1
    <3>4. QED
      BY <3>1, <3>2, <3>3
  <2>3. QED
    BY <1>1, <2>1, <2>2, GoesThrough
<1>10. \A k \in 0..len : c[k] \in Seq(Upto(n))
  BY <1>4, <1>9 DEF All
<1>11. QED
  BY <1>7, <1>8, <1>10

----------------------------------------------------------------------------
(* The frames the ring keeps *)

\* The ring has the frames after n that it has not forgotten, in their order.
LEMMA NewerKind ==
  ASSUME log \in Seq(Frames), NEW n \in 0..Len(log)
  PROVE  /\ Numbers(Newer(n)) /\ \A i \in DOMAIN Newer(n) : n < Newer(n)[i]
         /\ \A x \in (n + 1)..Len(log) : x \in (n + 1)..Forgotten \/ x \in ToSet(Newer(n))
         /\ Forgotten \in 0..Len(log)
<1> DEFINE first == IF Forgotten > n THEN Forgotten ELSE n
           len == Len(log)
           size == IF first < len THEN len - first ELSE 0
           s == [i \in 1..size |-> first + i]
<1>1. Forgotten \in 0..len /\ len \in Nat
  BY Sizes DEF Forgotten
<1>2. first \in n..len /\ first \in Nat /\ n <= first /\ Forgotten <= first /\ first <= len /\ (first = n \/ first = Forgotten)
  BY <1>1
<1> HIDE DEF first
<1>3. size \in Nat /\ size = len - first
  BY <1>1, <1>2
<1>4. Newer(n) = s
  BY DEF Newer, first
<1> HIDE DEF size, len
<1>5. \A i \in 1..size : s[i] = first + i /\ first + i \in 1..len /\ n < first + i
  BY <1>1, <1>2, <1>3
<1>6. s \in [1..size -> Nat] /\ DOMAIN s = 1..size
  BY <1>2
<1>7. s \in Seq(Nat) /\ Len(s) = size
  BY <1>3, <1>6
<1>8. \A i, j \in 1..size : i < j => first + i < first + j
  BY <1>2, <1>3
<1>9. \A x \in (n + 1)..len : x \in (n + 1)..Forgotten \/ (x - first \in 1..size /\ x = first + (x - first))
  BY <1>1, <1>2, <1>3
<1> HIDE DEF s
<1>10. Numbers(s)
  BY <1>5, <1>6, <1>7, <1>8 DEF Numbers, len
<1>11. \A x \in (n + 1)..len : x \in (n + 1)..Forgotten \/ x \in ToSet(s)
  BY <1>5, <1>6, <1>9 DEF ToSet
<1>12. QED
  BY <1>1, <1>4, <1>5, <1>6, <1>10, <1>11 DEF len

\* A list of numbers cut after its first k.
LEMMA NumbersCut ==
  ASSUME log \in Seq(Frames), NEW ns, Numbers(ns), NEW k \in 0..Len(ns)
  PROVE  /\ Numbers(SubSeq(ns, 1, k)) /\ Len(SubSeq(ns, 1, k)) = k
         /\ \A i \in 1..k : SubSeq(ns, 1, k)[i] = ns[i]
<1>1. Len(ns) \in Nat /\ ns \in Seq(Nat) /\ DOMAIN ns = 1..Len(ns) /\ \A i \in 1..k : ns[i] \in Nat
  BY DEF Numbers
<1> DEFINE s == SubSeq(ns, 1, k)
<1>2. s \in Seq(Nat) /\ Len(s) = k /\ \A i \in 1..k : s[i] = ns[i]
  BY <1>1, SubSeqProperties
<1>3. DOMAIN s = 1..k /\ 1..k \subseteq 1..Len(ns)
  BY <1>1, <1>2
<1> HIDE DEF s
<1>4. Numbers(s)
  BY <1>1, <1>2, <1>3 DEF Numbers
<1>5. QED
  BY <1>2, <1>4 DEF s

----------------------------------------------------------------------------
(* Each text in its place *)

\* A message has the texts of its role, in their order, and a bubble's number
\* is that of its last.
Neat(m) ==
  /\ m.role = "tool" => ToSet(m.text) = {}
  /\ m.role \in Texts => m.seq \in ToSet(m.text)
  /\ \A i \in DOMAIN m.text : /\ log[m.text[i]].of = m.role
                              /\ \A j \in DOMAIN m.text : j < i => m.text[j] < m.text[i]

\* A list has its texts in their order.
Tidy(ms) ==
  /\ \A i \in DOMAIN ms : Neat(ms[i])
  /\ \A i, j \in DOMAIN ms :
       i < j => \A x \in ToSet(ms[i].text), y \in ToSet(ms[j].text) : x < y

\* A message is neat when it begins,
LEMMA NeatBegun ==
  ASSUME log \in Seq(Frames), NEW n \in 1..Len(log)
  PROVE  /\ log[n].kind = "text" => Neat(Bubble(n))
         /\ Neat(Tool(n)) /\ Tool(n).role = "tool" /\ ToSet(Tool(n).text) = {}
<1>1. ASSUME log[n].kind = "text"
      PROVE  Neat(Bubble(n))
  <2>1. log[n].of \in Texts /\ n \in Nat
    BY <1>1, FrameKind
  <2>2. Bubble(n).text = <<n>> /\ Bubble(n).role = log[n].of /\ Bubble(n).seq = n
    BY DEF Bubble
  <2>3. DOMAIN <<n>> = {1} /\ <<n>>[1] = n /\ ToSet(<<n>>) = {n}
    BY DEF ToSet
  <2>4. log[n].of # "tool"
    BY <2>1 DEF Texts
  <2>5. QED
    BY <2>2, <2>3, <2>4 DEF Neat
<1>2. Tool(n).text = <<>> /\ Tool(n).role = "tool" /\ ToSet(<<>>) = {} /\ DOMAIN <<>> = {} /\ "tool" \notin Texts
  BY DEF Tool, ToSet, Texts
<1>3. QED
  BY <1>1, <1>2 DEF Neat

\* ... when it grows by a text of its role,
LEMMA NeatGrown ==
  ASSUME log \in Seq(Frames), NEW n \in 1..Len(log), NEW p \in Nat, p < n, NEW m \in Upto(p), Neat(m),
         m.role \in Texts, log[n].of = m.role
  PROVE  Neat(Grown(m, n))
<1> DEFINE g == Grown(m, n)
           s == m.text
           t == Append(s, n)
<1>1. n \in Nat /\ m.text \in Seq(Nat) /\ ToSet(m.text) \subseteq 1..p /\ m \in Messages
  BY MessageKind
<1>2. g.role = m.role /\ g.seq = n /\ g.text = t
  BY <1>1, MessageFields
<1>3. /\ Len(t) = Len(s) + 1 /\ (\A i \in 1..Len(s) : t[i] = s[i]) /\ t[Len(s) + 1] = n
      /\ ToSet(t) = ToSet(s) \cup {n} /\ t \in Seq(Nat)
  <2>1. s \in Seq(Nat) /\ n \in Nat
    BY <1>1
  <2> HIDE DEF s
  <2>2. QED
    BY <2>1, AppendSet
<1>4. Len(s) \in Nat /\ DOMAIN s = 1..Len(s) /\ DOMAIN t = 1..(Len(s) + 1)
  BY <1>1, <1>3
<1>5. \A i \in DOMAIN s : s[i] \in ToSet(s)
  BY DEF ToSet
<1>6. \A i \in DOMAIN s : s[i] \in Nat /\ s[i] < n
  <2>1. \A x \in 1..p : x \in Nat /\ x < n
    BY <1>1
  <2> HIDE DEF s
  <2>2. QED
    BY <1>1, <1>5, <2>1 DEF s
<1>7. \A i \in DOMAIN s : /\ log[s[i]].of = m.role
                          /\ \A j \in DOMAIN s : j < i => s[j] < s[i]
  BY DEF Neat
<1> HIDE DEF t, s, g
<1>8. \A i \in DOMAIN t : (i \in DOMAIN s /\ t[i] = s[i] /\ i < Len(s) + 1) \/ (i = Len(s) + 1 /\ t[i] = n)
  BY <1>3, <1>4
<1>9. \A i, j \in DOMAIN t : j < i => j \in DOMAIN s /\ t[j] = s[j]
  BY <1>3, <1>4
<1>10. ASSUME NEW i \in DOMAIN t
       PROVE  log[t[i]].of = m.role /\ \A j \in DOMAIN t : j < i => t[j] < t[i]
  <2>1. CASE i \in DOMAIN s /\ t[i] = s[i]
    BY <1>7, <1>9, <2>1
  <2>2. CASE t[i] = n
    BY <1>6, <1>9, <2>2
  <2>3. QED
    BY <1>8, <2>1, <2>2
<1>11. m.role # "tool" /\ n \in ToSet(t)
  BY <1>3 DEF Texts
<1>12. Neat(g)
  BY <1>2, <1>10, <1>11 DEF Neat
<1>13. QED
  BY <1>12 DEF g

\* ... and when it is a tool's and ends.
LEMMA NeatEnded ==
  ASSUME NEW p \in Nat, NEW m \in Upto(p), m.role = "tool", ToSet(m.text) = {}, NEW n \in Nat, NEW u \in Summaries
  PROVE  Neat(Ended(m, n, u)) /\ Ended(m, n, u).role = "tool" /\ ToSet(Ended(m, n, u).text) = {}
<1>1. m \in Messages
  BY MessageKind
<1>2. Ended(m, n, u).role = "tool" /\ Ended(m, n, u).text = m.text /\ "tool" \notin Texts
  BY <1>1, MessageFields DEF Texts
<1>3. DOMAIN m.text = {}
  BY DEF ToSet
<1>4. QED
  BY <1>2, <1>3 DEF Neat

\* x is ms with g at its end, or in its place k.
Appended(ms, g, x) ==
  DOMAIN x = 1..(Len(ms) + 1) /\ (\A i \in 1..Len(ms) : x[i] = ms[i]) /\ x[Len(ms) + 1] = g
Exchanged(ms, k, g, x) ==
  /\ DOMAIN x = 1..Len(ms) /\ (\A i \in 1..Len(ms) : i # k => x[i] = ms[i])
  /\ k \in 1..Len(ms) /\ x[k] = g

\* The texts of g come after those of ms.
Onward(ms, g, n) == ToSet(g.text) \subseteq {n} \/ \A i \in DOMAIN ms : ms[i].role \notin Texts
InPlace(ms, k, g, n) ==
  /\ ToSet(g.text) \subseteq ToSet(ms[k].text) \cup {n}
  /\ n \in ToSet(g.text) => \A i \in DOMAIN ms : i > k => ms[i].role \notin Texts

\* A message with no text but the last goes to the end of a list,
LEMMA TidyAppend ==
  ASSUME NEW p \in Nat, NEW n \in Nat, p < n, NEW ms \in Seq(Upto(p)), Tidy(ms), NEW g, Neat(g),
         NEW x, Appended(ms, g, x), Onward(ms, g, n)
  PROVE  Tidy(x)
<1>0. /\ DOMAIN x = 1..(Len(ms) + 1) /\ (\A i \in 1..Len(ms) : x[i] = ms[i]) /\ x[Len(ms) + 1] = g
      /\ ToSet(g.text) \subseteq {n} \/ \A i \in DOMAIN ms : ms[i].role \notin Texts
  BY DEF Appended, Onward
<1> DEFINE len == Len(ms)
<1>1. len \in Nat /\ DOMAIN ms = 1..len /\ \A i \in 1..len : ms[i] \in Upto(p)
  OBVIOUS
<1>2. \A i \in 1..(len + 1) : (i \in 1..len /\ x[i] = ms[i]) \/ (i = len + 1 /\ x[i] = g)
  BY <1>0, <1>1
<1>3. \A i, j \in 1..(len + 1) : i < j => i \in 1..len /\ x[i] = ms[i]
  BY <1>0, <1>1
<1>4. ASSUME NEW i \in 1..len
      PROVE  /\ \A y \in ToSet(ms[i].text) : y \in Nat /\ y < n
             /\ ms[i].role \notin Texts => ToSet(ms[i].text) = {}
  <2>1. ToSet(ms[i].text) \subseteq 1..p /\ ms[i].role \in Texts \cup {"tool"} /\ Neat(ms[i])
    BY <1>1, MessageKind DEF Roles, Tidy
  <2>2. \A y \in 1..p : y \in Nat /\ y < n
    OBVIOUS
  <2>3. QED
    BY <2>1, <2>2 DEF Neat
<1> HIDE DEF len
<1>5. \A i \in DOMAIN x : Neat(x[i])
  BY <1>0, <1>1, <1>2 DEF Tidy, len
<1>6. ASSUME NEW i \in DOMAIN x, NEW j \in DOMAIN x, i < j, NEW y \in ToSet(x[i].text), NEW z \in ToSet(x[j].text)
      PROVE  y < z
  <2>0. i \in 1..len /\ x[i] = ms[i]
    BY <1>0, <1>3, <1>6 DEF len
  <2>1. CASE j \in 1..len /\ x[j] = ms[j]
    BY <1>1, <1>6, <2>0, <2>1 DEF Tidy
  <2>2. CASE x[j] = g
    <3>1. CASE ToSet(g.text) \subseteq {n}
      BY <1>4, <1>6, <2>0, <2>2, <3>1
    <3>2. CASE \A k \in DOMAIN ms : ms[k].role \notin Texts
      BY <1>1, <1>4, <1>6, <2>0, <3>2
    <3>3. QED
      BY <1>0, <3>1, <3>2
  <2>3. QED
    BY <1>0, <1>2, <2>1, <2>2 DEF len
<1>7. QED
  BY <1>5, <1>6 DEF Tidy

\* ... or in place of one, whose text it has, and more if no text comes after.
LEMMA TidyExchange ==
  ASSUME NEW p \in Nat, NEW n \in Nat, p < n, NEW ms \in Seq(Upto(p)), Tidy(ms), NEW g, Neat(g),
         NEW k, NEW x, Exchanged(ms, k, g, x), InPlace(ms, k, g, n)
  PROVE  Tidy(x)
<1>0. /\ k \in DOMAIN ms /\ DOMAIN x = DOMAIN ms /\ (\A i \in DOMAIN ms : i # k => x[i] = ms[i]) /\ x[k] = g
      /\ ToSet(g.text) \subseteq ToSet(ms[k].text) \cup {n}
      /\ n \in ToSet(g.text) => \A i \in DOMAIN ms : i > k => ms[i].role \notin Texts
  BY DEF Exchanged, InPlace
<1> DEFINE len == Len(ms)
<1>1. len \in Nat /\ DOMAIN ms = 1..len /\ \A i \in 1..len : ms[i] \in Upto(p) /\ i \in Nat
  OBVIOUS
<1>4. ASSUME NEW i \in DOMAIN ms
      PROVE  /\ \A y \in ToSet(ms[i].text) : y \in Nat /\ y < n
             /\ ms[i].role \notin Texts => ToSet(ms[i].text) = {}
  <2>1. ToSet(ms[i].text) \subseteq 1..p /\ ms[i].role \in Texts \cup {"tool"} /\ Neat(ms[i])
    BY <1>1, MessageKind DEF Roles, Tidy
  <2>2. \A y \in 1..p : y \in Nat /\ y < n
    OBVIOUS
  <2>3. QED
    BY <2>1, <2>2 DEF Neat
<1> HIDE DEF len
<1>5. \A i \in DOMAIN x : Neat(x[i])
  BY <1>0 DEF Tidy
<1>6. ASSUME NEW i \in DOMAIN x, NEW j \in DOMAIN x, i < j, NEW y \in ToSet(x[i].text), NEW z \in ToSet(x[j].text)
      PROVE  y < z
  <2>0. i \in Nat /\ j \in Nat /\ k \in Nat
    BY <1>0, <1>1
  <2>1. CASE i # k /\ j # k
    BY <1>0, <1>6, <2>1 DEF Tidy
  <2>2. CASE i = k
    <3>1. j # k /\ x[j] = ms[j] /\ j > k
      BY <1>0, <1>6, <2>0, <2>2
    <3>2. y \in ToSet(ms[k].text) \/ y = n
      BY <1>0, <1>6, <2>2
    <3>3. CASE y \in ToSet(ms[k].text)
      BY <1>0, <1>6, <2>2, <3>1, <3>3 DEF Tidy
    <3>4. CASE y = n
      BY <1>0, <1>4, <1>6, <2>2, <3>1, <3>4
    <3>5. QED
      BY <3>2, <3>3, <3>4
  <2>3. CASE j = k /\ i # k
    <3>1. z \in ToSet(ms[k].text) \/ z = n
      BY <1>0, <1>6, <2>3
    <3>2. x[i] = ms[i]
      BY <1>0, <2>3
    <3>3. CASE z \in ToSet(ms[k].text)
      BY <1>0, <1>6, <2>3, <3>2, <3>3 DEF Tidy
    <3>4. CASE z = n
      BY <1>0, <1>4, <1>6, <3>2, <3>4
    <3>5. QED
      BY <3>1, <3>3, <3>4
  <2>4. QED
    BY <2>1, <2>2, <2>3
<1>7. QED
  BY <1>5, <1>6 DEF Tidy

\* An exchange of the last message is one in its place.
LEMMA LastPlace ==
  ASSUME NEW S, NEW s \in Seq(S), s # <<>>, NEW g \in S
  PROVE  Exchanged(s, Len(s), g, Append(Front(s), g))
<1> DEFINE x == Append(Front(s), g)
<1>1. /\ x \in Seq(S) /\ Len(x) = Len(s)
      /\ \A i \in 1..(Len(s) - 1) : x[i] = s[i]
      /\ x[Len(s)] = g
  BY LastExchanged
<1> HIDE DEF x
<1>2. Len(s) \in 1..Len(s) /\ \A i \in 1..Len(s) : i # Len(s) => i \in 1..(Len(s) - 1)
  OBVIOUS
<1>3. DOMAIN x = 1..Len(s)
  BY <1>1
<1>4. Exchanged(s, Len(s), g, x)
  BY <1>1, <1>2, <1>3, Zenon DEF Exchanged
<1>5. QED
  BY <1>4 DEF x

\* What a step of the snapshot's projection does, place by place.
Merges(out, n) == IsText(n) /\ out # <<>> /\ Last(out).role = log[n].of
Begins(out, n) == IsText(n) /\ ~(out # <<>> /\ Last(out).role = log[n].of)
Ends(tools, n) == log[n].kind = "result" /\ tools[log[n].of] > 0
ChatShape(out, tools, x, t, n) ==
  /\ Merges(out, n) =>
       /\ Last(out) = out[Len(out)] /\ t = tools
       /\ Exchanged(out, Len(out), Grown(out[Len(out)], n), x)
  /\ Begins(out, n) => Appended(out, Bubble(n), x) /\ t = tools
  /\ log[n].kind = "start" =>
       /\ Appended(out, Tool(n), x)
       /\ log[n].of \in Tools /\ t = [tools EXCEPT ![log[n].of] = Len(out) + 1]
  /\ Ends(tools, n) =>
       /\ Exchanged(out, tools[log[n].of], Ended(out[tools[log[n].of]], n, "ok"), x)
       /\ log[n].of \in Tools /\ t = [tools EXCEPT ![log[n].of] = 0]
  /\ ~IsText(n) /\ log[n].kind # "start" /\ ~Ends(tools, n) => x = out /\ t = tools

\* Each step of aggregateChat is of one of those shapes.
LEMMA ChatStepShape ==
  ASSUME log \in Seq(Frames), NEW n \in 1..Len(log), NEW p \in Nat, p < n, NEW c \in Chats(p)
  PROVE  /\ c.out \in Seq(Upto(p)) /\ c.tools \in [Tools -> Nat] /\ Len(c.out) \in Nat
         /\ DOMAIN c.out = 1..Len(c.out) /\ \A y \in Tools : c.tools[y] <= Len(c.out)
         /\ ChatShape(c.out, c.tools, ChatStep(c, n).out, ChatStep(c, n).tools, n)
<1> SUFFICES ASSUME NEW out, NEW tools, NEW x, NEW t, NEW len, out = c.out, tools = c.tools,
                    x = ChatStep(c, n).out, t = ChatStep(c, n).tools, len = Len(out)
             PROVE  /\ out \in Seq(Upto(p)) /\ tools \in [Tools -> Nat] /\ len \in Nat
                    /\ DOMAIN out = 1..len /\ \A y \in Tools : tools[y] <= len
                    /\ ChatShape(out, tools, x, t, n)
  OBVIOUS
<1> DEFINE f == log[n]
           s == ChatStep(c, n)
<1>1. /\ n \in Nat \ {0} /\ out \in Seq(Upto(p)) /\ out \in Seq(Upto(n)) /\ tools \in [Tools -> Nat]
      /\ c = [out |-> out, tools |-> tools] /\ \A y \in Tools : tools[y] <= len
  BY UptoGrows DEF Chats
<1>2. len \in Nat /\ DOMAIN out = 1..len
  BY <1>1
<1>3. CASE IsText(n) /\ out # <<>> /\ Last(out).role = f.of
  <2> DEFINE g == Grown(Last(out), n)
  <2>1. s = [c EXCEPT !.out = Append(Front(out), g)]
    BY <1>3 DEF ChatStep, IsText
  <2>2. Last(out) = out[len] /\ len \in 1..len
    BY <1>1, <1>2, <1>3 DEF Last
  <2>3. x = Append(Front(out), g) /\ t = tools
    BY <1>1, <2>1
  <2>4. g \in Upto(n)
    BY <1>1, <2>2, GrownKind
  <2> HIDE DEF g
  <2>5. Exchanged(out, len, g, x)
    <3>1. out \in Seq(Upto(n)) /\ out # <<>> /\ g \in Upto(n)
      BY <1>1, <1>3, <2>4
    <3>2. QED
      BY <2>3, <3>1, LastPlace
  <2>10. Exchanged(out, len, Grown(out[len], n), x)
    BY <2>2, <2>5 DEF g
  <2>11. QED
    BY <1>1, <1>2, <1>3, <2>2, <2>3, <2>10 DEF IsText, ChatShape, Begins, Ends
<1>4. ASSUME NEW g \in Upto(n), x = Append(out, g)
      PROVE  Appended(out, g, x)
  <2> DEFINE S == Upto(n)
  <2>1. out \in Seq(S) /\ g \in S
    BY <1>1
  <2> HIDE DEF S
  <2>2. QED
    BY <1>2, <1>4, <2>1, AppendSet DEF Appended
<1>5. CASE IsText(n) /\ ~(out # <<>> /\ Last(out).role = f.of)
  <2>1. s = [c EXCEPT !.out = Append(out, Bubble(n))]
    BY <1>5 DEF ChatStep, IsText
  <2>2. x = Append(out, Bubble(n)) /\ t = tools
    BY <1>1, <2>1
  <2>3. Bubble(n) \in Upto(n)
    BY <1>5, BubbleKind DEF IsText
  <2>4. QED
    BY <1>1, <1>2, <1>4, <1>5, <2>2, <2>3 DEF IsText, ChatShape, Merges, Ends
<1>6. CASE f.kind = "start"
  <2>1. s = [out |-> Append(out, Tool(n)), tools |-> [tools EXCEPT ![f.of] = len + 1]]
    BY <1>6 DEF ChatStep
  <2>2. x = Append(out, Tool(n)) /\ t = [tools EXCEPT ![f.of] = len + 1]
    BY <2>1
  <2>3. Tool(n) \in Upto(n) /\ f.of \in Tools
    BY <1>1, <1>6, ToolKind, FrameKind
  <2>4. QED
    BY <1>1, <1>2, <1>4, <1>6, <2>2, <2>3 DEF IsText, ChatShape, Merges, Begins, Ends
<1>7. CASE f.kind = "result" /\ tools[f.of] > 0
  <2> DEFINE j == tools[f.of]
  <2>1. s = [out |-> [out EXCEPT ![j] = Ended(@, n, "ok")], tools |-> [tools EXCEPT ![f.of] = 0]]
    BY <1>7 DEF ChatStep
  <2>2. x = [out EXCEPT ![j] = Ended(out[j], n, "ok")] /\ t = [tools EXCEPT ![f.of] = 0]
    BY <2>1
  <2>3. f.of \in Tools
    BY <1>7, FrameKind
  <2>4. j \in 1..len
    BY <1>1, <1>2, <1>7, <2>3
  <2>5. DOMAIN x = 1..len /\ (\A i \in 1..len : i # j => x[i] = out[i]) /\ x[j] = Ended(out[j], n, "ok")
    BY <1>2, <2>2, <2>4
  <2>6. ~IsText(n) /\ f.kind # "start"
    BY <1>7 DEF IsText
  <2>7. Exchanged(out, j, Ended(out[j], n, "ok"), x)
    BY <2>4, <2>5 DEF Exchanged
  <2>8. QED
    BY <1>1, <1>2, <1>7, <2>2, <2>3, <2>6, <2>7 DEF ChatShape, Merges, Begins, Ends
<1>8. CASE ~IsText(n) /\ f.kind # "start" /\ ~(f.kind = "result" /\ tools[f.of] > 0)
  <2>1. s = c
    BY <1>8 DEF ChatStep, IsText
  <2>2. QED
    BY <1>1, <1>2, <1>8, <2>1 DEF ChatShape, Merges, Begins, Ends
<1>9. QED
  BY <1>3, <1>5, <1>6, <1>7, <1>8

\* What a step of the stream's projection does.
AggShape(open, o, es, n) ==
  /\ IsText(n) => log[n].of \in Texts
  /\ IsText(n) /\ open[log[n].of] = None =>
       /\ o = [r \in Texts |-> IF r = log[n].of THEN Bubble(n) ELSE None]
       /\ es = <<Event("chat", Bubble(n))>>
  /\ IsText(n) /\ open[log[n].of] # None =>
       /\ o = [open EXCEPT ![log[n].of] = Grown(open[log[n].of], n)]
       /\ es = <<Event("update", Grown(open[log[n].of], n))>>
  /\ log[n].kind = "start" =>
       o = [r \in Texts |-> None] /\ es = <<Event("chat", Tool(n))>>
  /\ log[n].kind = "stop" => o = [r \in Texts |-> None]
  /\ ~IsText(n) /\ log[n].kind \notin {"start", "stop"} => o = open

\* Each step of chatAgg is of one of those shapes.
LEMMA AggStepShape ==
  ASSUME log \in Seq(Frames), NEW n \in 1..Len(log), NEW p \in Nat, NEW a \in Aggs(p)
  PROVE  a.open \in Opens(p) /\ AggShape(a.open, Step(a, n).agg.open, Step(a, n).out, n)
<1> SUFFICES ASSUME NEW open, NEW o, NEW es, open = a.open, o = Step(a, n).agg.open, es = Step(a, n).out
             PROVE  open \in Opens(p) /\ AggShape(open, o, es, n)
  OBVIOUS
<1> DEFINE f == log[n]
           s == Step(a, n)
           tools == a.tools
<1>1. open \in Opens(p) /\ a = [open |-> open, tools |-> tools] /\ DOMAIN open = Texts
  BY DEF Aggs, Opens
<1>2. IsText(n) => f.of \in Texts
  BY FrameKind DEF IsText
<1>3. CASE IsText(n) /\ open[f.of] = None
  <2>1. s = [agg |-> [a EXCEPT !.open = [[r \in Texts |-> None] EXCEPT ![f.of] = Bubble(n)]],
             out |-> <<Event("chat", Bubble(n))>>]
    BY <1>3 DEF Step, IsText
  <2>2. o = [[r \in Texts |-> None] EXCEPT ![f.of] = Bubble(n)] /\ es = <<Event("chat", Bubble(n))>>
    BY <1>1, <2>1
  <2>3. o = [r \in Texts |-> IF r = f.of THEN Bubble(n) ELSE None]
    BY <2>2
  <2>4. QED
    BY <1>1, <1>2, <1>3, <2>2, <2>3 DEF IsText, AggShape
<1>4. CASE IsText(n) /\ open[f.of] # None
  <2>1. s = [agg |-> [a EXCEPT !.open[f.of] = Grown(open[f.of], n)], out |-> <<Event("update", Grown(open[f.of], n))>>]
    BY <1>4 DEF Step, IsText
  <2>2. o = [open EXCEPT ![f.of] = Grown(open[f.of], n)] /\ es = <<Event("update", Grown(open[f.of], n))>>
    BY <1>1, <2>1
  <2>3. QED
    BY <1>1, <1>2, <1>4, <2>2 DEF IsText, AggShape
<1>5. CASE f.kind = "start"
  <2>1. s = [agg |-> [open |-> [r \in Texts |-> None], tools |-> [tools EXCEPT ![f.of] = Tool(n)]], out |-> <<Event("chat", Tool(n))>>]
    BY <1>5 DEF Step
  <2>2. QED
    BY <1>1, <1>5, <2>1 DEF IsText, AggShape
<1>6. CASE f.kind = "result" /\ tools[f.of] # None
  <2>1. s.agg = [a EXCEPT !.tools[f.of] = None]
    BY <1>6 DEF Step
  <2>2. s.agg.open = open
    BY <1>1, <2>1
  <2>3. QED
    BY <1>1, <1>6, <2>2 DEF IsText, AggShape
<1>7. CASE f.kind = "stop"
  <2>1. s.agg = NoAgg
    BY <1>7 DEF Step
  <2>2. QED
    BY <1>1, <1>7, <2>1 DEF IsText, NoAgg, AggShape
<1>8. CASE /\ ~IsText(n) /\ f.kind # "start" /\ ~(f.kind = "result" /\ tools[f.of] # None) /\ f.kind # "stop"
  <2>1. s.agg = a
    BY <1>8 DEF Step, IsText
  <2>2. QED
    BY <1>1, <1>8, <2>1 DEF AggShape
<1>9. QED
  BY <1>3, <1>4, <1>5, <1>6, <1>7, <1>8

\* No two bubbles are open at once, and each is neat.
OpenNeat(open) ==
  /\ \A r, q \in Texts : open[r] # None /\ open[q] # None => r = q
  /\ \A r \in Texts : open[r] # None => Neat(open[r])

\* Where the two projections are after the same frames: what the stream has
\* open is the end of the list's last message, and all of it if whole.
Agree(out, open, whole) ==
  /\ OpenNeat(open)
  /\ \A r \in Texts : open[r] # None =>
       /\ Len(out) > 0 /\ out[Len(out)].role = r /\ open[r].seq = out[Len(out)].seq
       /\ ToSet(open[r].text) \subseteq ToSet(out[Len(out)].text)
       /\ whole => ToSet(open[r].text) = ToSet(out[Len(out)].text)
  /\ whole => \A r \in Texts : Len(out) > 0 /\ out[Len(out)].role = r => open[r] # None

\* The list is tidy and a tool without a result is where the list says.
ListInv(c) ==
  Tidy(c.out) /\ \A y \in Tools : c.tools[y] > 0 => c.out[c.tools[y]].role = "tool"

\* aggregateChat keeps its list tidy.
LEMMA ListStep ==
  ASSUME log \in Seq(Frames), NEW n \in 1..Len(log), NEW p \in Nat, p < n, NEW c \in Chats(p), ListInv(c)
  PROVE  ListInv(ChatStep(c, n))
<1> SUFFICES ASSUME NEW out, NEW tools, NEW x, NEW t, NEW len, out = c.out, tools = c.tools,
                    x = ChatStep(c, n).out, t = ChatStep(c, n).tools, len = Len(out)
             PROVE  ListInv(ChatStep(c, n))
  OBVIOUS
<1> SUFFICES Tidy(x) /\ \A y \in Tools : t[y] > 0 => x[t[y]].role = "tool"
  BY DEF ListInv
<1>0. n \in Nat
  OBVIOUS
<1>1. /\ out \in Seq(Upto(p)) /\ tools \in [Tools -> Nat] /\ len \in Nat /\ DOMAIN out = 1..len
      /\ \A y \in Tools : tools[y] <= len
      /\ ChatShape(out, tools, x, t, n)
  BY ChatStepShape
<1>2. Tidy(out) /\ \A y \in Tools : tools[y] > 0 => out[tools[y]].role = "tool"
  BY DEF ListInv
<1>3. \A y \in Tools : tools[y] > 0 => tools[y] \in 1..len
  BY <1>1
<1>4. CASE Merges(out, n)
  <2> DEFINE m == out[len]
             g == Grown(m, n)
  <2>1. Last(out) = m /\ t = tools /\ Exchanged(out, len, g, x)
    BY <1>1, <1>4 DEF ChatShape
  <2>2. len \in 1..len /\ m \in Upto(p) /\ len \in DOMAIN out
    BY <1>1, <2>1 DEF Exchanged
  <2>3. m.role = log[n].of /\ m.role \in Texts /\ Neat(m)
    BY <1>2, <1>4, <2>1, <2>2, FrameKind DEF IsText, Tidy, Merges
  <2> HIDE DEF m
  <2>4. ToSet(g.text) = ToSet(m.text) \cup {n} /\ g.role = m.role
    <3>1. g.role = m.role
      BY <1>0, <2>2, GrownKind
    <3>2. Gains(g, m, n)
      BY <1>0, <2>2, GrownGains
    <3>3. QED
      BY <3>1, <3>2 DEF Gains
  <2>5. Neat(g)
    BY <2>2, <2>3, NeatGrown
  <2> HIDE DEF g
  <2>6. InPlace(out, len, g, n)
    BY <1>1, <2>4 DEF InPlace, m
  <2>7. Tidy(x)
    BY <1>0, <1>1, <1>2, <2>1, <2>5, <2>6, TidyExchange
  <2>8. ASSUME NEW y \in Tools, t[y] > 0
        PROVE  x[t[y]].role = "tool"
    <3>1. tools[y] \in 1..len /\ out[tools[y]].role = "tool" /\ t[y] = tools[y]
      BY <1>2, <1>3, <2>1, <2>8
    <3>2. (\A i \in 1..len : i # len => x[i] = out[i]) /\ x[len] = g
      BY <2>1 DEF Exchanged
    <3>3. CASE tools[y] = len
      BY <2>4, <3>1, <3>2, <3>3 DEF m
    <3>4. CASE tools[y] # len
      BY <3>1, <3>2, <3>4
    <3>5. QED
      BY <3>3, <3>4
  <2>9. QED
    BY <2>7, <2>8
<1>5. CASE Begins(out, n)
  <2>1. Appended(out, Bubble(n), x) /\ t = tools
    BY <1>1, <1>5 DEF ChatShape
  <2>2. Neat(Bubble(n)) /\ Onward(out, Bubble(n), n)
    BY <1>5, NeatBegun, BubbleKind DEF IsText, Begins, Onward
  <2>3. Tidy(x)
    BY <1>0, <1>1, <1>2, <2>1, <2>2, TidyAppend
  <2>4. QED
    BY <1>2, <1>3, <2>1, <2>3 DEF Appended
<1>6. CASE log[n].kind = "start"
  <2>1. Appended(out, Tool(n), x) /\ log[n].of \in Tools /\ t = [tools EXCEPT ![log[n].of] = len + 1]
    BY <1>1, <1>6 DEF ChatShape
  <2>2. Neat(Tool(n)) /\ Onward(out, Tool(n), n) /\ Tool(n).role = "tool"
    BY NeatBegun DEF Onward
  <2>3. Tidy(x)
    BY <1>0, <1>1, <1>2, <2>1, <2>2, TidyAppend
  <2>4. \A y \in Tools : t[y] = len + 1 \/ t[y] = tools[y]
    BY <1>1, <2>1
  <2>5. \A y \in Tools : tools[y] > 0 => x[tools[y]].role = "tool"
    BY <1>2, <1>3, <2>1 DEF Appended
  <2>6. x[len + 1].role = "tool"
    BY <2>1, <2>2 DEF Appended
  <2>7. QED
    BY <2>3, <2>4, <2>5, <2>6
<1>7. CASE Ends(tools, n)
  <2> DEFINE j == tools[log[n].of]
             m == out[j]
             g == Ended(m, n, "ok")
  <2>1. Exchanged(out, j, g, x) /\ log[n].of \in Tools /\ t = [tools EXCEPT ![log[n].of] = 0]
    BY <1>1, <1>7 DEF ChatShape
  <2>2. j \in 1..len /\ m \in Upto(p) /\ m.role = "tool"
    <3>1. j \in 1..len
      BY <2>1 DEF Exchanged
    <3>2. out[j].role = "tool"
      BY <1>2, <1>7, <2>1 DEF Ends
    <3>3. out[j] \in Upto(p)
      <4> HIDE DEF j
      <4>1. QED
        BY <1>1, <3>1
    <3>4. QED
      BY <3>1, <3>2, <3>3
  <2>3. ToSet(m.text) = {} /\ "ok" \in Summaries
    BY <1>1, <1>2, <2>2 DEF Neat, Tidy, Summaries
  <2> HIDE DEF m
  <2>4. Neat(g) /\ ToSet(g.text) = {} /\ g.role = "tool"
    BY <1>0, <2>2, <2>3, NeatEnded
  <2> HIDE DEF g, j
  <2>5. InPlace(out, j, g, n)
    BY <2>4 DEF InPlace
  <2>6. Tidy(x)
    BY <1>0, <1>1, <1>2, <2>1, <2>4, <2>5, TidyExchange
  <2>7. \A y \in Tools : t[y] = 0 \/ t[y] = tools[y]
    BY <1>1, <2>1
  <2>8. \A y \in Tools : tools[y] > 0 => x[tools[y]].role = "tool"
    BY <1>2, <1>3, <2>1, <2>4 DEF Exchanged
  <2>9. QED
    BY <2>6, <2>7, <2>8
<1>8. CASE ~IsText(n) /\ log[n].kind # "start" /\ ~Ends(tools, n)
  BY <1>1, <1>2, <1>8 DEF ChatShape
<1>9. QED
  BY <1>4, <1>5, <1>6, <1>7, <1>8 DEF Merges, Begins

\* Each step of both keeps them in agreement; a stop ends that for the whole.
LEMMA AgreeStep ==
  ASSUME log \in Seq(Frames), NEW n \in 1..Len(log), NEW p \in Nat, p < n, NEW c \in Chats(p), ListInv(c),
         NEW a \in Aggs(p), NEW w \in BOOLEAN, Agree(c.out, a.open, w),
         NEW v \in BOOLEAN, v => w /\ log[n].kind # "stop"
  PROVE  Agree(ChatStep(c, n).out, Step(a, n).agg.open, v)
<1> SUFFICES ASSUME NEW out, NEW tools, NEW x, NEW t, NEW len, out = c.out, tools = c.tools,
                    x = ChatStep(c, n).out, t = ChatStep(c, n).tools, len = Len(out),
                    NEW open, NEW o, NEW es, open = a.open, o = Step(a, n).agg.open, es = Step(a, n).out
             PROVE  Agree(x, o, v)
  OBVIOUS
<1>0. n \in Nat
  OBVIOUS
<1>1. /\ out \in Seq(Upto(p)) /\ tools \in [Tools -> Nat] /\ len \in Nat /\ DOMAIN out = 1..len
      /\ \A y \in Tools : tools[y] <= len
      /\ ChatShape(out, tools, x, t, n)
  BY ChatStepShape
<1>2. open \in Opens(p) /\ AggShape(open, o, es, n)
  BY AggStepShape
<1>3. x \in Seq(Upto(n)) /\ Len(x) \in Nat /\ DOMAIN x = 1..Len(x)
  <2>1. ChatStep(c, n) \in Chats(n)
    BY ChatStepKind
  <2>2. QED
    BY <2>1 DEF Chats
<1>4. /\ \A k, g : Exchanged(out, k, g, x) => Len(x) = len /\ k \in 1..len /\ x[k] = g
      /\ \A g : Appended(out, g, x) => Len(x) = len + 1 /\ x[len + 1] = g
  <2>1. \A k \in Nat : DOMAIN x = 1..k => Len(x) = k
    BY <1>3
  <2>2. len + 1 \in Nat
    BY <1>1
  <2>3. QED
    BY <1>1, <2>1, <2>2 DEF Exchanged, Appended
<1>5. out # <<>> <=> len > 0
  BY <1>1
<1>6. /\ OpenNeat(open)
      /\ \A r \in Texts : open[r] # None =>
           /\ len > 0 /\ out[len].role = r /\ open[r].seq = out[len].seq
           /\ ToSet(open[r].text) \subseteq ToSet(out[len].text)
           /\ w => ToSet(open[r].text) = ToSet(out[len].text)
      /\ w => \A r \in Texts : len > 0 /\ out[len].role = r => open[r] # None
  BY DEF Agree
<1>7. ASSUME o = [r \in Texts |-> None], v => \A r \in Texts : ~(Len(x) > 0 /\ x[Len(x)].role = r)
      PROVE  Agree(x, o, v)
  BY <1>7 DEF Agree, OpenNeat
<1>8. CASE IsText(n) /\ open[log[n].of] = None
  <2> DEFINE r0 == log[n].of
             b == Bubble(n)
  <2>1. o = [r \in Texts |-> IF r = r0 THEN b ELSE None] /\ r0 \in Texts
    BY <1>2, <1>8 DEF AggShape
  <2>2. b \in Upto(n) /\ b.seq = n /\ b.role = r0 /\ ToSet(b.text) = {n} /\ Neat(b) /\ b # None
    BY <1>0, <1>8, BubbleKind, NeatBegun, NoneApart DEF IsText
  <2> HIDE DEF b
  <2>3. OpenNeat(o)
    BY <2>1, <2>2 DEF OpenNeat
  <2>4. /\ Len(x) > 0 /\ x[Len(x)].role = r0 /\ x[Len(x)].seq = n /\ n \in ToSet(x[Len(x)].text)
        /\ v => ToSet(x[Len(x)].text) = {n}
    <3>1. CASE out # <<>> /\ Last(out).role = r0
      <4>0. Merges(out, n)
        BY <1>8, <3>1 DEF Merges
      <4>1. Len(x) = len /\ x[len] = Grown(out[len], n) /\ out[len].role = r0 /\ len > 0 /\ len \in 1..len
        BY <1>1, <1>4, <3>1, <4>0 DEF ChatShape
      <4>2. out[len] \in Upto(p)
        BY <1>1, <4>1
      <4> DEFINE m == out[len]
      <4>3. m \in Upto(p)
        BY <4>2
      <4> HIDE DEF m
      <4>4. Grown(m, n).seq = n /\ Grown(m, n).role = m.role /\ ToSet(Grown(m, n).text) = ToSet(m.text) \cup {n}
        <5>1. Grown(m, n).seq = n /\ Grown(m, n).role = m.role
          BY <1>0, <4>3, GrownKind
        <5>2. Gains(Grown(m, n), m, n)
          BY <1>0, <4>3, GrownGains
        <5>3. QED
          BY <5>1, <5>2 DEF Gains
      <4>5. ~v
        BY <1>6, <1>8, <2>1, <4>1
      <4>6. QED
        BY <4>1, <4>4, <4>5 DEF m
    <3>2. CASE ~(out # <<>> /\ Last(out).role = r0)
      <4>1. Len(x) = len + 1 /\ x[len + 1] = b
        BY <1>1, <1>4, <1>8, <3>2 DEF b, ChatShape, Begins
      <4>2. QED
        BY <1>1, <2>2, <4>1
    <3>3. QED
      BY <3>1, <3>2
  <2>5. \A r \in Texts : (o[r] # None) => r = r0 /\ o[r] = b
    BY <2>1
  <2>6. o[r0] # None
    BY <2>1, <2>2
  <2> HIDE DEF r0
  <2>7. ASSUME NEW r \in Texts, o[r] # None
        PROVE  /\ Len(x) > 0 /\ x[Len(x)].role = r /\ o[r].seq = x[Len(x)].seq
               /\ ToSet(o[r].text) \subseteq ToSet(x[Len(x)].text)
               /\ v => ToSet(o[r].text) = ToSet(x[Len(x)].text)
    <3>1. r = r0 /\ o[r] = b
      BY <2>5, <2>7
    <3>2. ToSet(o[r].text) = {n} /\ o[r].seq = n
      BY <2>2, <3>1
    <3>3. QED
      BY <2>4, <3>1, <3>2
  <2>8. \A r \in Texts : x[Len(x)].role = r => o[r] # None
    BY <2>4, <2>6
  <2>9. QED
    BY <2>3, <2>7, <2>8 DEF Agree
<1>9. CASE IsText(n) /\ open[log[n].of] # None
  <2> DEFINE r0 == log[n].of
             b == open[r0]
             g == Grown(b, n)
             m == out[len]
             h == Grown(m, n)
  <2>1. o = [open EXCEPT ![r0] = g] /\ r0 \in Texts /\ open \in Opens(p)
    BY <1>2, <1>9 DEF AggShape
  <2>2. b \in Upto(p) /\ b.role = r0 /\ Neat(b)
    BY <1>6, <1>9, <2>1 DEF Opens, OpenNeat
  <2>3. /\ len > 0 /\ m.role = r0 /\ b.seq = m.seq
        /\ ToSet(b.text) \subseteq ToSet(m.text)
        /\ w => ToSet(b.text) = ToSet(m.text)
    BY <1>6, <1>9, <2>1
  <2>4. out # <<>> /\ Last(out).role = r0 /\ m \in Upto(p)
    <3>1. len \in 1..len /\ out # <<>>
      BY <1>1, <1>5, <2>3
    <3>2. Last(out) = m
      BY DEF Last
    <3>3. QED
      BY <1>1, <2>3, <3>1, <3>2
  <2>5. Len(x) = len /\ x[len] = h
    BY <1>1, <1>4, <1>9, <2>4 DEF ChatShape, Merges
  <2>6. \A r \in Texts : r # r0 => open[r] = None
    BY <1>6, <1>9, <2>1 DEF OpenNeat
  <2> HIDE DEF b, m
  <2>7. g \in Upto(n) /\ g.seq = n /\ g.role = b.role /\ ToSet(g.text) = ToSet(b.text) \cup {n} /\ g # None
    <3>1. g \in Upto(n) /\ g.seq = n /\ g.role = b.role /\ ToSet(g.text) = ToSet(b.text) \cup {n}
      <4>1. g \in Upto(n) /\ g.seq = n /\ g.role = b.role
        BY <1>0, <2>2, GrownKind
      <4>2. Gains(g, b, n)
        BY <1>0, <2>2, GrownGains
      <4>3. QED
        BY <4>1, <4>2 DEF Gains
    <3> HIDE DEF g
    <3>2. QED
      BY <1>0, <3>1, NoneApart
  <2>8. h.seq = n /\ h.role = m.role /\ ToSet(h.text) = ToSet(m.text) \cup {n}
    <3>1. h.seq = n /\ h.role = m.role
      BY <1>0, <2>4, GrownKind
    <3>2. Gains(h, m, n)
      BY <1>0, <2>4, GrownGains
    <3>3. QED
      BY <3>1, <3>2 DEF Gains
  <2>9. Neat(g)
    BY <2>1, <2>2, NeatGrown
  <2> HIDE DEF g, h
  <2>10. \A r \in Texts : IF r = r0 THEN o[r] = g ELSE o[r] = None
    BY <2>1, <2>6 DEF Opens
  <2> HIDE DEF r0
  <2>11. OpenNeat(o)
    BY <2>1, <2>7, <2>9, <2>10 DEF OpenNeat
  <2>12. Len(x) > 0 /\ x[Len(x)].role = r0 /\ x[Len(x)].seq = n /\ ToSet(x[Len(x)].text) = ToSet(m.text) \cup {n}
    BY <2>3, <2>5, <2>8
  <2>13. o[r0] = g /\ o[r0] # None /\ \A r \in Texts : o[r] # None => r = r0
    BY <2>1, <2>7, <2>10
  <2>14. ASSUME NEW r \in Texts, o[r] # None
         PROVE  /\ Len(x) > 0 /\ x[Len(x)].role = r /\ o[r].seq = x[Len(x)].seq
                /\ ToSet(o[r].text) \subseteq ToSet(x[Len(x)].text)
                /\ v => ToSet(o[r].text) = ToSet(x[Len(x)].text)
    <3>1. r = r0 /\ o[r] = g
      BY <2>13, <2>14
    <3>2. o[r].seq = n /\ ToSet(o[r].text) = ToSet(b.text) \cup {n}
      BY <2>7, <3>1
    <3>3. QED
      BY <2>3, <2>12, <3>1, <3>2
  <2>15. \A r \in Texts : x[Len(x)].role = r => o[r] # None
    BY <2>12, <2>13
  <2>16. QED
    BY <2>11, <2>14, <2>15 DEF Agree
<1>10. CASE log[n].kind = "start"
  <2>1. o = [r \in Texts |-> None]
    BY <1>2, <1>10 DEF AggShape
  <2>2. Len(x) = len + 1 /\ x[len + 1] = Tool(n)
    BY <1>1, <1>4, <1>10 DEF ChatShape
  <2>3. Tool(n).role = "tool" /\ "tool" \notin Texts
    BY NeatBegun DEF Texts
  <2>4. QED
    BY <1>7, <2>1, <2>2, <2>3
<1>11. CASE log[n].kind = "stop"
  BY <1>2, <1>7, <1>11 DEF AggShape
<1>12. CASE Ends(tools, n)
  <2> DEFINE j == tools[log[n].of]
             m == out[j]
  <2>1. Exchanged(out, j, Ended(m, n, "ok"), x) /\ log[n].of \in Tools
    BY <1>1, <1>12 DEF ChatShape
  <2>2. Len(x) = len /\ (\A i \in 1..len : i # j => x[i] = out[i]) /\ j \in 1..len /\ x[j] = Ended(m, n, "ok")
    BY <1>4, <2>1 DEF Exchanged
  <2>3. m.role = "tool" /\ m \in Upto(p) /\ "ok" \in Summaries
    <3>1. out[j].role = "tool"
      <4>1. \A y \in Tools : tools[y] > 0 => out[tools[y]].role = "tool"
        BY DEF ListInv
      <4>2. QED
        BY <1>12, <2>1, <4>1 DEF Ends
    <3>2. out[j] \in Upto(p)
      <4> HIDE DEF j
      <4>1. QED
        BY <1>1, <2>2
    <3>3. QED
      BY <3>1, <3>2 DEF Summaries
  <2> HIDE DEF m, j
  <2>4. Ended(m, n, "ok").role = "tool" /\ "tool" \notin Texts
    BY <1>0, <2>3, EndedKind DEF Texts
  <2>5. o = open
    BY <1>2, <1>12 DEF IsText, AggShape, Ends
  <2>6. ASSUME NEW r \in Texts, len > 0, x[len].role = r \/ out[len].role = r
        PROVE  x[len] = out[len]
    <3>1. len \in 1..len
      BY <1>1, <2>6
    <3>2. CASE len = j
      BY <2>2, <2>3, <2>4, <2>6, <3>2 DEF m
    <3>3. QED
      BY <2>2, <3>1, <3>2
  <2>7. \A r \in Texts : (o[r] # None => x[len] = out[len]) /\ (len > 0 /\ x[len].role = r => x[len] = out[len])
    BY <1>6, <2>5, <2>6
  <2>8. OpenNeat(o) /\ Len(x) = len
    BY <1>6, <2>2, <2>5
  <2>12. ASSUME NEW r \in Texts, o[r] # None
         PROVE  /\ Len(x) > 0 /\ x[Len(x)].role = r /\ o[r].seq = x[Len(x)].seq
                /\ ToSet(o[r].text) \subseteq ToSet(x[Len(x)].text)
                /\ v => ToSet(o[r].text) = ToSet(x[Len(x)].text)
    <3>1. x[Len(x)] = out[len] /\ o[r] = open[r]
      BY <2>5, <2>7, <2>8, <2>12
    <3>2. /\ len > 0 /\ out[len].role = r /\ open[r].seq = out[len].seq
          /\ ToSet(open[r].text) \subseteq ToSet(out[len].text)
          /\ w => ToSet(open[r].text) = ToSet(out[len].text)
      BY <1>6, <2>12, <3>1
    <3>3. QED
      BY <2>8, <3>1, <3>2
  <2>9. \A r \in Texts : o[r] # None =>
           /\ Len(x) > 0 /\ x[Len(x)].role = r /\ o[r].seq = x[Len(x)].seq
           /\ ToSet(o[r].text) \subseteq ToSet(x[Len(x)].text)
           /\ v => ToSet(o[r].text) = ToSet(x[Len(x)].text)
    BY <2>12
  <2>10. v => \A r \in Texts : Len(x) > 0 /\ x[Len(x)].role = r => o[r] # None
    BY <1>6, <2>5, <2>7, <2>8
  <2>11. QED
    BY <2>8, <2>9, <2>10 DEF Agree
<1>13. CASE ~IsText(n) /\ log[n].kind \notin {"start", "stop"} /\ ~Ends(tools, n)
  <2>1. o = open /\ x = out
    BY <1>1, <1>2, <1>13 DEF ChatShape, AggShape
  <2>2. QED
    BY <1>6, <2>1 DEF Agree
<1>14. QED
  BY <1>8, <1>9, <1>10, <1>11, <1>12, <1>13

\* What the stream has open is in the last bubble its client has, and is all of
\* it if whole, or the client has no bubble.
LastBubble(ms, k) == k \in DOMAIN ms /\ \A i \in DOMAIN ms : i > k => ms[i].role \notin Texts
Seen(ms, open, whole) ==
  /\ OpenNeat(open)
  /\ \A r \in Texts : open[r] # None =>
       \/ \A i \in DOMAIN ms : ms[i].role \notin Texts
       \/ \E k \in DOMAIN ms :
            /\ LastBubble(ms, k) /\ ms[k].role = r /\ ToSet(open[r].text) \subseteq ToSet(ms[k].text)
            /\ whole => ToSet(open[r].text) = ToSet(ms[k].text)

\* What is kept of a tidy list is tidy, and what is open is in it still.
LEMMA SeenFiltered ==
  ASSUME NEW p \in Nat, NEW out \in Seq(Upto(p)), Tidy(out), NEW open, NEW whole, Agree(out, open, whole),
         NEW n \in Nat, NEW ms \in Seq(Upto(p)), KeptOf(out, n, Len(out), ms)
  PROVE  Tidy(ms) /\ Seen(ms, open, whole)
<1> DEFINE len == Len(out)
<1>1. len \in Nat /\ DOMAIN out = 1..len /\ \A j \in 1..len : out[j] \in Upto(p) /\ Neat(out[j])
  BY DEF Tidy
<1>2. /\ \A i \in DOMAIN ms : \E j \in 1..len : ms[i] = out[j] /\ out[j].seq > n
      /\ \A j \in 1..len : out[j].seq > n => \E i \in DOMAIN ms : ms[i] = out[j]
      /\ \A i, h \in DOMAIN ms : i < h => \E j, l \in 1..len : j < l /\ ms[i] = out[j] /\ ms[h] = out[l]
  BY DEF KeptOf
<1>3. \A j \in 1..len : /\ out[j].role \in Texts => out[j].seq \in ToSet(out[j].text)
                        /\ out[j].seq \in Nat
  BY <1>1, MessageKind DEF Neat
<1>4. \A j, l \in 1..len : j < l => \A y \in ToSet(out[j].text), z \in ToSet(out[l].text) : y < z
  BY <1>1 DEF Tidy
<1>5. DOMAIN ms \subseteq Nat
  OBVIOUS
<1> HIDE DEF len
<1>6. Tidy(ms)
  <2>1. \A i \in DOMAIN ms : Neat(ms[i])
    BY <1>1, <1>2
  <2>2. ASSUME NEW i \in DOMAIN ms, NEW h \in DOMAIN ms, i < h
        PROVE  \A y \in ToSet(ms[i].text), z \in ToSet(ms[h].text) : y < z
    <3>1. PICK j \in 1..len, l \in 1..len : j < l /\ ms[i] = out[j] /\ ms[h] = out[l]
      BY <1>2, <2>2
    <3>2. QED
      BY <1>4, <3>1
  <2>3. QED
    BY <2>1, <2>2 DEF Tidy
<1>7. ASSUME NEW r \in Texts, open[r] # None
      PROVE  \/ \A i \in DOMAIN ms : ms[i].role \notin Texts
             \/ \E k \in DOMAIN ms :
                  /\ LastBubble(ms, k) /\ ms[k].role = r /\ ToSet(open[r].text) \subseteq ToSet(ms[k].text)
                  /\ whole => ToSet(open[r].text) = ToSet(ms[k].text)
  <2> DEFINE m == out[len]
  <2>1. /\ len \in 1..len /\ m.role = r
        /\ ToSet(open[r].text) \subseteq ToSet(m.text)
        /\ whole => ToSet(open[r].text) = ToSet(m.text)
    BY <1>1, <1>7 DEF Agree, len
  <2>2. m.seq \in ToSet(m.text) /\ m.seq \in Nat
    BY <1>3, <2>1
  <2>3. \A j \in 1..len : j = len \/ j < len
    BY <1>1
  <2>4. CASE m.seq > n
    <3>1. PICK k \in DOMAIN ms : ms[k] = m
      BY <1>2, <2>1, <2>4
    <3>2. ASSUME NEW i \in DOMAIN ms, i > k
          PROVE  FALSE
      <4>1. PICK j \in 1..len, l \in 1..len : j < l /\ ms[k] = out[j] /\ ms[i] = out[l]
        BY <1>2, <1>5, <3>2
      <4>2. j < len /\ out[j] = m
        BY <2>3, <3>1, <4>1
      <4>3. m.seq < m.seq
        BY <1>4, <2>1, <2>2, <4>2
      <4>4. QED
        BY <2>2, <4>3
    <3> HIDE DEF m
    <3>3. LastBubble(ms, k)
      BY <3>2 DEF LastBubble
    <3>4. QED
      BY <2>1, <3>1, <3>3
  <2>5. CASE ~(m.seq > n)
    <3>1. ASSUME NEW i \in DOMAIN ms, ms[i].role \in Texts
          PROVE  FALSE
      <4>1. PICK j \in 1..len : ms[i] = out[j] /\ out[j].seq > n
        BY <1>2
      <4>2. CASE j = len
        BY <2>5, <4>1, <4>2
      <4>3. CASE j < len
        <5>1. out[j].seq \in ToSet(out[j].text) /\ out[j].seq \in Nat
          BY <1>3, <3>1, <4>1
        <5>2. out[j].seq < m.seq
          BY <1>4, <2>1, <2>2, <4>3, <5>1
        <5> HIDE DEF m
        <5>3. QED
          BY <2>2, <2>5, <4>1, <5>1, <5>2
      <4>4. QED
        BY <2>3, <4>2, <4>3
    <3>2. QED
      BY <3>1
  <2>6. QED
    BY <2>4, <2>5
<1>8. OpenNeat(open)
  BY DEF Agree
<1>9. QED
  BY <1>6, <1>7, <1>8 DEF Seen

\* x is ms with the message of e in place of the last on its line.
PutInPlace(ms, e, x) ==
  /\ Max(SameLine(ms, e.msg)) \in SameLine(ms, e.msg)
  /\ \A i \in SameLine(ms, e.msg) : i <= Max(SameLine(ms, e.msg))
  /\ x = [ms EXCEPT ![Max(SameLine(ms, e.msg))] = e.msg]

\* ShownKind for an event whose message is on the list already.
LEMMA ShownInPlace ==
  ASSUME NEW top \in Nat, NEW ms \in Seq(Upto(top)), NEW n \in Nat, top <= n, NEW e \in Events(n),
         e.event # "stop", ~(e.event = "chat" \/ SameLine(ms, e.msg) = {})
  PROVE  PutInPlace(ms, e, Shown(ms, e))
BY ShownKind, Zenon DEF PutInPlace

\* An event puts its message at the end or in place of the last on its line.
LEMMA ShownShape ==
  ASSUME NEW top \in Nat, NEW ms \in Seq(Upto(top)), NEW n \in Nat, top <= n, NEW e \in Events(n), e.event # "stop"
  PROVE  /\ e.msg \in Upto(n)
         /\ \/ /\ e.event = "chat" \/ SameLine(ms, e.msg) = {}
               /\ Appended(ms, e.msg, Shown(ms, e))
            \/ \E k \in SameLine(ms, e.msg) :
                 (\A i \in SameLine(ms, e.msg) : i <= k) /\ Exchanged(ms, k, e.msg, Shown(ms, e))
<1> SUFFICES ASSUME NEW m, m = e.msg, NEW same, same = SameLine(ms, m), NEW x, x = Shown(ms, e)
             PROVE  /\ m \in Upto(n)
                    /\ \/ /\ e.event = "chat" \/ same = {}
                          /\ Appended(ms, m, x)
                       \/ \E k \in same : (\A i \in same : i <= k) /\ Exchanged(ms, k, m, x)
  OBVIOUS
<1>1. ms \in Seq(Upto(n)) /\ Len(ms) \in Nat /\ DOMAIN ms = 1..Len(ms)
  <2>1. Upto(top) \subseteq Upto(n)
    BY UptoGrows
  <2>2. QED
    BY <2>1
<1>2. m \in Upto(n) /\ m.role \in Roles
  BY ShownKind, MessageKind
<1>3. CASE e.event = "chat" \/ same = {}
  <2>1. x = Append(ms, m)
    BY <1>3, ShownKind
  <2>2. Appended(ms, m, x)
    <3> DEFINE S == Upto(n)
    <3>1. ms \in Seq(S) /\ m \in S
      BY <1>1, <1>2
    <3> HIDE DEF S
    <3>2. QED
      BY <2>1, <3>1, AppendSet DEF Appended
  <2>3. QED
    BY <1>2, <1>3, <2>2
<1>4. CASE ~(e.event = "chat" \/ same = {})
  <2> DEFINE k == Max(same)
  <2>1. k \in same /\ (\A i \in same : i <= k) /\ x = [ms EXCEPT ![k] = m]
    <3>1. /\ Max(SameLine(ms, e.msg)) \in SameLine(ms, e.msg)
          /\ \A i \in SameLine(ms, e.msg) : i <= Max(SameLine(ms, e.msg))
          /\ Shown(ms, e) = [ms EXCEPT ![Max(SameLine(ms, e.msg))] = e.msg]
      <4>1. ~(e.event = "chat" \/ SameLine(ms, e.msg) = {})
        BY <1>4
      <4>2. PutInPlace(ms, e, Shown(ms, e))
        BY <4>1, ShownInPlace
      <4>3. QED
        BY <4>2 DEF PutInPlace
    <3>2. QED
      BY <3>1
  <2>2. same \subseteq 1..Len(ms)
    BY <1>1 DEF SameLine
  <2> HIDE DEF k
  <2>3. Exchanged(ms, k, m, x)
    BY <1>1, <2>1, <2>2 DEF Exchanged
  <2>4. QED
    BY <1>2, <2>1, <2>3
<1>5. QED
  BY <1>3, <1>4

\* The texts of a list after that.
LEMMA TextsAfter ==
  ASSUME NEW S, NEW ms \in Seq(S), NEW m, NEW x
  PROVE  /\ Appended(ms, m, x) => TextOf(x) = TextOf(ms) \cup ToSet(m.text)
         /\ \A k : Exchanged(ms, k, m, x) =>
              /\ TextOf(x) \subseteq TextOf(ms) \cup ToSet(m.text) /\ ToSet(m.text) \subseteq TextOf(x)
              /\ TextOf(ms) \subseteq TextOf(x) \cup ToSet(ms[k].text)
<1>1. Len(ms) \in Nat /\ DOMAIN ms = 1..Len(ms)
  OBVIOUS
<1>2. ASSUME Appended(ms, m, x)
      PROVE  TextOf(x) = TextOf(ms) \cup ToSet(m.text)
  <2>1. DOMAIN x = 1..(Len(ms) + 1) /\ (\A i \in 1..Len(ms) : x[i] = ms[i]) /\ x[Len(ms) + 1] = m
    BY <1>2 DEF Appended
  <2>2. Len(ms) + 1 \in 1..(Len(ms) + 1) /\ 1..Len(ms) \subseteq 1..(Len(ms) + 1)
        /\ \A i \in 1..(Len(ms) + 1) : i \in 1..Len(ms) \/ i = Len(ms) + 1
    BY <1>1
  <2>3. ASSUME NEW y \in TextOf(x)
        PROVE  y \in TextOf(ms) \cup ToSet(m.text)
    <3>1. PICK i \in DOMAIN x : y \in ToSet(x[i].text)
      BY DEF TextOf
    <3>2. CASE i \in 1..Len(ms)
      BY <1>1, <2>1, <3>1, <3>2 DEF TextOf
    <3>3. CASE i = Len(ms) + 1
      BY <2>1, <3>1, <3>3
    <3>4. QED
      BY <2>1, <2>2, <3>2, <3>3
  <2>4. ASSUME NEW y \in TextOf(ms)
        PROVE  y \in TextOf(x)
    <3>1. PICK i \in DOMAIN ms : y \in ToSet(ms[i].text)
      BY DEF TextOf
    <3>2. i \in DOMAIN x /\ x[i] = ms[i]
      BY <1>1, <2>1, <2>2
    <3>3. QED
      BY <3>1, <3>2 DEF TextOf
  <2>5. ToSet(m.text) \subseteq TextOf(x)
    BY <2>1, <2>2 DEF TextOf
  <2>6. QED
    BY <2>3, <2>4, <2>5
<1>3. ASSUME NEW k, Exchanged(ms, k, m, x)
      PROVE  /\ TextOf(x) \subseteq TextOf(ms) \cup ToSet(m.text) /\ ToSet(m.text) \subseteq TextOf(x)
             /\ TextOf(ms) \subseteq TextOf(x) \cup ToSet(ms[k].text)
  <2>1. DOMAIN x = 1..Len(ms) /\ (\A i \in 1..Len(ms) : i # k => x[i] = ms[i]) /\ k \in 1..Len(ms) /\ x[k] = m
    BY <1>3 DEF Exchanged
  <2>2. ASSUME NEW y \in TextOf(x)
        PROVE  y \in TextOf(ms) \cup ToSet(m.text)
    <3>1. PICK i \in DOMAIN x : y \in ToSet(x[i].text)
      BY DEF TextOf
    <3>2. QED
      BY <1>1, <2>1, <3>1 DEF TextOf
  <2>3. ASSUME NEW y \in TextOf(ms)
        PROVE  y \in TextOf(x) \cup ToSet(ms[k].text)
    <3>1. PICK i \in DOMAIN ms : y \in ToSet(ms[i].text)
      BY DEF TextOf
    <3>2. QED
      BY <1>1, <2>1, <3>1 DEF TextOf
  <2>4. ToSet(m.text) \subseteq TextOf(x)
    BY <2>1 DEF TextOf
  <2>5. QED
    BY <2>2, <2>3, <2>4
<1>4. QED
  BY <1>2, <1>3

\* What is open is seen as long as the bubbles stay.
LEMMA SeenKept ==
  ASSUME NEW ms, NEW open, NEW whole, Seen(ms, open, whole), NEW x,
         \A i \in DOMAIN ms : i \in DOMAIN x /\ (ms[i].role \in Texts => x[i] = ms[i]),
         \A i \in DOMAIN x : x[i].role \in Texts => i \in DOMAIN ms /\ x[i] = ms[i]
  PROVE  Seen(x, open, whole)
<1>1. OpenNeat(open)
  BY DEF Seen
<1>2. ASSUME NEW r \in Texts, open[r] # None
      PROVE  \/ \A i \in DOMAIN x : x[i].role \notin Texts
             \/ \E k \in DOMAIN x :
                  /\ LastBubble(x, k) /\ x[k].role = r /\ ToSet(open[r].text) \subseteq ToSet(x[k].text)
                  /\ whole => ToSet(open[r].text) = ToSet(x[k].text)
  <2>1. CASE \A i \in DOMAIN ms : ms[i].role \notin Texts
    <3>1. \A i \in DOMAIN x : x[i].role \notin Texts
      BY <2>1
    <3>2. QED
      BY <3>1
  <2>2. CASE \E k \in DOMAIN ms :
               /\ LastBubble(ms, k) /\ ms[k].role = r /\ ToSet(open[r].text) \subseteq ToSet(ms[k].text)
               /\ whole => ToSet(open[r].text) = ToSet(ms[k].text)
    <3>1. PICK k \in DOMAIN ms :
               /\ LastBubble(ms, k) /\ ms[k].role = r /\ ToSet(open[r].text) \subseteq ToSet(ms[k].text)
               /\ whole => ToSet(open[r].text) = ToSet(ms[k].text)
      BY <2>2
    <3>2. k \in DOMAIN x /\ x[k] = ms[k]
      BY <3>1
    <3>3. LastBubble(x, k)
      BY <3>1, <3>2 DEF LastBubble
    <3>4. QED
      BY <3>1, <3>2, <3>3
  <2>3. QED
    BY <1>2, <2>1, <2>2 DEF Seen
<1>3. QED
  BY <1>1, <1>2 DEF Seen

\* A tool's event, or a stop, leaves every text where it is.
LEMMA SeenTool ==
  ASSUME NEW n \in Nat, NEW p \in Nat, p <= n, NEW ms \in Seq(Upto(n)), Tidy(ms), NEW open, NEW whole, Seen(ms, open, whole),
         NEW e \in ToolEvents(n)
  PROVE  /\ Shown(ms, e) \in Seq(Upto(n)) /\ Tidy(Shown(ms, e)) /\ Seen(Shown(ms, e), open, whole)
         /\ TextOf(Shown(ms, e)) = TextOf(ms)
<1> SUFFICES ASSUME NEW x, x = Shown(ms, e)
             PROVE  x \in Seq(Upto(n)) /\ Tidy(x) /\ Seen(x, open, whole) /\ TextOf(x) = TextOf(ms)
  OBVIOUS
<1>1. e \in Events(n) /\ n <= n /\ n + 1 \in Nat /\ n < n + 1
  BY DEF ToolEvents
<1>2. x \in Seq(Upto(n)) /\ (e.event = "stop" => x = ms)
  BY <1>1, ShownKind
<1>3. CASE e.event = "stop"
  BY <1>2, <1>3
<1>4. CASE e.event # "stop"
  <2> DEFINE m == e.msg
  <2>1. m.role = "tool" /\ ToSet(m.text) = {} /\ "tool" \notin Texts
    BY <1>4 DEF ToolEvents, Texts
  <2>2. m \in Upto(n) /\ \/ Appended(ms, m, x)
                         \/ \E k \in SameLine(ms, m) : Exchanged(ms, k, m, x)
    BY <1>1, <1>4, ShownShape
  <2> HIDE DEF m
  <2>3. Neat(m)
    <3>1. DOMAIN m.text = {}
      BY <2>1 DEF ToSet
    <3>2. QED
      BY <2>1, <3>1 DEF Neat
  <2>4. Len(ms) \in Nat /\ DOMAIN ms = 1..Len(ms)
    OBVIOUS
  <2>5. CASE Appended(ms, m, x)
    <3>1. Onward(ms, m, n + 1)
      BY <2>1 DEF Onward
    <3>2. Tidy(x)
      BY <1>1, <2>3, <2>5, <3>1, TidyAppend
    <3>3. TextOf(x) = TextOf(ms)
      <4>1. TextOf(x) = TextOf(ms) \cup ToSet(m.text)
        BY <2>5, TextsAfter
      <4>2. QED
        BY <2>1, <4>1
    <3>4. DOMAIN x = 1..(Len(ms) + 1) /\ (\A i \in 1..Len(ms) : x[i] = ms[i]) /\ x[Len(ms) + 1].role \notin Texts
      BY <2>1, <2>5 DEF Appended
    <3>5. \A i \in DOMAIN x : (i \in DOMAIN ms /\ x[i] = ms[i]) \/ x[i].role \notin Texts
      BY <2>4, <3>4
    <3>6. \A i \in DOMAIN ms : i \in DOMAIN x /\ x[i] = ms[i]
      BY <2>4, <3>4
    <3>7. Seen(x, open, whole)
      BY <3>5, <3>6, SeenKept
    <3>8. QED
      BY <1>2, <3>2, <3>3, <3>7
  <2>6. CASE \E k \in SameLine(ms, m) : Exchanged(ms, k, m, x)
    <3>1. PICK k \in SameLine(ms, m) : Exchanged(ms, k, m, x)
      BY <2>6
    <3>2. /\ DOMAIN x = DOMAIN ms /\ (\A i \in DOMAIN ms : i # k => x[i] = ms[i])
          /\ k \in DOMAIN ms /\ x[k] = m /\ ms[k].role = "tool"
      BY <2>1, <2>4, <3>1 DEF Exchanged, SameLine
    <3>3. ToSet(ms[k].text) = {}
      BY <3>2 DEF Tidy, Neat
    <3>4. InPlace(ms, k, m, n + 1)
      BY <2>1 DEF InPlace
    <3>5. Tidy(x)
      BY <1>1, <2>3, <3>1, <3>4, TidyExchange
    <3>6. TextOf(x) = TextOf(ms)
      <4>1. /\ TextOf(x) \subseteq TextOf(ms) \cup ToSet(m.text)
            /\ TextOf(ms) \subseteq TextOf(x) \cup ToSet(ms[k].text)
        BY <3>1, TextsAfter
      <4>2. QED
        BY <2>1, <3>3, <4>1
    <3>7. \A i \in DOMAIN ms : x[i] = ms[i] \/ (x[i].role \notin Texts /\ ms[i].role \notin Texts)
      BY <2>1, <3>2
    <3>8. \A i \in DOMAIN ms : ms[i].role \in Texts => x[i] = ms[i]
      BY <3>7
    <3>9. Seen(x, open, whole)
      BY <3>2, <3>7, <3>8, SeenKept
    <3>10. QED
      BY <1>2, <3>5, <3>6, <3>9
  <2>7. QED
    BY <2>2, <2>5, <2>6
<1>5. QED
  BY <1>3, <1>4

\* A list of tools' events leaves every text where it is.
LEMMA SeenTools ==
  ASSUME NEW n \in Nat, NEW p \in Nat, p <= n, NEW ms \in Seq(Upto(p)), Tidy(ms), NEW open, NEW whole,
         Seen(ms, open, whole), NEW es \in Seq(ToolEvents(n))
  PROVE  /\ Reads(ms, es) \in Seq(Upto(n)) /\ Tidy(Reads(ms, es)) /\ Seen(Reads(ms, es), open, whole)
         /\ TextOf(Reads(ms, es)) = TextOf(ms)
<1> DEFINE G == {y \in Seq(Upto(n)) : Tidy(y) /\ Seen(y, open, whole) /\ TextOf(y) = TextOf(ms)}
           len == Len(es)
           T == [k \in 0..len |-> G]
<1>1. es \in Seq(Events(n)) /\ len \in Nat /\ (\A k \in 1..len : es[k] \in ToolEvents(n))
  <2>1. ToolEvents(n) \subseteq Events(n)
    BY DEF ToolEvents
  <2>2. QED
    BY <2>1
<1>2. PICK v : /\ v[0] = ms /\ Reads(ms, es) = v[Len(es)]
               /\ \A k \in 1..Len(es) : v[k] = Shown(v[k - 1], es[k])
  BY <1>1, ReadsFollows
<1>3. ms \in G
  <2>1. ms \in Seq(Upto(n))
    <3>1. Upto(p) \subseteq Upto(n)
      BY UptoGrows
    <3>2. QED
      BY <3>1
  <2>2. QED
    BY <2>1
<1>4. ASSUME NEW y \in G, NEW e \in ToolEvents(n)
      PROVE  Shown(y, e) \in G
  <2>1. y \in Seq(Upto(n)) /\ Tidy(y) /\ Seen(y, open, whole) /\ TextOf(y) = TextOf(ms)
    OBVIOUS
  <2>2. /\ Shown(y, e) \in Seq(Upto(n)) /\ Tidy(Shown(y, e)) /\ Seen(Shown(y, e), open, whole)
        /\ TextOf(Shown(y, e)) = TextOf(y)
    BY <2>1, SeenTool
  <2>3. QED
    BY <2>1, <2>2
<1>5. T[0] = G /\ T[len] = G /\ \A k \in 1..len : T[k - 1] = G /\ T[k] = G
  BY <1>1
<1> HIDE DEF G, T
<1>6. \A k \in 0..len : v[k] \in T[k]
  <2>1. v[0] \in T[0]
    BY <1>2, <1>3, <1>5
  <2>2. \A k \in 1..len : v[k - 1] \in T[k - 1] => v[k] \in T[k]
    BY <1>1, <1>2, <1>4, <1>5
  <2> HIDE DEF len
  <2>3. QED
    BY <1>1, <2>1, <2>2, GoesThrough
<1>7. v[len] \in G
  BY <1>1, <1>5, <1>6
<1>8. QED
  BY <1>2, <1>7 DEF G

\* A client that reads events has messages of the frames up to there.
LEMMA ReadsKind ==
  ASSUME NEW top \in Nat, NEW ms \in Seq(Upto(top)), NEW n \in Nat, top <= n, NEW es \in Seq(Events(n))
  PROVE  Reads(ms, es) \in Seq(Upto(n))
<1>1. PICK v : /\ v[0] = ms /\ Reads(ms, es) = v[Len(es)]
               /\ \A k \in 1..Len(es) : v[k] = Shown(v[k - 1], es[k])
               /\ \A k \in 0..Len(es) : v[k] \in Seq(Upto(n))
  BY ReadsFollows
<1>2. Len(es) \in 0..Len(es)
  OBVIOUS
<1>3. QED
  BY <1>1, <1>2

\* One event is shown alone.
LEMMA ReadsOne ==
  ASSUME NEW p \in Nat, NEW ms \in Seq(Upto(p)), NEW n \in Nat, p <= n, NEW e \in Events(n)
  PROVE  Reads(ms, <<e>>) = Shown(ms, e)
<1>1. <<e>> \in Seq(Events(n)) /\ Len(<<e>>) = 1 /\ <<e>>[1] = e
  OBVIOUS
<1>2. PICK v : /\ v[0] = ms /\ Reads(ms, <<e>>) = v[Len(<<e>>)]
               /\ \A k \in 1..Len(<<e>>) : v[k] = Shown(v[k - 1], <<e>>[k])
  <2> DEFINE es == <<e>>
  <2>1. es \in Seq(Events(n))
    BY <1>1
  <2> HIDE DEF es
  <2>2. \E v : /\ v[0] = ms /\ Reads(ms, es) = v[Len(es)]
               /\ \A k \in 1..Len(es) : v[k] = Shown(v[k - 1], es[k])
    BY <2>1, ReadsFollows
  <2>3. QED
    BY <2>2 DEF es
<1>3. 1 \in 1..1 /\ 1 - 1 = 0
  OBVIOUS
<1>4. QED
  BY <1>1, <1>2, <1>3

\* The message m, with the text n, goes to the end of ms, or in place of its
\* last bubble, k.
Placed(ms, m, x, k, n, w) ==
  \/ /\ Appended(ms, m, x)
     /\ ToSet(m.text) = {n} \/ \A i \in DOMAIN ms : ms[i].role \notin Texts
  \/ /\ Exchanged(ms, k, m, x) /\ LastBubble(ms, k)
     /\ ToSet(m.text) \subseteq ToSet(ms[k].text) \cup {n}
     /\ w => ToSet(ms[k].text) \subseteq ToSet(m.text)

\* A text's event leaves the list tidy and what is open in its last bubble.
LEMMA SeenText ==
  ASSUME log \in Seq(Frames), NEW n \in 1..Len(log), NEW p \in Nat, p < n, NEW ms \in Seq(Upto(p)), Tidy(ms),
         NEW m \in Upto(n), Neat(m), m.role \in Texts, n \in ToSet(m.text), NEW w,
         NEW x, NEW k, Placed(ms, m, x, k, n, w)
  PROVE  /\ Tidy(x) /\ Seen(x, [r \in Texts |-> IF r = m.role THEN m ELSE None], w)
         /\ n \in TextOf(x) /\ TextOf(x) \subseteq TextOf(ms) \cup ToSet(m.text)
         /\ w => TextOf(ms) \subseteq TextOf(x)
<1> DEFINE o == [r \in Texts |-> IF r = m.role THEN m ELSE None]
<1>0. n \in Nat /\ Len(ms) \in Nat /\ DOMAIN ms = 1..Len(ms)
  OBVIOUS
<1>1. OpenNeat(o)
  BY DEF OpenNeat
<1>2. ASSUME NEW j \in DOMAIN x, LastBubble(x, j), x[j] = m
      PROVE  Seen(x, o, w)
  BY <1>1, <1>2 DEF Seen
<1> HIDE DEF o
<1>3. CASE /\ Appended(ms, m, x)
           /\ ToSet(m.text) = {n} \/ \A i \in DOMAIN ms : ms[i].role \notin Texts
  <2>1. Onward(ms, m, n)
    BY <1>3 DEF Onward
  <2>2. Tidy(x)
    BY <1>0, <1>3, <2>1, TidyAppend
  <2>3. DOMAIN x = 1..(Len(ms) + 1) /\ x[Len(ms) + 1] = m
    BY <1>3 DEF Appended
  <2>4. Len(ms) + 1 \in DOMAIN x /\ LastBubble(x, Len(ms) + 1)
    BY <1>0, <2>3 DEF LastBubble
  <2>5. Seen(x, o, w)
    BY <1>2, <2>3, <2>4
  <2>6. TextOf(x) = TextOf(ms) \cup ToSet(m.text)
    BY <1>3, TextsAfter
  <2>7. QED
    BY <2>2, <2>5, <2>6 DEF o
<1>4. CASE /\ Exchanged(ms, k, m, x) /\ LastBubble(ms, k)
           /\ ToSet(m.text) \subseteq ToSet(ms[k].text) \cup {n}
           /\ w => ToSet(ms[k].text) \subseteq ToSet(m.text)
  <2>1. InPlace(ms, k, m, n)
    BY <1>4 DEF InPlace, LastBubble
  <2>2. Tidy(x)
    BY <1>0, <1>4, <2>1, TidyExchange
  <2>3. DOMAIN x = DOMAIN ms /\ (\A i \in DOMAIN ms : i # k => x[i] = ms[i]) /\ k \in DOMAIN x /\ x[k] = m
    BY <1>0, <1>4 DEF Exchanged
  <2>4. LastBubble(x, k)
    <3>1. \A i \in DOMAIN ms : i > k => i # k /\ ms[i].role \notin Texts
      BY <1>0, <1>4, <2>3 DEF LastBubble
    <3>2. QED
      BY <2>3, <3>1 DEF LastBubble
  <2>5. Seen(x, o, w)
    BY <1>2, <2>3, <2>4
  <2>6. /\ TextOf(x) \subseteq TextOf(ms) \cup ToSet(m.text) /\ ToSet(m.text) \subseteq TextOf(x)
        /\ TextOf(ms) \subseteq TextOf(x) \cup ToSet(ms[k].text)
    BY <1>4, TextsAfter
  <2>7. QED
    BY <1>4, <2>2, <2>5, <2>6 DEF o
<1>5. QED
  BY <1>3, <1>4 DEF Placed

\* Each frame the stream reads leaves the client's list tidy; a text is in it,
\* and no other is lost if what is open is whole.
LEMMA SeenStep ==
  ASSUME log \in Seq(Frames), NEW n \in 1..Len(log), NEW p \in Nat, p < n, NEW a \in Aggs(p),
         NEW ms \in Seq(Upto(p)), Tidy(ms), NEW w, Seen(ms, a.open, w)
  PROVE  /\ Reads(ms, Step(a, n).out) \in Seq(Upto(n)) /\ Tidy(Reads(ms, Step(a, n).out))
         /\ Seen(Reads(ms, Step(a, n).out), Step(a, n).agg.open, w)
         /\ IsText(n) => /\ n \in TextOf(Reads(ms, Step(a, n).out))
                         /\ TextOf(Reads(ms, Step(a, n).out)) \subseteq TextOf(ms) \cup ToSet(Step(a, n).out[1].msg.text)
         /\ ~IsText(n) => TextOf(Reads(ms, Step(a, n).out)) = TextOf(ms)
         /\ w => TextOf(ms) \subseteq TextOf(Reads(ms, Step(a, n).out))
<1> SUFFICES ASSUME NEW open, NEW o, NEW es, open = a.open, o = Step(a, n).agg.open, es = Step(a, n).out,
                    NEW x, x = Reads(ms, es)
             PROVE  /\ x \in Seq(Upto(n)) /\ Tidy(x) /\ Seen(x, o, w)
                    /\ IsText(n) => n \in TextOf(x) /\ TextOf(x) \subseteq TextOf(ms) \cup ToSet(es[1].msg.text)
                    /\ ~IsText(n) => TextOf(x) = TextOf(ms)
                    /\ w => TextOf(ms) \subseteq TextOf(x)
  OBVIOUS
<1>0. n \in Nat /\ p <= n /\ Len(ms) \in Nat /\ DOMAIN ms = 1..Len(ms)
  OBVIOUS
<1>1. open \in Opens(p) /\ AggShape(open, o, es, n)
  BY AggStepShape
<1>2. es \in Seq(Events(n)) /\ (~IsText(n) => es \in Seq(ToolEvents(n)))
  BY AggStep
<1>3. OpenNeat(open)
  BY DEF Seen
<1>4. x \in Seq(Upto(n))
  <2>1. es \in Seq(Events(n))
    BY <1>2
  <2>2. QED
    BY <1>0, <2>1, ReadsKind
<1>5. CASE ~IsText(n)
  <2>1. Tidy(x) /\ Seen(x, open, w) /\ TextOf(x) = TextOf(ms)
    BY <1>0, <1>2, <1>5, SeenTools
  <2>2. o = open \/ o = [r \in Texts |-> None]
    BY <1>1, <1>5 DEF AggShape
  <2>3. Seen(x, [r \in Texts |-> None], w)
    BY DEF Seen, OpenNeat
  <2>4. QED
    BY <1>4, <1>5, <2>1, <2>2, <2>3
<1>6. CASE IsText(n) /\ open[log[n].of] = None
  <2> DEFINE b == Bubble(n)
             e == Event("chat", b)
  <2>1. o = [r \in Texts |-> IF r = log[n].of THEN b ELSE None] /\ es = <<e>> /\ log[n].of \in Texts
    BY <1>1, <1>6 DEF AggShape
  <2>2. b \in Upto(n) /\ b.role = log[n].of /\ ToSet(b.text) = {n} /\ Neat(b)
    BY <1>6, BubbleKind, NeatBegun DEF IsText
  <2>3. e \in Events(n) /\ e.event = "chat" /\ e.msg = b /\ es[1].msg = b
    <3>1. b # None
      BY <1>0, <2>2, NoneApart
    <3> HIDE DEF b
    <3>2. QED
      BY <2>1, <2>2, <3>1 DEF Event, Events
  <2> HIDE DEF b, e
  <2>4. x = Shown(ms, e)
    BY <1>0, <2>1, <2>3, ReadsOne
  <2>5. Appended(ms, b, x)
    <3>1. e.event = "chat" \/ SameLine(ms, e.msg) = {}
      BY <2>3
    <3>2. Shown(ms, e) = Append(ms, e.msg)
      BY <1>0, <2>3, <3>1, ShownKind
    <3>3. x = Append(ms, b)
      BY <2>3, <2>4, <3>2
    <3>4. ms \in Seq(Upto(n))
      <4>1. Upto(p) \subseteq Upto(n)
        BY <1>0, UptoGrows
      <4>2. QED
        BY <4>1
    <3> DEFINE S == Upto(n)
    <3>5. ms \in Seq(S) /\ b \in S
      BY <2>2, <3>4
    <3> HIDE DEF S
    <3>6. QED
      BY <3>3, <3>5, AppendSet DEF Appended
  <2>6. n \in ToSet(b.text) /\ b.role \in Texts /\ Placed(ms, b, x, 0, n, w)
    BY <2>1, <2>2, <2>5 DEF Placed
  <2>7. /\ Tidy(x) /\ Seen(x, [r \in Texts |-> IF r = b.role THEN b ELSE None], w)
        /\ n \in TextOf(x) /\ TextOf(x) \subseteq TextOf(ms) \cup ToSet(b.text)
        /\ w => TextOf(ms) \subseteq TextOf(x)
    BY <2>2, <2>6, SeenText
  <2>8. o = [r \in Texts |-> IF r = b.role THEN b ELSE None]
    BY <2>1, <2>2
  <2>9. Seen(x, o, w)
    BY <2>7, <2>8
  <2>10. QED
    BY <1>4, <1>6, <2>3, <2>7, <2>9
<1>7. CASE IsText(n) /\ open[log[n].of] # None
  <2> DEFINE r0 == log[n].of
             b == open[r0]
             g == Grown(b, n)
             e == Event("update", g)
  <2>1. o = [open EXCEPT ![r0] = g] /\ r0 \in Texts /\ es = <<e>>
    BY <1>1, <1>7 DEF AggShape
  <2>2. b \in Upto(p) /\ b.role = r0 /\ Neat(b)
    BY <1>1, <1>3, <1>7, <2>1 DEF Opens, OpenNeat
  <2>3. \A r \in Texts : r # r0 => open[r] = None
    BY <1>3, <1>7, <2>1 DEF OpenNeat
  <2>4. \/ \A i \in DOMAIN ms : ms[i].role \notin Texts
        \/ \E k \in DOMAIN ms :
             /\ LastBubble(ms, k) /\ ms[k].role = r0 /\ ToSet(b.text) \subseteq ToSet(ms[k].text)
             /\ w => ToSet(b.text) = ToSet(ms[k].text)
    BY <1>7, <2>1 DEF Seen
  <2> HIDE DEF b
  <2>5. g \in Upto(n) /\ g.role = r0
    BY <1>0, <2>2, GrownKind
  <2>6. ToSet(g.text) = ToSet(b.text) \cup {n}
    <3>1. Gains(g, b, n)
      BY <1>0, <2>2, GrownGains
    <3>2. QED
      BY <3>1 DEF Gains
  <2>7. Neat(g)
    BY <2>1, <2>2, NeatGrown
  <2> HIDE DEF g
  <2>8. e \in Events(n) /\ e.event = "update" /\ e.msg = g /\ es[1].msg = g
    <3>1. g # None
      BY <1>0, <2>5, NoneApart
    <3>2. QED
      BY <2>1, <2>5, <3>1 DEF Event, Events
  <2> HIDE DEF e
  <2>9. x = Shown(ms, e)
    BY <1>0, <2>1, <2>8, ReadsOne
  <2>10. \/ SameLine(ms, g) = {} /\ Appended(ms, g, x)
         \/ \E k \in SameLine(ms, g) : (\A i \in SameLine(ms, g) : i <= k) /\ Exchanged(ms, k, g, x)
    <3>1. \/ /\ e.event = "chat" \/ SameLine(ms, e.msg) = {}
             /\ Appended(ms, e.msg, Shown(ms, e))
          \/ \E k \in SameLine(ms, e.msg) :
               (\A i \in SameLine(ms, e.msg) : i <= k) /\ Exchanged(ms, k, e.msg, Shown(ms, e))
      <4>1. e.event # "stop"
        BY <2>8
      <4>2. QED
        BY <1>0, <2>8, <4>1, ShownShape
    <3>2. QED
      BY <2>8, <2>9, <3>1
  <2> HIDE DEF r0
  <2>11. SameLine(ms, g) = {i \in DOMAIN ms : ms[i].role = r0}
    BY <2>1, <2>5 DEF SameLine, Texts
  <2>12. g.role \in Texts /\ n \in ToSet(g.text) /\ o = [r \in Texts |-> IF r = g.role THEN g ELSE None]
    BY <1>1, <2>1, <2>3, <2>5, <2>6 DEF Opens
  <2>13. /\ Tidy(x) /\ Seen(x, [r \in Texts |-> IF r = g.role THEN g ELSE None], w)
         /\ n \in TextOf(x) /\ TextOf(x) \subseteq TextOf(ms) \cup ToSet(g.text)
         /\ w => TextOf(ms) \subseteq TextOf(x)
    <3>1. CASE SameLine(ms, g) = {} /\ Appended(ms, g, x)
      <4>1. \A i \in DOMAIN ms : ms[i].role \notin Texts
        BY <2>4, <2>11, <3>1
      <4>2. Placed(ms, g, x, 0, n, w)
        BY <3>1, <4>1 DEF Placed
      <4>3. QED
        BY <2>5, <2>7, <2>12, <4>2, SeenText
    <3>2. CASE \E k \in SameLine(ms, g) : (\A i \in SameLine(ms, g) : i <= k) /\ Exchanged(ms, k, g, x)
      <4>1. PICK k \in SameLine(ms, g) : (\A i \in SameLine(ms, g) : i <= k) /\ Exchanged(ms, k, g, x)
        BY <3>2
      <4>2. k \in DOMAIN ms /\ ms[k].role = r0
        BY <2>11, <4>1
      <4>3. PICK l \in DOMAIN ms :
              /\ LastBubble(ms, l) /\ ms[l].role = r0 /\ ToSet(b.text) \subseteq ToSet(ms[l].text)
              /\ w => ToSet(b.text) = ToSet(ms[l].text)
        BY <2>1, <2>4, <4>2
      <4>4. k = l
        <5>1. l <= k /\ ~(k > l)
          BY <2>1, <2>11, <4>1, <4>2, <4>3 DEF LastBubble
        <5>2. QED
          BY <1>0, <4>2, <4>3, <5>1
      <4>5. /\ Exchanged(ms, k, g, x) /\ LastBubble(ms, k)
            /\ ToSet(g.text) \subseteq ToSet(ms[k].text) \cup {n}
            /\ w => ToSet(ms[k].text) \subseteq ToSet(g.text)
        BY <2>6, <4>1, <4>3, <4>4
      <4>6. Placed(ms, g, x, k, n, w)
        BY <4>5 DEF Placed
      <4>7. QED
        BY <2>5, <2>7, <2>12, <4>6, SeenText
    <3>3. QED
      BY <2>10, <3>1, <3>2
  <2>14. Seen(x, o, w)
    BY <2>12, <2>13
  <2>15. QED
    BY <1>4, <1>7, <2>8, <2>13, <2>14
<1>8. QED
  BY <1>5, <1>6, <1>7

----------------------------------------------------------------------------
(* The invariant *)

\* w is what each frame of ns makes of the aggregator.
WarmBy(w, ns) == w[0] = NoAgg /\ \A k \in 1..Len(ns) : w[k] = Step(w[k - 1], ns[k]).agg

\* There is one way to warm up.
LEMMA WarmIs ==
  ASSUME log \in Seq(Frames), NEW ns, Numbers(ns), NEW w, WarmBy(w, ns)
  PROVE  Warm(ns) = w[Len(ns)]
<1>1. PICK c : /\ c[0] = NoAgg /\ Warm(ns) = c[Len(ns)]
               /\ \A k \in 1..Len(ns) : c[k] = Step(c[k - 1], ns[k]).agg
  <2>1. /\ Len(log) \in Nat /\ \A k \in 1..Len(ns) : Speaks(ns[k]) => ns[k] <= Len(log)
    BY EndsKind
  <2>2. \E c : /\ c[0] = NoAgg /\ Warm(ns) = c[Len(ns)]
               /\ \A k \in 1..Len(ns) : c[k] = Step(c[k - 1], ns[k]).agg
               /\ \A k \in 0..Len(ns) : c[k] \in Aggs(Early(Len(log), EndsAt(ns, k)))
    BY <2>1, WarmFollows
  <2>3. QED
    BY <2>2
<1> DEFINE n == Len(ns)
           P == {k \in 0..n : c[k] = w[k]}
<1>2. n \in Nat /\ \A k \in 1..n : k - 1 \in 0..n /\ k \in 0..n
  BY EndsKind
<1>3. 0 \in P
  BY <1>1, <1>2 DEF WarmBy
<1>4. ASSUME NEW k \in 1..n, k - 1 \in P
      PROVE  k \in P
  <2>1. c[k - 1] = w[k - 1]
    BY <1>4
  <2>2. c[k] = Step(c[k - 1], ns[k]).agg /\ w[k] = Step(w[k - 1], ns[k]).agg
    BY <1>1 DEF WarmBy
  <2>3. QED
    BY <1>2, <2>1, <2>2
<1> HIDE DEF P, n
<1>5. \A k \in 0..n : k \in P
  BY <1>2, <1>3, <1>4, UpTo
<1>6. n \in P
  BY <1>2, <1>5
<1>7. QED
  BY <1>1, <1>6 DEF P, n

\* A snapshot's aggregator agrees with its list.
LEMMA WarmAgrees ==
  ASSUME log \in Seq(Frames), NEW ns, Numbers(ns), NEW q \in Nat,
         \A k \in 1..Len(ns) : Speaks(ns[k]) => ns[k] <= q
  PROVE  /\ Tidy(aggregateChat(ns))
         /\ \E w : /\ WarmBy(w, ns) /\ w[Len(ns)] \in Aggs(q)
                   /\ Agree(aggregateChat(ns), w[Len(ns)].open, ~StopIn(ns))
<1>1. PICK w : /\ w[0] = NoAgg /\ Warm(ns) = w[Len(ns)]
               /\ \A k \in 1..Len(ns) : w[k] = Step(w[k - 1], ns[k]).agg
               /\ \A k \in 0..Len(ns) : w[k] \in Aggs(Early(q, EndsAt(ns, k)))
  BY WarmFollows
<1> DEFINE n == Len(ns)
           c == ChatOf(ns)
           whole(k) == ~\E i \in 1..k : log[ns[i]].kind = "stop"
           P == {k \in 0..n : ListInv(c[k]) /\ Agree(c[k].out, w[k].open, whole(k))}
<1>2. /\ n \in Nat /\ DOMAIN ns = 1..n /\ (\A k \in 1..n : k - 1 \in 0..n /\ k \in 0..n) /\ n \in 0..n
      /\ \A k \in 0..n : EndsAt(ns, k) \in 0..Len(log)
      /\ \A k \in 1..n : ns[k] \in 1..Len(log) /\ EndsAt(ns, k - 1) < ns[k]
  BY EndsKind
<1>3. /\ c[0] = NoChat
      /\ \A k \in 1..n : c[k] = ChatStep(c[k - 1], ns[k])
      /\ \A k \in 0..n : c[k] \in Chats(EndsAt(ns, k))
  BY ChatOfFollows DEF ChatsTold
<1>4. \A k \in 0..n : w[k] \in Aggs(EndsAt(ns, k))
  <2>1. ASSUME NEW k \in 0..n
        PROVE  w[k] \in Aggs(EndsAt(ns, k))
    <3>1. EndsAt(ns, k) \in Nat /\ Early(q, EndsAt(ns, k)) \in Nat /\ Early(q, EndsAt(ns, k)) <= EndsAt(ns, k)
      BY <1>2 DEF Early
    <3>2. w[k] \in Aggs(Early(q, EndsAt(ns, k)))
      BY <1>1
    <3>3. QED
      BY <3>1, <3>2, AggsGrow
  <2>2. QED
    BY <2>1
<1>5. 0 \in P
  <2>1. c[0].out = <<>> /\ \A t \in Tools : c[0].tools[t] = 0
    BY <1>3 DEF NoChat
  <2>2. w[0].open = [r \in Texts |-> None]
    BY <1>1, NoAggKind
  <2>3. ListInv(c[0])
    BY <2>1 DEF ListInv, Tidy
  <2>4. Agree(c[0].out, w[0].open, whole(0))
    BY <2>1, <2>2 DEF Agree, OpenNeat
  <2>5. QED
    BY <1>2, <2>3, <2>4
<1>6. ASSUME NEW k \in 1..n, k - 1 \in P
      PROVE  k \in P
  <2> DEFINE m == ns[k]
             p == EndsAt(ns, k - 1)
             b == c[k - 1]
             a == w[k - 1]
             u == whole(k - 1)
             v == whole(k)
  <2>1. /\ m \in 1..Len(log) /\ p \in Nat /\ p < m /\ b \in Chats(p) /\ a \in Aggs(p)
        /\ ListInv(b) /\ Agree(b.out, a.open, u) /\ u \in BOOLEAN /\ v \in BOOLEAN
    BY <1>2, <1>3, <1>4, <1>6
  <2>2. v => u /\ log[m].kind # "stop"
    BY <1>2
  <2>3. c[k] = ChatStep(b, m) /\ w[k] = Step(a, m).agg
    BY <1>1, <1>3
  <2>4. k \in 0..n
    BY <1>2
  <2> HIDE DEF m, p, b, a, u, v
  <2>5. ListInv(ChatStep(b, m))
    BY <2>1, ListStep
  <2>6. Agree(ChatStep(b, m).out, Step(a, m).agg.open, v)
    BY <2>1, <2>2, AgreeStep
  <2>7. QED
    BY <2>3, <2>4, <2>5, <2>6 DEF v
<1> HIDE DEF P, n, c, whole
<1>7. \A k \in 0..n : k \in P
  BY <1>2, <1>5, <1>6, UpTo
<1>8. n \in P
  BY <1>2, <1>7
<1>9. whole(n) <=> ~StopIn(ns)
  BY <1>2 DEF StopIn, whole
<1>10. Tidy(aggregateChat(ns)) /\ Agree(aggregateChat(ns), w[n].open, ~StopIn(ns))
  <2>1. Tidy(c[n].out) /\ Agree(c[n].out, w[n].open, whole(n))
    BY <1>8 DEF P, ListInv
  <2>2. Agree(c[n].out, w[n].open, ~StopIn(ns))
    BY <1>9, <2>1 DEF Agree
  <2>3. QED
    BY <2>1, <2>2 DEF aggregateChat, c, n
<1>11. w[n] \in Aggs(q)
  <2>1. Early(q, EndsAt(ns, n)) \in Nat /\ Early(q, EndsAt(ns, n)) <= q
    BY <1>2 DEF Early
  <2>2. w[n] \in Aggs(Early(q, EndsAt(ns, n)))
    BY <1>1, <1>2 DEF n
  <2>3. QED
    BY <2>1, <2>2, AggsGrow
<1>12. WarmBy(w, ns)
  BY <1>1 DEF WarmBy
<1>13. QED
  BY <1>10, <1>11, <1>12 DEF n

\* The messages of a stream, written and not yet written.
Pending == view \o hist
\* The last frame of the snapshot.
Top == EndsAt(snap, Len(snap))
\* Text the client has been shown, or that is known to be lost to it.
Safe == rendered \cup gone \cup overrun \cup between \cup unwritten

TypeInv ==
  /\ log \in Seq(Frames) /\ Len(log) <= MaxFrames
  /\ pc \in {"idle", "polled", "history", "live"}
  /\ last \in 0..Len(log) /\ since \in 0..Len(log)
  /\ Numbers(snap) /\ Numbers(queue) /\ Len(queue) <= ChanCap
  /\ view \in Seq(Upto(Len(log))) /\ hist \in Seq(Upto(Len(log))) /\ agg \in Aggs(Len(log))
  /\ registered \in BOOLEAN /\ closed \in BOOLEAN /\ (registered => pc = "live" /\ ~closed)
  /\ closed => pc = "live"
  /\ Safe \subseteq 1..Len(log)
  /\ pc \in {"idle", "polled"} =>
       view = <<>> /\ hist = <<>> /\ agg = NoAgg /\ queue = <<>> /\ snap = <<>>

\* q is the greatest number the stream has begun with.
Reach(ms, q) ==
  (ms = <<>> => q = since) /\ (ms # <<>> => \E i \in DOMAIN ms : q = ms[i].seq)

\* The snapshot's messages, and what warming up will leave open.
HistoryInv ==
  pc = "history" =>
    /\ agg = NoAgg /\ queue = <<>>
    /\ Pending \in Seq(Upto(Top)) /\ Tidy(Pending)
    /\ \A i \in DOMAIN Pending : since < Pending[i].seq
    /\ last = IF view = <<>> THEN since ELSE Last(view).seq
    /\ \E w : /\ WarmBy(w, snap) /\ Seen(Pending, w[Len(snap)].open, ~StopIn(snap))
              /\ \E q \in 0..Len(log) : w[Len(snap)] \in Aggs(q) /\ Reach(Pending, q)

\* The stream's messages are all of frames before those in the queue.
LiveInv ==
  pc = "live" =>
    /\ hist = <<>> /\ Tidy(view) /\ Seen(view, agg.open, ~StopIn(snap))
    /\ \E p \in 0..Len(log) :
         /\ agg \in Aggs(p) /\ view \in Seq(Upto(p)) /\ last <= p /\ since <= p
         /\ \A i \in DOMAIN queue : p < queue[i]

\* The frames the client's request is to have dealt with.
Due(n) ==
  \/ n <= last \/ pc = "polled" \/ registered \/ (pc = "history" /\ n <= Top)
  \/ \E i \in DOMAIN queue : n <= queue[i]

MissInv ==
  \A n \in 1..Len(log) :
    IsText(n) /\ Due(n) => n \in Safe \cup TextOf(hist) \cup ToSet(queue)

\* Those its stream is to show.
ToShow(n) == (pc = "history" /\ n <= Top) \/ registered

CompleteInv ==
  /\ TextOf(view) \subseteq rendered
  /\ \A n \in (since + 1)..Len(log) : IsText(n) /\ ToShow(n) =>
       \/ n \in gone \cup overrun \cup TextOf(Pending) \cup ToSet(queue)
       \/ n \in rendered /\ StopIn(snap)

ChatInv == TypeInv /\ HistoryInv /\ LiveInv /\ MissInv /\ CompleteInv

----------------------------------------------------------------------------
(* What follows from it *)

\* The first part of a tidy list is tidy.
LEMMA PrefixTidy ==
  ASSUME NEW S, NEW v \in Seq(S), NEW h \in Seq(S), Tidy(v \o h)
  PROVE  Tidy(v)
<1>1. \A i \in DOMAIN v : i \in DOMAIN (v \o h) /\ (v \o h)[i] = v[i]
  OBVIOUS
<1> DEFINE x == v \o h
<1>2. \A i \in DOMAIN v : i \in DOMAIN x /\ x[i] = v[i]
  BY <1>1
<1>3. Tidy(x)
  OBVIOUS
<1> HIDE DEF x
<1>4. QED
  BY <1>2, <1>3 DEF Tidy

\* What is in the channel is beyond the client's number.
LEMMA InvMissed == ChatInv => MissedOnlyThere
<1> SUFFICES ASSUME ChatInv, NEW n \in 1..last, IsText(n)
             PROVE  n \in rendered \cup TextOf(hist) \cup gone \cup overrun \cup between \cup unwritten
  BY DEF MissedOnlyThere
<1>0. TypeInv /\ HistoryInv /\ LiveInv /\ MissInv
  BY DEF ChatInv
<1>1. n \in 1..Len(log) /\ n <= last /\ last \in Nat
  BY <1>0 DEF TypeInv
<1>2. n \in Safe \cup TextOf(hist) \cup ToSet(queue)
  BY <1>0, <1>1 DEF MissInv, Due
<1>3. n \notin ToSet(queue)
  <2>1. CASE pc # "live"
    <3>1. queue = <<>>
      BY <1>0, <2>1 DEF TypeInv, HistoryInv
    <3>2. QED
      BY <3>1 DEF ToSet
  <2>2. CASE pc = "live"
    <3>1. PICK p \in 0..Len(log) : last <= p /\ \A i \in DOMAIN queue : p < queue[i]
      BY <1>0, <2>2 DEF LiveInv
    <3>2. \A i \in DOMAIN queue : queue[i] \in Nat
      BY <1>0 DEF TypeInv, Numbers
    <3>3. \A i \in DOMAIN queue : queue[i] # n
      BY <1>1, <3>1, <3>2
    <3>4. QED
      BY <3>3 DEF ToSet
  <2>3. QED
    BY <2>1, <2>2
<1>4. QED
  BY <1>2, <1>3 DEF Safe

\* With nothing in the channel, all that is to be shown is in the view.
LEMMA InvComplete == ChatInv => StreamComplete
<1> SUFFICES ASSUME ChatInv, CaughtUp
             PROVE  LET missing == {n \in (since + 1)..Len(log) : IsText(n)} \ (gone \cup overrun \cup TextOf(view))
                    IN  missing \subseteq rendered /\ (missing # {} => StopIn(snap))
  BY DEF StreamComplete
<1>0. TypeInv /\ LiveInv /\ CompleteInv
  BY DEF ChatInv
<1>1. pc = "live" /\ registered /\ queue = <<>> /\ hist = <<>>
  BY <1>0 DEF LiveInv, CaughtUp
<1>2. Pending = view
  <2>1. view \in Seq(Upto(Len(log)))
    BY <1>0 DEF TypeInv
  <2>2. QED
    BY <1>1, <2>1 DEF Pending
<1>3. ToSet(queue) = {}
  BY <1>1 DEF ToSet
<1>4. \A n \in (since + 1)..Len(log) : IsText(n) =>
        n \in gone \cup overrun \cup TextOf(view) \/ (n \in rendered /\ StopIn(snap))
  BY <1>0, <1>1, <1>2, <1>3 DEF CompleteInv, ToShow
<1>5. QED
  BY <1>4

\* The sets of the invariant are those of TypeOK.
LEMMA InvType == ChatInv => TypeOK
<1> SUFFICES ASSUME ChatInv PROVE TypeOK
  OBVIOUS
<1>0. TypeInv
  BY DEF ChatInv
<1>1. /\ log \in Seq(Frames) /\ Len(log) <= MaxFrames /\ Len(log) \in Nat
      /\ pc \in {"idle", "polled", "history", "live"}
      /\ last \in 0..Len(log) /\ since \in 0..Len(log)
      /\ view \in Seq(Upto(Len(log))) /\ hist \in Seq(Upto(Len(log))) /\ agg \in Aggs(Len(log))
      /\ registered \in BOOLEAN /\ closed \in BOOLEAN /\ Len(queue) <= ChanCap
      /\ registered => pc = "live" /\ ~closed
      /\ Safe \subseteq 1..Len(log)
  BY <1>0 DEF TypeInv
<1>2. ASSUME NEW m \in Upto(Len(log))
      PROVE  Message(m)
  <2>1. /\ m.first \in 1..Len(log) /\ m.seq \in m.first..Len(log)
        /\ m.role \in Roles /\ m.summary \in Summaries /\ ToSet(m.text) \subseteq m.first..m.seq
    BY <1>1, MessageKind
  <2>2. QED
    BY <2>1, Zenon DEF Message, Roles, Summaries
<1>3. \A i \in DOMAIN hist : Message(hist[i])
  BY <1>1, <1>2
<1>4. \A i \in DOMAIN view : Message(view[i])
  BY <1>1, <1>2
<1>5. agg.open \in Opens(Len(log)) /\ agg.tools \in Waits(Len(log))
  BY <1>1 DEF Aggs
<1>6. \A r \in Texts : agg.open[r] # None => Message(agg.open[r]) /\ agg.open[r].role = r
  BY <1>2, <1>5 DEF Opens
<1>7. \A t \in Tools : agg.tools[t] # None => Message(agg.tools[t])
  BY <1>2, <1>5 DEF Waits
<1>8. rendered \cup gone \cup overrun \cup between \cup unwritten \subseteq 1..MaxFrames
  <2>1. 1..Len(log) \subseteq 1..MaxFrames
    BY <1>1, Sizes
  <2>2. QED
    BY <1>1, <2>1 DEF Safe
<1>9. QED
  BY <1>1, <1>3, <1>4, <1>6, <1>7, <1>8 DEF TypeOK

----------------------------------------------------------------------------
(* Every step keeps it *)

\* The frames published stay what they are.
LogStays ==
  /\ log \in Seq(Frames) /\ log' \in Seq(Frames) /\ Len(log) <= Len(log')
  /\ \A n \in 1..Len(log) : log'[n] = log[n]

\* A message of frames that stay is as neat as before,
LEMMA NeatStays ==
  ASSUME LogStays, NEW m \in Upto(Len(log)), Neat(m)
  PROVE  Neat(m)'
<1>1. Len(log) \in Nat
  BY DEF LogStays
<1>2. ToSet(m.text) \subseteq 1..Len(log)
  BY <1>1, MessageKind
<1>3. \A i \in DOMAIN m.text : m.text[i] \in 1..Len(log)
  BY <1>2 DEF ToSet
<1>4. \A i \in DOMAIN m.text : log'[m.text[i]] = log[m.text[i]]
  BY <1>3 DEF LogStays
<1>5. QED
  BY <1>4 DEF Neat

\* ... a list of such messages as tidy,
LEMMA TidyStays ==
  ASSUME LogStays, NEW ms \in Seq(Upto(Len(log))), Tidy(ms)
  PROVE  Tidy(ms)'
<1>1. \A i \in DOMAIN ms : ms[i] \in Upto(Len(log)) /\ Neat(ms[i])
  BY DEF Tidy
<1>2. \A i \in DOMAIN ms : Neat(ms[i])'
  BY <1>1, NeatStays
<1>3. QED
  BY <1>2 DEF Tidy

\* ... and what is open of them seen as before.
LEMMA SeenStays ==
  ASSUME LogStays, NEW ms, NEW open \in Opens(Len(log)), NEW whole, Seen(ms, open, whole)
  PROVE  Seen(ms, open, whole)'
<1>1. \A r \in Texts : open[r] # None => open[r] \in Upto(Len(log)) /\ Neat(open[r])
  BY DEF Opens, Seen, OpenNeat
<1>2. \A r \in Texts : open[r] # None => Neat(open[r])'
  BY <1>1, NeatStays
<1>3. OpenNeat(open)'
  <2>1. \A r, q \in Texts : open[r] # None /\ open[q] # None => r = q
    BY DEF Seen, OpenNeat
  <2>2. QED
    BY <1>2, <2>1 DEF OpenNeat, None
<1>4. QED
  BY <1>3 DEF Seen, LastBubble, None

\* What a step makes of a frame depends on nothing but the frame.
LEMMA StepStays ==
  ASSUME NEW a, NEW n, log'[n] = log[n]
  PROVE  Step(a, n)' = Step(a, n)
BY DEF Step, Bubble, Grown, Tool, Ended, Event, NoAgg

\* What a snapshot warms up stays what it is.
LEMMA NumbersStay ==
  ASSUME LogStays, NEW ns, Numbers(ns)
  PROVE  /\ Numbers(ns)' /\ (StopIn(ns)' <=> StopIn(ns))
         /\ \A w : WarmBy(w, ns) => WarmBy(w, ns)'
<1>1. Len(log) \in Nat /\ Len(log') \in Nat /\ Len(log) <= Len(log')
  BY DEF LogStays
<1>2. \A k \in DOMAIN ns : ns[k] \in 1..Len(log) /\ log'[ns[k]] = log[ns[k]]
  BY DEF LogStays, Numbers
<1>3. Numbers(ns)'
  BY <1>1 DEF Numbers
<1>4. StopIn(ns)' <=> StopIn(ns)
  BY <1>2 DEF StopIn
<1>5. ASSUME NEW w, WarmBy(w, ns)
      PROVE  WarmBy(w, ns)'
  <2>1. ASSUME NEW k \in 1..Len(ns)
        PROVE  (w[k] = Step(w[k - 1], ns[k]).agg)'
    <3>1. w[k] = Step(w[k - 1], ns[k]).agg
      BY <1>5 DEF WarmBy
    <3>2. log'[ns[k]] = log[ns[k]]
      BY <1>2 DEF Numbers
    <3>3. Step(w[k - 1], ns[k])' = Step(w[k - 1], ns[k])
      BY <3>2, StepStays
    <3>4. QED
      BY <3>1, <3>3
  <2>2. w[0] = NoAgg
    BY <1>5 DEF WarmBy
  <2>3. (w[0] = NoAgg)'
    BY <2>2 DEF NoAgg
  <2>4. QED
    BY <2>1, <2>3 DEF WarmBy
<1>6. QED
  BY <1>3, <1>4, <1>5

\* A frame is put at the end of the log.
LEMMA LogGrows ==
  ASSUME log \in Seq(Frames), NEW f \in Frames, log' = Append(log, f)
  PROVE  LogStays /\ Len(log') = Len(log) + 1
<1>1. /\ Append(log, f) \in Seq(Frames) /\ Len(Append(log, f)) = Len(log) + 1
      /\ \A i \in 1..Len(log) : Append(log, f)[i] = log[i]
  BY AppendSet
<1>2. Len(log) \in Nat
  OBVIOUS
<1>3. QED
  BY <1>1, <1>2 DEF LogStays

\* Frames stay what they are in a step that publishes none.
LEMMA LogSame ==
  ASSUME TypeInv, log' = log
  PROVE  LogStays
BY DEF TypeInv, LogStays

\* The new frame's number goes to the end of a queue.
LEMMA NumbersAppend ==
  ASSUME LogStays, NEW m, m = Len(log'), m = Len(log) + 1, NEW ns, Numbers(ns)
  PROVE  Numbers(Append(ns, m))'
<1>1. Len(log) \in Nat /\ ns \in Seq(Nat) /\ m \in Nat
  BY DEF LogStays, Numbers
<1>2. \A k \in DOMAIN ns : ns[k] \in 1..Len(log)
  BY DEF Numbers
<1> DEFINE x == Append(ns, m)
<1>3. /\ x \in Seq(Nat) /\ DOMAIN x = 1..(Len(ns) + 1) /\ Len(ns) \in Nat /\ DOMAIN ns = 1..Len(ns)
      /\ (\A i \in 1..Len(ns) : x[i] = ns[i]) /\ x[Len(ns) + 1] = m
  BY <1>1
<1> HIDE DEF x
<1>4. ASSUME NEW k \in DOMAIN x
      PROVE  x[k] \in 1..m
  <2>1. CASE k = Len(ns) + 1
    BY <1>1, <1>3, <2>1
  <2>2. CASE k # Len(ns) + 1
    <3>1. k \in 1..Len(ns) /\ x[k] = ns[k]
      BY <1>3, <2>2
    <3>2. ns[k] \in 1..Len(log)
      BY <1>2, <1>3, <3>1
    <3>3. QED
      BY <1>1, <3>1, <3>2
  <2>3. QED
    BY <2>1, <2>2
<1>5. ASSUME NEW i \in DOMAIN x, NEW j \in DOMAIN x, i < j
      PROVE  x[i] < x[j]
  <2>1. i \in 1..Len(ns) /\ x[i] = ns[i] /\ ns[i] \in 1..Len(log)
    BY <1>2, <1>3, <1>5
  <2>2. CASE j = Len(ns) + 1
    BY <1>1, <1>3, <2>1, <2>2
  <2>3. CASE j # Len(ns) + 1
    <3>1. j \in 1..Len(ns) /\ x[j] = ns[j]
      BY <1>3, <2>3
    <3>2. ns[i] < ns[j]
      BY <1>3, <1>5, <2>1, <3>1 DEF Numbers
    <3>3. QED
      BY <2>1, <3>1, <3>2
  <2>4. QED
    BY <2>2, <2>3
<1>6. x \in Seq(Nat) /\ (\A k \in DOMAIN x : x[k] \in 1..Len(log')) /\ \A i, j \in DOMAIN x : i < j => x[i] < x[j]
  BY <1>3, <1>4, <1>5
<1>7. QED
  BY <1>6 DEF Numbers, x

\* A frame is new to the client's stream, and in its channel if it is registered.
LEMMA PublishStep ==
  ASSUME ChatInv, NEW f \in Frames, Publish(f)
  PROVE  ChatInv'
<1>0. TypeInv /\ HistoryInv /\ LiveInv /\ MissInv /\ CompleteInv
  BY DEF ChatInv
<1>1. /\ Len(log) < MaxFrames /\ log' = Append(log, f)
      /\ UNCHANGED <<pc, last, since, snap, hist, agg, view, rendered, gone, overrun, unwritten>>
      /\ between' = IF pc = "polled" THEN between \cup {Len(log')} ELSE between
  BY DEF Publish
<1>2. /\ log \in Seq(Frames) /\ Len(log) \in Nat /\ Len(log') = Len(log) + 1 /\ LogStays
      /\ log' \in Seq(Frames)
  BY <1>0, <1>1, LogGrows DEF TypeInv, LogStays
<1>3. \/ queue' = queue /\ registered' = registered /\ closed' = closed /\ ~registered
      \/ registered /\ queue' = queue /\ registered' = FALSE /\ closed' = TRUE
      \/ /\ registered /\ registered' = registered /\ closed' = closed
         /\ queue' = Append(queue, Len(log')) /\ Len(queue) < ChanCap
  <2>1. Len(queue) \in Nat /\ registered \in BOOLEAN
    BY <1>0 DEF TypeInv, Numbers
  <2>2. QED
    BY <1>0, <2>1, Sizes DEF Publish, subVars
<1>4. Upto(Len(log)) \subseteq Upto(Len(log')) /\ Aggs(Len(log)) \subseteq Aggs(Len(log'))
  BY <1>2, UptoGrows, AggsGrow
<1>5. Numbers(snap)' /\ (StopIn(snap)' <=> StopIn(snap)) /\ (\A w : WarmBy(w, snap) => WarmBy(w, snap)')
  <2>1. /\ Numbers(snap)' /\ (StopIn(snap)' <=> StopIn(snap)) /\ snap' = snap
        /\ \A w : WarmBy(w, snap) => WarmBy(w, snap)'
    BY <1>0, <1>1, <1>2, NumbersStay DEF TypeInv
  <2>2. QED
    BY <2>1
<1>6. Numbers(queue)' /\ Len(queue') <= ChanCap
  <2>1. Len(queue) \in Nat /\ Len(queue) <= ChanCap /\ queue \in Seq(Nat)
    BY <1>0 DEF TypeInv, Numbers
  <2>2. PICK m, ns : m = Len(log') /\ ns = queue
    OBVIOUS
  <2>3. Numbers(ns)' /\ Numbers(Append(ns, m))'
    <3>1. Numbers(ns)
      BY <1>0, <2>2 DEF TypeInv
    <3>2. QED
      BY <1>2, <2>2, <3>1, NumbersStay, NumbersAppend
  <2>5. queue' = ns \/ queue' = Append(ns, m)
    BY <1>3, <2>2
  <2>6. Numbers(queue)'
    BY <2>3, <2>5
  <2>4. QED
    BY <1>3, <2>1, <2>6, Sizes
<1>7. \A n \in 1..Len(log) : log'[n] = log[n]
  BY <1>2 DEF LogStays
<1>8. /\ \A i \in DOMAIN queue : i \in DOMAIN queue' /\ queue'[i] = queue[i]
      /\ registered' /\ registered => Len(log') \in ToSet(queue')
      /\ \A i \in DOMAIN queue' : (registered /\ queue'[i] = Len(log')) \/ (i \in DOMAIN queue /\ queue'[i] = queue[i])
      /\ ToSet(queue) \subseteq ToSet(queue')
  <2>1. queue \in Seq(Nat)
    BY <1>0 DEF TypeInv, Numbers
  <2>2. CASE queue' = queue /\ ~(registered' /\ registered)
    BY <2>1, <2>2
  <2>3. CASE queue' = Append(queue, Len(log')) /\ registered
    <3>1. /\ DOMAIN queue' = 1..(Len(queue) + 1) /\ DOMAIN queue = 1..Len(queue) /\ Len(queue) \in Nat
          /\ (\A i \in 1..Len(queue) : queue'[i] = queue[i]) /\ queue'[Len(queue) + 1] = Len(log')
      BY <1>2, <2>1, <2>3
    <3>2. QED
      BY <2>3, <3>1 DEF ToSet
  <2>4. QED
    BY <1>3, <2>2, <2>3
<1>9. TypeInv'
  <2>1. Safe' \subseteq 1..Len(log')
    <3>1. Safe \subseteq 1..Len(log)
      BY <1>0 DEF TypeInv
    <3>2. QED
      BY <1>1, <1>2, <3>1 DEF Safe
  <2>2. pc \in {"idle", "polled"} => queue' = queue
    BY <1>0, <1>3 DEF TypeInv
  <2>3. (registered' => pc' = "live" /\ ~closed') /\ (closed' => pc' = "live") /\ registered' \in BOOLEAN /\ closed' \in BOOLEAN
    <3>1. /\ registered \in BOOLEAN /\ closed \in BOOLEAN /\ (registered => pc = "live" /\ ~closed)
          /\ closed => pc = "live"
      BY <1>0 DEF TypeInv
    <3>2. CASE registered' = registered /\ closed' = closed
      BY <1>1, <3>1, <3>2
    <3>3. CASE registered /\ registered' = FALSE /\ closed' = TRUE
      BY <1>1, <3>1, <3>3
    <3>4. QED
      BY <1>3, <3>2, <3>3
  <2>4. view' \in Seq(Upto(Len(log'))) /\ hist' \in Seq(Upto(Len(log'))) /\ agg' \in Aggs(Len(log'))
    BY <1>0, <1>1, <1>4 DEF TypeInv
  <2>5. last' \in 0..Len(log') /\ since' \in 0..Len(log') /\ Len(log') <= MaxFrames
    BY <1>0, <1>1, <1>2, Sizes DEF TypeInv
  <2>6. pc' \in {"idle", "polled"} => view' = <<>> /\ hist' = <<>> /\ agg' = NoAgg /\ queue' = <<>> /\ snap' = <<>>
    BY <1>0, <1>1, <2>2 DEF TypeInv
  <2>7. NoAgg' = NoAgg
    BY DEF NoAgg, None
  <2>8. QED
    BY <1>0, <1>1, <1>2, <1>5, <1>6, <2>1, <2>3, <2>4, <2>5, <2>6, <2>7 DEF TypeInv
<1>10. HistoryInv'
  <2> SUFFICES ASSUME pc = "history" PROVE HistoryInv'
    BY <1>1 DEF HistoryInv
  <2>1. queue' = queue /\ Pending' = Pending /\ Top' = Top
    BY <1>0, <1>1, <1>3 DEF TypeInv, Pending, Top, EndsAt
  <2>2. Tidy(Pending)'
    <3>1. Tidy(Pending) /\ Pending \in Seq(Upto(Len(log)))
      BY <1>0 DEF HistoryInv, TypeInv, Pending
    <3>2. QED
      BY <1>2, <2>1, <3>1, TidyStays
  <2>10. PICK w : /\ WarmBy(w, snap) /\ Seen(Pending, w[Len(snap)].open, ~StopIn(snap))
                  /\ \E q \in 0..Len(log) : w[Len(snap)] \in Aggs(q) /\ Reach(Pending, q)
    BY <1>0 DEF HistoryInv
  <2>3. PICK q \in 0..Len(log) :
          /\ WarmBy(w, snap) /\ Seen(Pending, w[Len(snap)].open, ~StopIn(snap))
          /\ w[Len(snap)] \in Aggs(q) /\ Reach(Pending, q)
    BY <2>10
  <2>4. WarmBy(w, snap)'
    BY <1>5, <2>3
  <2>5. Seen(Pending, w[Len(snap)].open, ~StopIn(snap))'
    <3>1. w[Len(snap)].open \in Opens(Len(log))
      <4>1. w[Len(snap)] \in Aggs(Len(log))
        BY <1>2, <2>3, AggsGrow
      <4>2. QED
        BY <4>1 DEF Aggs
    <3>2. Seen(Pending, w[Len(snap)].open, ~StopIn(snap))'
      BY <1>1, <1>2, <1>5, <2>1, <2>3, <3>1, SeenStays
    <3>3. QED
      BY <3>2
  <2>6. q \in 0..Len(log)' /\ (w[Len(snap)] \in Aggs(q))' /\ Reach(Pending, q)'
    BY <1>1, <1>2, <2>1, <2>3 DEF Reach
  <2>7. NoAgg' = NoAgg
    BY DEF NoAgg, None
  <2>8. (/\ agg = NoAgg /\ queue = <<>>
         /\ Pending \in Seq(Upto(Top))
         /\ \A i \in DOMAIN Pending : since < Pending[i].seq
         /\ last = IF view = <<>> THEN since ELSE Last(view).seq)'
    BY <1>0, <1>1, <2>1, <2>7 DEF HistoryInv
  <2>9. QED
    BY <2>2, <2>4, <2>5, <2>6, <2>8 DEF HistoryInv
<1>11. LiveInv'
  <2> SUFFICES ASSUME pc = "live" PROVE LiveInv'
    BY <1>1 DEF LiveInv
  <2>1. Tidy(view)' /\ Seen(view, agg.open, ~StopIn(snap))'
    <3>1. Tidy(view) /\ view \in Seq(Upto(Len(log))) /\ agg.open \in Opens(Len(log)) /\ Seen(view, agg.open, ~StopIn(snap))
      BY <1>0 DEF LiveInv, TypeInv, Aggs
    <3>2. QED
      BY <1>1, <1>2, <1>5, <3>1, TidyStays, SeenStays
  <2>2. PICK p \in 0..Len(log) : /\ agg \in Aggs(p) /\ view \in Seq(Upto(p)) /\ last <= p /\ since <= p
                                 /\ \A i \in DOMAIN queue : p < queue[i]
    BY <1>0 DEF LiveInv
  <2>3. \A i \in DOMAIN queue' : p < queue'[i]
    BY <1>2, <1>8, <2>2
  <2>4. p \in 0..Len(log)' /\ (agg \in Aggs(p))' /\ (view \in Seq(Upto(p)))' /\ (last <= p)' /\ (since <= p)'
    BY <1>1, <1>2, <2>2
  <2>5. hist' = <<>>
    BY <1>0, <1>1 DEF LiveInv
  <2>6. QED
    BY <2>1, <2>3, <2>4, <2>5 DEF LiveInv
<1>12. MissInv'
  <2> SUFFICES ASSUME NEW n \in 1..Len(log'), IsText(n)', Due(n)'
               PROVE  n \in Safe' \cup TextOf(hist') \cup ToSet(queue')
    BY DEF MissInv, TextOf
  <2>1. CASE n \in 1..Len(log)
    <3>1. IsText(n)
      BY <1>7, <2>1 DEF IsText
    <3>2. Due(n)
      BY <1>1, <1>3, <1>8, <2>1 DEF Due, Top, EndsAt
    <3>3. n \in Safe \cup TextOf(hist) \cup ToSet(queue)
      BY <1>0, <2>1, <3>1, <3>2 DEF MissInv
    <3>4. Safe \subseteq Safe' /\ TextOf(hist') = TextOf(hist)
      BY <1>1 DEF Safe, TextOf
    <3>5. QED
      BY <1>8, <3>3, <3>4
  <2>2. CASE n = Len(log')
    <3>1. ~(n <= last') /\ ~(pc' = "history" /\ n <= Top')
      <4>1. pc = "history" => Top \in 0..Len(log)
        BY <1>0, EndsKind DEF TypeInv, Top
      <4>2. QED
        BY <1>0, <1>1, <1>2, <2>2, <4>1 DEF TypeInv, Top, EndsAt
    <3>2. CASE pc' = "polled"
      BY <1>1, <2>2, <3>2 DEF Safe
    <3>3. CASE registered'
      BY <1>3, <1>8, <2>2, <3>3
    <3>4. CASE \E i \in DOMAIN queue' : n <= queue'[i]
      <4>1. PICK i \in DOMAIN queue' : n <= queue'[i]
        BY <3>4
      <4>2. queue'[i] \in 1..Len(log')
        BY <1>6 DEF Numbers
      <4>3. queue'[i] = n
        BY <1>2, <2>2, <4>1, <4>2
      <4>4. QED
        BY <4>3 DEF ToSet
    <3>5. QED
      BY <3>1, <3>2, <3>3, <3>4 DEF Due
  <2>3. QED
    BY <1>2, <2>1, <2>2
<1>13. CompleteInv'
  <2>1. TextOf(view') \subseteq rendered'
    BY <1>0, <1>1 DEF CompleteInv
  <2>2. ASSUME NEW n \in (since' + 1)..Len(log'), IsText(n)', ToShow(n)'
        PROVE  \/ n \in gone' \cup overrun' \cup TextOf(Pending') \cup ToSet(queue')
               \/ n \in rendered' /\ StopIn(snap)'
    <3>0. since \in 0..Len(log)
      BY <1>0 DEF TypeInv
    <3>1. CASE n \in 1..Len(log)
      <4>1. IsText(n) /\ n \in (since + 1)..Len(log)
        BY <1>1, <1>2, <1>7, <2>2, <3>0, <3>1 DEF IsText
      <4>2. ToShow(n)
        BY <1>1, <1>3, <2>2 DEF ToShow, Top, EndsAt
      <4>3. \/ n \in gone \cup overrun \cup TextOf(Pending) \cup ToSet(queue)
            \/ n \in rendered /\ StopIn(snap)
        BY <1>0, <4>1, <4>2 DEF CompleteInv
      <4>4. Pending' = Pending
        BY <1>1 DEF Pending
      <4>5. QED
        BY <1>1, <1>5, <1>8, <4>3, <4>4
    <3>2. CASE n = Len(log')
      <4>1. ~(pc' = "history" /\ n <= Top')
        <5>1. pc = "history" => Top \in 0..Len(log)
          BY <1>0, EndsKind DEF TypeInv, Top
        <5>2. QED
          BY <1>0, <1>1, <1>2, <3>2, <5>1 DEF TypeInv, Top, EndsAt
      <4>2. registered'
        BY <2>2, <4>1 DEF ToShow
      <4>3. QED
        BY <1>3, <1>8, <3>2, <4>2
    <3>3. QED
      BY <1>1, <1>2, <2>2, <3>0, <3>1, <3>2
  <2>3. QED
    BY <2>1, <2>2 DEF CompleteInv, TextOf
<1>14. QED
  BY <1>9, <1>10, <1>11, <1>12, <1>13 DEF ChatInv

----------------------------------------------------------------------------
(* A client without a stream *)

\* What is left of the invariant when the client has no stream.
Quiet ==
  /\ log' = log /\ pc' \in {"idle", "polled"} /\ view' = <<>> /\ hist' = <<>> /\ agg' = NoAgg
  /\ queue' = <<>> /\ snap' = <<>> /\ registered' = FALSE /\ closed' = FALSE
  /\ last' \in 0..Len(log) /\ since' \in 0..Len(log) /\ Safe' \subseteq 1..Len(log)

\* Without a stream the invariant is about the texts up to the client's number.
LEMMA QuietInv ==
  ASSUME TypeInv, Quiet,
         \A n \in 1..Len(log) : IsText(n) /\ (n <= last' \/ pc' = "polled") => n \in Safe'
  PROVE  ChatInv'
<1>0. NoAgg' = NoAgg /\ Len(log) \in Nat
  BY DEF NoAgg, None, TypeInv
<1>1. TypeInv'
  <2>1. <<>> \in Seq(Upto(Len(log))) /\ Len(<<>>) = 0 /\ 0 <= ChanCap
    BY Sizes
  <2>2. Numbers(snap)' /\ Numbers(queue)'
    BY DEF Quiet, Numbers
  <2>3. agg' \in Aggs(Len(log))
    BY <1>0, NoAggKind DEF Quiet
  <2>4. QED
    BY <1>0, <2>1, <2>2, <2>3 DEF Quiet, TypeInv
<1>2. HistoryInv' /\ LiveInv'
  BY DEF Quiet, HistoryInv, LiveInv
<1>3. MissInv'
  <2> SUFFICES ASSUME NEW n \in 1..Len(log)', IsText(n)', Due(n)'
               PROVE  n \in Safe'
    BY DEF MissInv
  <2>1. IsText(n) /\ n \in 1..Len(log)
    BY DEF Quiet, IsText
  <2>2. n <= last' \/ pc' = "polled"
    BY DEF Quiet, Due
  <2>3. QED
    BY <2>1, <2>2
<1>4. CompleteInv'
  <2>1. TextOf(view)' = {}
    BY DEF Quiet, TextOf
  <2>2. \A n : ~ToShow(n)'
    BY DEF Quiet, ToShow
  <2>3. QED
    BY <2>1, <2>2 DEF CompleteInv
<1>5. QED
  BY <1>1, <1>2, <1>3, <1>4 DEF ChatInv

\* Without a stream nothing is left to be written or read.
LEMMA Still ==
  ASSUME ChatInv, pc \in {"idle", "polled"}
  PROVE  /\ view = <<>> /\ hist = <<>> /\ agg = NoAgg /\ queue = <<>> /\ snap = <<>>
         /\ registered = FALSE /\ closed = FALSE /\ TypeInv /\ Len(log) \in Nat
         /\ last \in 0..Len(log) /\ since \in 0..Len(log) /\ Safe \subseteq 1..Len(log)
         /\ \A n \in 1..Len(log) : IsText(n) /\ Due(n) => n \in Safe
<1>1. TypeInv /\ MissInv
  BY DEF ChatInv
<1>2. view = <<>> /\ hist = <<>> /\ agg = NoAgg /\ queue = <<>> /\ snap = <<>>
  BY <1>1 DEF TypeInv
<1>3. /\ Len(log) \in Nat
      /\ last \in 0..Len(log) /\ since \in 0..Len(log) /\ Safe \subseteq 1..Len(log)
  BY <1>1 DEF TypeInv
<1>4. registered = FALSE /\ closed = FALSE
  <2>1. /\ registered \in BOOLEAN /\ (registered => pc = "live")
        /\ closed \in BOOLEAN /\ (closed => pc = "live")
    BY <1>1 DEF TypeInv
  <2>2. QED
    BY <2>1
<1>5. TextOf(hist) = {} /\ ToSet(queue) = {}
  BY <1>2 DEF TextOf, ToSet
<1>6. \A n \in 1..Len(log) : IsText(n) /\ Due(n) => n \in Safe
  BY <1>1, <1>5 DEF MissInv
<1>7. QED
  BY <1>1, <1>2, <1>3, <1>4, <1>6

\* What came after a poll's snapshot was recorded as lost.
LEMMA PollEndsStep ==
  ASSUME ChatInv, PollEnds
  PROVE  ChatInv'
<1>1. pc = "polled"
  BY DEF PollEnds
<1>2. /\ view = <<>> /\ hist = <<>> /\ agg = NoAgg /\ queue = <<>> /\ snap = <<>>
      /\ registered = FALSE /\ closed = FALSE /\ TypeInv /\ Len(log) \in Nat
      /\ last \in 0..Len(log) /\ since \in 0..Len(log) /\ Safe \subseteq 1..Len(log)
      /\ \A n \in 1..Len(log) : IsText(n) /\ Due(n) => n \in Safe
  BY <1>1, Still
<1>3. Safe' = Safe
  BY DEF PollEnds, lostVars, Safe
<1>4. Quiet
  BY <1>2, <1>3 DEF PollEnds, subVars, Quiet
<1>5. \A n \in 1..Len(log) : IsText(n) => n \in Safe'
  BY <1>1, <1>2, <1>3 DEF Due
<1>6. QED
  BY <1>2, <1>4, <1>5, QuietInv

\* The texts after s that the ring has are in the messages above s.
LEMMA Answered ==
  ASSUME log \in Seq(Frames), NEW s \in 0..Len(log)
  PROVE  /\ aggregateChat(Snapshot) \in Seq(Upto(EndsAt(Snapshot, Len(Snapshot)))) /\ Numbers(Snapshot)
         /\ filterSince(aggregateChat(Snapshot), s) \in Seq(Upto(EndsAt(Snapshot, Len(Snapshot))))
         /\ TextOf(filterSince(aggregateChat(Snapshot), s)) \subseteq 1..Len(log)
         /\ (s + 1)..Forgotten \subseteq 1..Len(log)
         /\ \A n \in (s + 1)..Len(log) : IsText(n) =>
              n \in (s + 1)..Forgotten \/ n \in TextOf(filterSince(aggregateChat(Snapshot), s))
<1> DEFINE top == EndsAt(Snapshot, Len(Snapshot))
           out == aggregateChat(Snapshot)
           ms == filterSince(out, s)
<1>1. Len(log) \in Nat /\ 0 \in 0..Len(log) /\ s \in Nat
  OBVIOUS
<1>2. /\ Numbers(Snapshot) /\ (\A x \in (0 + 1)..Len(log) : x \in (0 + 1)..Forgotten \/ x \in ToSet(Snapshot))
      /\ Forgotten \in 0..Len(log)
  BY <1>1, NewerKind DEF Snapshot
<1>3. /\ out \in Seq(Upto(top)) /\ \A i \in 1..Len(Snapshot) : Told(out, Snapshot[i])
  BY <1>2, ChatOfKind
<1>4. top \in 0..Len(log) /\ DOMAIN Snapshot = 1..Len(Snapshot)
  BY <1>2, EndsKind
<1> HIDE DEF top, out
<1>5. ms \in Seq(Upto(top)) /\ KeptOf(out, s, Len(out), ms)
  BY <1>1, <1>3, FilterKind
<1> HIDE DEF ms
<1>6. TextOf(ms) \subseteq 1..Len(log)
  <2>1. ASSUME NEW i \in DOMAIN ms
        PROVE  ToSet(ms[i].text) \subseteq 1..Len(log)
    <3>1. ms[i] \in Upto(top) /\ top \in Nat
      BY <1>4, <1>5
    <3>2. ToSet(ms[i].text) \subseteq 1..top
      BY <3>1, MessageKind
    <3>3. QED
      BY <1>4, <3>2
  <2>2. QED
    BY <2>1 DEF TextOf
<1>7. (s + 1)..Forgotten \subseteq 1..Len(log)
  BY <1>1, <1>2
<1>8. ASSUME NEW n \in (s + 1)..Len(log), IsText(n)
      PROVE  n \in (s + 1)..Forgotten \/ n \in TextOf(ms)
  <2>1. n \in Nat /\ n > s /\ n \in (0 + 1)..Len(log)
    BY <1>1
  <2>2. CASE n \in (0 + 1)..Forgotten
    BY <1>1, <1>2, <2>1, <2>2
  <2>3. CASE n \in ToSet(Snapshot)
    <3>1. n \in TextOf(out)
      BY <1>3, <1>4, <1>8, <2>3 DEF ToSet, Told
    <3>2. PICK j \in DOMAIN out : n \in ToSet(out[j].text)
      BY <3>1 DEF TextOf
    <3>3. out[j] \in Upto(top) /\ top \in Nat /\ j \in 1..Len(out)
      BY <1>3, <1>4
    <3>4. n <= out[j].seq /\ out[j].seq \in Nat
      <4>1. (\A x \in ToSet(out[j].text) : x <= out[j].seq) /\ out[j].seq \in 1..top
        BY <3>3, MessageKind
      <4>2. QED
        BY <3>2, <3>3, <4>1
    <3>5. out[j].seq > s
      BY <1>1, <2>1, <3>4
    <3>6. \E i \in DOMAIN ms : ms[i] = out[j]
      BY <1>5, <3>3, <3>5 DEF KeptOf
    <3>7. QED
      BY <3>2, <3>6 DEF TextOf
  <2>4. QED
    BY <1>2, <2>1, <2>2, <2>3
<1>9. QED
  BY <1>2, <1>3, <1>5, <1>6, <1>7, <1>8 DEF ms, out, top

\* A poll shows all texts after the client's number that the ring has.
LEMMA PollStep ==
  ASSUME ChatInv, Poll
  PROVE  ChatInv'
<1>1. pc = "idle"
  BY DEF Poll
<1>2. /\ view = <<>> /\ hist = <<>> /\ agg = NoAgg /\ queue = <<>> /\ snap = <<>>
      /\ registered = FALSE /\ closed = FALSE /\ TypeInv /\ Len(log) \in Nat
      /\ last \in 0..Len(log) /\ since \in 0..Len(log) /\ Safe \subseteq 1..Len(log)
      /\ \A n \in 1..Len(log) : IsText(n) /\ Due(n) => n \in Safe
  BY <1>1, Still
<1> DEFINE ms == filterSince(aggregateChat(Snapshot), last)
<1>3. /\ TextOf(ms) \subseteq 1..Len(log) /\ (last + 1)..Forgotten \subseteq 1..Len(log)
      /\ \A n \in (last + 1)..Len(log) : IsText(n) => n \in (last + 1)..Forgotten \/ n \in TextOf(ms)
  <2>1. log \in Seq(Frames)
    BY <1>2 DEF TypeInv
  <2>2. QED
    BY <1>2, <2>1, Answered
<1>4. /\ pc' = "polled" /\ since' = last /\ rendered' = rendered \cup TextOf(ms)
      /\ gone' = gone \cup (last + 1)..Forgotten
      /\ UNCHANGED <<log, last, snap, hist, agg, registered, queue, closed, view, overrun, between, unwritten>>
  BY DEF Poll, subVars
<1> HIDE DEF ms
<1>5. Safe' = Safe \cup TextOf(ms) \cup (last + 1)..Forgotten
  BY <1>4 DEF Safe
<1>6. Quiet
  BY <1>2, <1>3, <1>4, <1>5 DEF Quiet
<1>7. ASSUME NEW n \in 1..Len(log), IsText(n)
      PROVE  n \in Safe'
  <2>1. CASE n <= last
    BY <1>2, <1>5, <1>7, <2>1 DEF Due
  <2>2. CASE ~(n <= last)
    <3>1. n \in (last + 1)..Len(log)
      BY <1>2, <2>2
    <3>2. QED
      BY <1>3, <1>5, <1>7, <3>1
  <2>3. QED
    BY <2>1, <2>2
<1>8. QED
  BY <1>2, <1>6, <1>7, QuietInv

\* A stream ends, its client left with the last number it was given.
LEMMA LeaveStep ==
  ASSUME ChatInv, Leave, pc \in {"history", "live"}, UNCHANGED <<log, last, since>>,
         Safe' = Safe \cup TextOf(hist)
  PROVE  ChatInv'
<1>1. TypeInv /\ MissedOnlyThere
  BY InvMissed DEF ChatInv
<1>2. /\ last \in 0..Len(log) /\ since \in 0..Len(log) /\ Safe \subseteq 1..Len(log) /\ Len(log) \in Nat
      /\ hist \in Seq(Upto(Len(log)))
  BY <1>1 DEF TypeInv
<1>3. TextOf(hist) \subseteq 1..Len(log)
  <2>1. ASSUME NEW i \in DOMAIN hist
        PROVE  ToSet(hist[i].text) \subseteq 1..Len(log)
    <3>1. hist[i] \in Upto(Len(log))
      BY <1>2
    <3>2. QED
      BY <1>2, <3>1, MessageKind
  <2>2. QED
    BY <2>1 DEF TextOf
<1>4. Quiet
  <2>1. Safe' \subseteq 1..Len(log)
    BY <1>2, <1>3
  <2>2. QED
    BY <1>2, <2>1 DEF Leave, Quiet
<1>5. ASSUME NEW n \in 1..Len(log), IsText(n), n <= last' \/ pc' = "polled"
      PROVE  n \in Safe'
  <2>1. n \in 1..last
    BY <1>2, <1>5 DEF Leave
  <2>2. n \in rendered \cup TextOf(hist) \cup gone \cup overrun \cup between \cup unwritten
    BY <1>1, <1>5, <2>1 DEF MissedOnlyThere
  <2>3. QED
    BY <2>2 DEF Safe
<1>6. QED
  BY <1>1, <1>4, <1>5, QuietInv

\* The end of a stream that was dropped, its channel read.
LEMMA SeesClosedStep ==
  ASSUME ChatInv, SeesClosed
  PROVE  ChatInv'
<1>1. pc = "live" /\ Leave /\ UNCHANGED <<log, last, since>> /\ Safe' = Safe
  BY DEF SeesClosed, lostVars, Safe
<1>2. TextOf(hist) = {}
  BY <1>1 DEF ChatInv, LiveInv, TextOf
<1>3. Safe' = Safe \cup TextOf(hist)
  BY <1>1, <1>2
<1>4. QED
  BY <1>1, <1>3, LeaveStep

\* A cut records what was not written.
LEMMA CutStep ==
  ASSUME ChatInv, Cut
  PROVE  ChatInv'
<1>1. /\ pc \in {"history", "live"} /\ Leave /\ unwritten' = unwritten \cup TextOf(hist)
      /\ UNCHANGED <<log, last, since, rendered, gone, overrun, between>>
  BY DEF Cut
<1>2. Safe' = Safe \cup TextOf(hist)
  BY <1>1 DEF Safe
<1>3. QED
  BY <1>1, <1>2, LeaveStep

----------------------------------------------------------------------------
(* A client with a stream *)

\* What a stream begins with: messages above s, in agreement with the
\* aggregator that the snapshot warms up.
BeginsWith(ms, s) ==
  /\ Tidy(ms) /\ \A i \in DOMAIN ms : s < ms[i].seq
  /\ \E w : /\ WarmBy(w, Snapshot) /\ Seen(ms, w[Len(Snapshot)].open, ~StopIn(Snapshot))
            /\ \E q \in 0..Len(log) :
                 /\ w[Len(Snapshot)] \in Aggs(q)
                 /\ ms = <<>> => q = s
                 /\ ms # <<>> => \E i \in DOMAIN ms : q = ms[i].seq

\* The messages of a snapshot begin a stream.
LEMMA Begun ==
  ASSUME log \in Seq(Frames), NEW s \in 0..Len(log)
  PROVE  BeginsWith(filterSince(aggregateChat(Snapshot), s), s)
<1> DEFINE top == EndsAt(Snapshot, Len(Snapshot))
           out == aggregateChat(Snapshot)
           ms == filterSince(out, s)
<1>1. Len(log) \in Nat /\ s \in Nat
  OBVIOUS
<1>2. Numbers(Snapshot) /\ out \in Seq(Upto(top))
  BY Answered
<1>3. top \in 0..Len(log) /\ DOMAIN Snapshot = 1..Len(Snapshot) /\ \A k \in 1..Len(Snapshot) : Snapshot[k] \in Nat
  BY <1>2, EndsKind DEF Numbers
<1>4. \A i \in 1..Len(Snapshot) : Told(out, Snapshot[i])
  BY <1>2, ChatOfKind
<1> HIDE DEF top, out
<1>5. ms \in Seq(Upto(top)) /\ KeptOf(out, s, Len(out), ms)
  BY <1>1, <1>2, FilterKind
<1> HIDE DEF ms
<1>6. /\ \A i \in DOMAIN out : out[i].seq \in Nat /\ i \in 1..Len(out)
      /\ \A i \in DOMAIN ms : ms[i].seq \in 0..Len(log)
  <2>1. \A m \in Upto(top) : m.seq \in 1..top
    BY <1>3, MessageKind
  <2>2. ASSUME NEW i \in DOMAIN out
        PROVE  out[i].seq \in Nat /\ i \in 1..Len(out)
    <3>1. out[i] \in Upto(top) /\ i \in 1..Len(out)
      BY <1>2
    <3>2. QED
      BY <2>1, <3>1
  <2>3. ASSUME NEW i \in DOMAIN ms
        PROVE  ms[i].seq \in 0..Len(log)
    <3>1. ms[i] \in Upto(top)
      BY <1>5
    <3>2. ms[i].seq \in 1..top
      BY <2>1, <3>1
    <3>3. QED
      BY <1>1, <1>3, <3>2
  <2>4. QED
    BY <2>2, <2>3
<1>7. \A i \in DOMAIN ms : s < ms[i].seq
  BY <1>1, <1>5, <1>6 DEF KeptOf
<1>8. \A j \in DOMAIN out : out[j].seq > s => \E i \in DOMAIN ms : ms[i] = out[j]
  BY <1>5, <1>6 DEF KeptOf
<1>9. \E q \in 0..Len(log) :
        /\ \A k \in 1..Len(Snapshot) : Speaks(Snapshot[k]) => Snapshot[k] <= q
        /\ ms = <<>> => q = s
        /\ ms # <<>> => \E i \in DOMAIN ms : q = ms[i].seq
  <2>1. ASSUME NEW q \in 0..Len(log), s <= q, \A i \in DOMAIN ms : ms[i].seq <= q,
               NEW k \in 1..Len(Snapshot), Speaks(Snapshot[k])
        PROVE  Snapshot[k] <= q
    <3>1. PICK j \in DOMAIN out : Snapshot[k] <= out[j].seq
      BY <1>4, <2>1 DEF Told
    <3>0. q \in Nat /\ out[j].seq \in Nat /\ Snapshot[k] \in Nat
      BY <1>1, <1>3, <1>6
    <3>2. out[j].seq <= q
      <4>1. CASE out[j].seq > s
        BY <1>8, <2>1, <4>1
      <4>2. CASE ~(out[j].seq > s)
        BY <1>1, <2>1, <3>0, <4>2
      <4>3. QED
        BY <4>1, <4>2
    <3>3. QED
      BY <3>0, <3>1, <3>2
  <2>2. CASE ms = <<>>
    <3>1. \A k \in 1..Len(Snapshot) : Speaks(Snapshot[k]) => Snapshot[k] <= s
      BY <1>1, <2>1, <2>2
    <3>2. QED
      BY <2>2, <3>1
  <2>3. CASE ms # <<>>
    <3> DEFINE S == {ms[i].seq : i \in DOMAIN ms}
    <3>1. S \subseteq Nat /\ \A x \in S : x <= Len(log)
      BY <1>1, <1>6
    <3>2. S # {}
      <4>1. 1 \in DOMAIN ms
        BY <1>5, <2>3
      <4>2. QED
        BY <4>1
    <3> HIDE DEF S
    <3>3. Max(S) \in S /\ \A x \in S : x <= Max(S)
      BY <1>1, <3>1, <3>2, GreatestNumber
    <3>4. PICK i \in DOMAIN ms : Max(S) = ms[i].seq
      BY <3>3 DEF S
    <3>5. \A j \in DOMAIN ms : ms[j].seq <= Max(S)
      BY <3>3 DEF S
    <3>6. Max(S) \in 0..Len(log) /\ s <= Max(S)
      BY <1>1, <1>6, <1>7, <3>4
    <3>7. \A k \in 1..Len(Snapshot) : Speaks(Snapshot[k]) => Snapshot[k] <= Max(S)
      BY <2>1, <3>5, <3>6
    <3>8. QED
      BY <2>3, <3>4, <3>6, <3>7
  <2>4. QED
    BY <2>2, <2>3
<1>10. PICK q \in 0..Len(log) :
         /\ \A k \in 1..Len(Snapshot) : Speaks(Snapshot[k]) => Snapshot[k] <= q
         /\ ms = <<>> => q = s
         /\ ms # <<>> => \E i \in DOMAIN ms : q = ms[i].seq
  BY <1>9
<1>11. /\ Tidy(out)
       /\ \E w : /\ WarmBy(w, Snapshot) /\ w[Len(Snapshot)] \in Aggs(q)
                 /\ Agree(out, w[Len(Snapshot)].open, ~StopIn(Snapshot))
  <2>1. PICK ns : ns = Snapshot
    OBVIOUS
  <2>2. /\ log \in Seq(Frames) /\ Numbers(ns) /\ q \in Nat
        /\ \A k \in 1..Len(ns) : Speaks(ns[k]) => ns[k] <= q
    BY <1>1, <1>2, <1>10, <2>1
  <2>3. /\ Tidy(aggregateChat(ns))
        /\ \E w : /\ WarmBy(w, ns) /\ w[Len(ns)] \in Aggs(q)
                  /\ Agree(aggregateChat(ns), w[Len(ns)].open, ~StopIn(ns))
    BY <2>2, WarmAgrees
  <2>4. QED
    BY <2>1, <2>3 DEF out
<1>12. PICK w : /\ WarmBy(w, Snapshot) /\ w[Len(Snapshot)] \in Aggs(q)
                /\ Agree(out, w[Len(Snapshot)].open, ~StopIn(Snapshot))
  BY <1>11
<1>13. Tidy(ms) /\ Seen(ms, w[Len(Snapshot)].open, ~StopIn(Snapshot))
  <2>1. top \in Nat
    BY <1>3
  <2>2. QED
    BY <1>1, <1>2, <1>5, <1>11, <1>12, <2>1, SeenFiltered
<1>14. QED
  BY <1>7, <1>10, <1>12, <1>13 DEF BeginsWith, ms, out

\* A list of messages of fewer frames is one of more.
LEMMA UptoSeq ==
  ASSUME NEW top \in Nat, NEW more \in Nat, top <= more, NEW ms \in Seq(Upto(top))
  PROVE  ms \in Seq(Upto(more))
BY UptoGrows

\* A stream begins with the snapshot's messages and all they tell.
LEMMA ConnectStep ==
  ASSUME ChatInv, Connect
  PROVE  ChatInv'
<1>1. pc = "idle"
  BY DEF Connect
<1>2. /\ view = <<>> /\ hist = <<>> /\ agg = NoAgg /\ queue = <<>> /\ snap = <<>>
      /\ registered = FALSE /\ closed = FALSE /\ TypeInv /\ Len(log) \in Nat
      /\ last \in 0..Len(log) /\ since \in 0..Len(log) /\ Safe \subseteq 1..Len(log)
      /\ \A n \in 1..Len(log) : IsText(n) /\ Due(n) => n \in Safe
  BY <1>1, Still
<1>3. log \in Seq(Frames) /\ Len(log) <= MaxFrames
  BY <1>2 DEF TypeInv
<1>4. PICK ms, ns : ms = filterSince(aggregateChat(Snapshot), last) /\ ns = Snapshot
  OBVIOUS
<1>5. /\ pc' = "history" /\ since' = last /\ snap' = ns /\ hist' = ms /\ view' = <<>>
      /\ gone' = gone \cup (last + 1)..Forgotten
      /\ UNCHANGED <<log, last, agg, registered, queue, closed, rendered, overrun, between, unwritten>>
  BY <1>4 DEF Connect, subVars
<1>6. /\ Numbers(ns) /\ ms \in Seq(Upto(EndsAt(ns, Len(ns))))
      /\ TextOf(ms) \subseteq 1..Len(log) /\ (last + 1)..Forgotten \subseteq 1..Len(log)
      /\ \A n \in (last + 1)..Len(log) : IsText(n) => n \in (last + 1)..Forgotten \/ n \in TextOf(ms)
  BY <1>2, <1>3, <1>4, Answered
<1>7. EndsAt(ns, Len(ns)) \in 0..Len(log)
  BY <1>3, <1>6, EndsKind
<1>8. ms \in Seq(Upto(Len(log)))
  BY <1>2, <1>6, <1>7, UptoSeq
<1>9. BeginsWith(ms, last)
  BY <1>2, <1>3, <1>4, Begun
<1>10. LogStays
  BY <1>2, <1>5, LogSame
<1>11. /\ Numbers(ns)' /\ (StopIn(ns)' <=> StopIn(ns)) /\ \A w : WarmBy(w, ns) => WarmBy(w, ns)'
  BY <1>6, <1>10, NumbersStay
<1>12. (snap = ns)' /\ (Pending = ms)' /\ (Top = EndsAt(ns, Len(ns)))'
  BY <1>5, <1>8 DEF Pending, Top
<1>13. NoAgg' = NoAgg
  BY DEF NoAgg, None
<1>14. TypeInv'
  <2>1. Safe' \subseteq 1..Len(log)
    BY <1>2, <1>5, <1>6 DEF Safe
  <2>2. agg' \in Aggs(Len(log)) /\ view' \in Seq(Upto(Len(log))) /\ Len(queue) = 0 /\ 0 <= ChanCap
    BY <1>2, <1>5, NoAggKind, Sizes
  <2>3. Numbers(queue)'
    BY <1>2, <1>5 DEF Numbers
  <2>4. Numbers(snap)'
    BY <1>11, <1>12
  <2>5. QED
    BY <1>2, <1>3, <1>5, <1>8, <2>1, <2>2, <2>3, <2>4 DEF TypeInv
<1>15. HistoryInv'
  <2>1. Tidy(ms) /\ \A i \in DOMAIN ms : last < ms[i].seq
    BY <1>9 DEF BeginsWith
  <2>2. Tidy(Pending)'
    <3>1. Tidy(ms)'
      BY <1>8, <1>10, <2>1, TidyStays
    <3>2. QED
      BY <1>12, <3>1
  <2>3. \E w : /\ WarmBy(w, ns) /\ Seen(ms, w[Len(ns)].open, ~StopIn(ns))
               /\ \E q \in 0..Len(log) :
                    /\ w[Len(ns)] \in Aggs(q)
                    /\ ms = <<>> => q = last
                    /\ ms # <<>> => \E i \in DOMAIN ms : q = ms[i].seq
    BY <1>4, <1>9 DEF BeginsWith
  <2>4. PICK w : /\ WarmBy(w, ns) /\ Seen(ms, w[Len(ns)].open, ~StopIn(ns))
                 /\ \E q \in 0..Len(log) :
                      /\ w[Len(ns)] \in Aggs(q)
                      /\ ms = <<>> => q = last
                      /\ ms # <<>> => \E i \in DOMAIN ms : q = ms[i].seq
    BY <2>3
  <2>5. PICK q \in 0..Len(log) : /\ w[Len(ns)] \in Aggs(q)
                                 /\ ms = <<>> => q = last
                                 /\ ms # <<>> => \E i \in DOMAIN ms : q = ms[i].seq
    BY <2>4
  <2>6. WarmBy(w, snap)'
    BY <1>11, <1>12, <2>4
  <2>7. Seen(Pending, w[Len(snap)].open, ~StopIn(snap))'
    <3>1. w[Len(ns)].open \in Opens(Len(log))
      <4>1. w[Len(ns)] \in Aggs(Len(log))
        BY <1>2, <2>5, AggsGrow
      <4>2. QED
        BY <4>1 DEF Aggs
    <3>2. PICK o, u : o = w[Len(ns)].open /\ u = ~StopIn(ns)
      OBVIOUS
    <3>3. Seen(ms, o, u)'
      BY <1>10, <2>4, <3>1, <3>2, SeenStays
    <3>4. (~StopIn(snap))' = u
      BY <1>11, <1>12, <3>2
    <3>5. (w[Len(snap)].open = o)'
      BY <1>12, <3>2
    <3>6. QED
      BY <1>12, <3>3, <3>4, <3>5
  <2>8. q \in 0..Len(log)' /\ (w[Len(snap)] \in Aggs(q))' /\ Reach(Pending, q)'
    BY <1>5, <1>12, <2>5 DEF Reach
  <2>9. (/\ agg = NoAgg /\ queue = <<>>
         /\ Pending \in Seq(Upto(Top))
         /\ \A i \in DOMAIN Pending : since < Pending[i].seq
         /\ last = IF view = <<>> THEN since ELSE Last(view).seq)'
    BY <1>2, <1>5, <1>6, <1>12, <1>13, <2>1
  <2>10. QED
    BY <2>2, <2>6, <2>7, <2>8, <2>9 DEF HistoryInv
<1>16. LiveInv'
  BY <1>5 DEF LiveInv
<1>17. MissInv'
  <2> SUFFICES ASSUME NEW n \in 1..Len(log)', IsText(n)'
               PROVE  n \in Safe' \cup TextOf(hist)'
    BY DEF MissInv
  <2>1. n \in 1..Len(log) /\ IsText(n)
    BY <1>5 DEF IsText
  <2>2. CASE n <= last
    <3>1. n \in Safe
      BY <1>2, <2>1, <2>2 DEF Due
    <3>2. QED
      BY <1>5, <3>1 DEF Safe
  <2>3. CASE ~(n <= last)
    <3>1. n \in (last + 1)..Len(log)
      BY <1>2, <2>1, <2>3
    <3>2. n \in (last + 1)..Forgotten \/ n \in TextOf(ms)
      BY <1>6, <2>1, <3>1
    <3>3. QED
      BY <1>5, <3>2 DEF Safe, TextOf
  <2>4. QED
    BY <2>2, <2>3
<1>18. CompleteInv'
  <2>1. TextOf(view)' = {}
    BY <1>5 DEF TextOf
  <2>2. ASSUME NEW n \in (since' + 1)..Len(log'), IsText(n)'
        PROVE  n \in gone' \cup TextOf(Pending)'
    <3>1. n \in (last + 1)..Len(log) /\ IsText(n)
      BY <1>5, <2>2 DEF IsText
    <3>2. n \in (last + 1)..Forgotten \/ n \in TextOf(ms)
      BY <1>6, <3>1
    <3>3. QED
      BY <1>5, <1>12, <3>2 DEF TextOf
  <2>3. QED
    BY <2>1, <2>2 DEF CompleteInv
<1>19. QED
  BY <1>14, <1>15, <1>16, <1>17, <1>18 DEF ChatInv

\* The next message goes from one list to the end of the other.
LEMMA HeadMoves ==
  ASSUME NEW S, NEW v \in Seq(S), NEW h \in Seq(S), h # <<>>
  PROVE  /\ Append(v, Head(h)) \in Seq(S) /\ Tail(h) \in Seq(S) /\ Head(h) \in S
         /\ Append(v, Head(h)) \o Tail(h) = v \o h
         /\ Append(v, Head(h)) # <<>> /\ Last(Append(v, Head(h))) = Head(h)
         /\ \E i \in DOMAIN (v \o h) : (v \o h)[i] = Head(h)
<1> DEFINE x == Append(v, Head(h))
           y == Tail(h)
<1>1. /\ x \in Seq(S) /\ y \in Seq(S) /\ Head(h) \in S /\ Len(x) = Len(v) + 1 /\ Len(h) = Len(y) + 1
      /\ x # <<>> /\ x[Len(x)] = Head(h) /\ Len(v) \in Nat /\ Len(y) \in Nat /\ h[1] = Head(h)
      /\ \A i \in 1..Len(v) : x[i] = v[i]
      /\ \A i \in 1..Len(y) : y[i] = h[i + 1]
  OBVIOUS
<1>2. Last(x) = Head(h)
  BY <1>1 DEF Last
<1> HIDE DEF x, y
<1>3. /\ x \o y \in Seq(S) /\ v \o h \in Seq(S) /\ Len(x \o y) = Len(x) + Len(y) /\ Len(v \o h) = Len(v) + Len(h)
      /\ Len(x) \in Nat /\ Len(h) \in Nat
  <2>1. x \in Seq(S) /\ y \in Seq(S) /\ Len(x) \in Nat /\ Len(h) \in Nat
    BY <1>1
  <2>2. x \o y \in Seq(S) /\ Len(x \o y) = Len(x) + Len(y)
    BY <2>1
  <2>3. v \o h \in Seq(S) /\ Len(v \o h) = Len(v) + Len(h)
    OBVIOUS
  <2>4. QED
    BY <2>1, <2>2, <2>3
<1>4. Len(x \o y) = Len(v \o h)
  BY <1>1, <1>3
<1>5. /\ \A i \in 1..Len(x) : (x \o y)[i] = x[i]
      /\ \A i \in 1..Len(y) : (x \o y)[Len(x) + i] = y[i]
      /\ \A i \in 1..Len(v) : (v \o h)[i] = v[i]
      /\ \A i \in 1..Len(h) : (v \o h)[Len(v) + i] = h[i]
  <2>1. x \in Seq(S) /\ y \in Seq(S) /\ Len(x) \in Nat
    BY <1>1
  <2>2. \A i \in 1..Len(x) : (x \o y)[i] = x[i]
    BY <2>1
  <2>3. \A i \in 1..Len(y) : (x \o y)[Len(x) + i] = y[i]
    BY <2>1
  <2>4. \A i \in 1..Len(v) : (v \o h)[i] = v[i]
    OBVIOUS
  <2>5. \A i \in 1..Len(h) : (v \o h)[Len(v) + i] = h[i]
    OBVIOUS
  <2>6. QED
    BY <2>2, <2>3, <2>4, <2>5
<1>6. ASSUME NEW i \in 1..Len(x \o y)
      PROVE  (x \o y)[i] = (v \o h)[i]
  <2>1. CASE i \in 1..Len(v)
    BY <1>1, <1>3, <1>5, <2>1
  <2>2. CASE i = Len(v) + 1
    <3>1. (x \o y)[i] = Head(h)
      BY <1>1, <1>3, <1>5, <2>2
    <3>2. 1 \in 1..Len(h)
      BY <1>1
    <3>3. (v \o h)[i] = h[1]
      BY <1>5, <2>2, <3>2
    <3>4. QED
      BY <1>1, <3>1, <3>3
  <2>3. CASE i > Len(v) + 1
    <3>1. PICK k \in 1..Len(y) : i = Len(x) + k
      <4>1. i - Len(x) \in 1..Len(y) /\ i = Len(x) + (i - Len(x))
        BY <1>1, <1>3, <2>3
      <4>2. QED
        BY <4>1
    <3>2. (x \o y)[i] = y[k] /\ y[k] = h[k + 1]
      BY <1>1, <1>5, <3>1
    <3>3. k + 1 \in 1..Len(h) /\ i = Len(v) + (k + 1)
      BY <1>1, <3>1
    <3>4. (v \o h)[i] = h[k + 1]
      BY <1>5, <3>3
    <3>5. QED
      BY <3>2, <3>4
  <2>4. QED
    BY <1>1, <1>3, <1>4, <2>1, <2>2, <2>3
<1>7. x \o y = v \o h
  BY <1>3, <1>4, <1>6, SeqEqual
<1>8. \E i \in DOMAIN (v \o h) : (v \o h)[i] = Head(h)
  <2>1. 1 \in 1..Len(h) /\ Len(v) + 1 \in DOMAIN (v \o h)
    BY <1>1, <1>3
  <2>2. (v \o h)[Len(v) + 1] = h[1]
    BY <1>5, <2>1
  <2>3. QED
    BY <1>1, <2>1, <2>2
<1>9. QED
  BY <1>1, <1>2, <1>7, <1>8 DEF x, y

\* The texts of a list are those of its first message and of the rest.
LEMMA TextsSplit ==
  ASSUME NEW S, NEW h \in Seq(S), h # <<>>
  PROVE  TextOf(h) = ToSet(Head(h).text) \cup TextOf(Tail(h))
<1>1. /\ Len(Tail(h)) \in Nat /\ Len(h) = Len(Tail(h)) + 1 /\ h[1] = Head(h)
      /\ DOMAIN h = 1..Len(h) /\ DOMAIN Tail(h) = 1..Len(Tail(h))
      /\ \A i \in 1..Len(Tail(h)) : Tail(h)[i] = h[i + 1]
  OBVIOUS
<1> DEFINE y == Tail(h)
<1>2. ASSUME NEW x, x \in TextOf(h)
      PROVE  x \in ToSet(Head(h).text) \cup TextOf(y)
  <2>1. PICK i \in DOMAIN h : x \in ToSet(h[i].text)
    BY <1>2 DEF TextOf
  <2>2. CASE i = 1
    BY <1>1, <2>1, <2>2
  <2>3. CASE i # 1
    <3>1. i - 1 \in 1..Len(y) /\ (i - 1) + 1 = i
      BY <1>1, <2>3
    <3>2. y[i - 1] = h[i] /\ i - 1 \in DOMAIN y
      BY <1>1, <3>1
    <3>3. QED
      BY <2>1, <3>2 DEF TextOf
  <2>4. QED
    BY <2>2, <2>3
<1>3. ASSUME NEW x, x \in ToSet(Head(h).text) \cup TextOf(y)
      PROVE  x \in TextOf(h)
  <2>1. CASE x \in ToSet(Head(h).text)
    <3>1. 1 \in DOMAIN h
      BY <1>1
    <3>2. QED
      BY <1>1, <2>1, <3>1 DEF TextOf
  <2>2. CASE x \in TextOf(y)
    <3>1. PICK i \in DOMAIN y : x \in ToSet(y[i].text)
      BY <2>2 DEF TextOf
    <3>2. i + 1 \in DOMAIN h /\ y[i] = h[i + 1]
      BY <1>1
    <3>3. QED
      BY <3>1, <3>2 DEF TextOf
  <2>3. QED
    BY <1>3, <2>1, <2>2
<1>4. QED
  BY <1>2, <1>3

\* A message goes from those to be written to those written.
LEMMA WriteHistoryStep ==
  ASSUME ChatInv, WriteHistory
  PROVE  ChatInv'
<1>0. TypeInv /\ HistoryInv /\ MissInv /\ CompleteInv
  BY DEF ChatInv
<1>1. PICK m : m = Head(hist)
  OBVIOUS
<1>2. /\ pc = "history" /\ hist # <<>> /\ hist' = Tail(hist) /\ view' = Append(view, m) /\ last' = m.seq
      /\ rendered' = rendered \cup ToSet(m.text)
      /\ UNCHANGED <<log, pc, since, snap, agg, registered, queue, closed, gone, overrun, between, unwritten>>
  BY <1>1 DEF WriteHistory, subVars, lostVars
<1>3. /\ log \in Seq(Frames) /\ Len(log) \in Nat
      /\ view \in Seq(Upto(Len(log))) /\ hist \in Seq(Upto(Len(log)))
      /\ Numbers(snap) /\ Numbers(queue) /\ Safe \subseteq 1..Len(log) /\ since \in 0..Len(log)
  BY <1>0 DEF TypeInv
<1>4. /\ view' \in Seq(Upto(Len(log))) /\ hist' \in Seq(Upto(Len(log))) /\ m \in Upto(Len(log))
      /\ view' \o hist' = view \o hist /\ view' # <<>> /\ Last(view') = m
      /\ \E i \in DOMAIN (view \o hist) : (view \o hist)[i] = m
  <2>1. PICK S, v, h : S = Upto(Len(log)) /\ v = view /\ h = hist
    OBVIOUS
  <2>2. v \in Seq(S) /\ h \in Seq(S) /\ h # <<>> /\ m = Head(h) /\ view' = Append(v, m) /\ hist' = Tail(h)
    BY <1>1, <1>2, <1>3, <2>1
  <2>3. /\ Append(v, Head(h)) \in Seq(S) /\ Tail(h) \in Seq(S) /\ Head(h) \in S
        /\ Append(v, Head(h)) \o Tail(h) = v \o h
        /\ Append(v, Head(h)) # <<>> /\ Last(Append(v, Head(h))) = Head(h)
        /\ \E i \in DOMAIN (v \o h) : (v \o h)[i] = Head(h)
    BY <2>2, HeadMoves
  <2>4. QED
    BY <2>1, <2>2, <2>3
<1>5. Pending' = Pending /\ Top' = Top
  BY <1>2, <1>4 DEF Pending, Top
<1>6. m.seq \in 1..Len(log) /\ ToSet(m.text) \subseteq 1..Len(log)
  BY <1>3, <1>4, MessageKind
<1>7. Top \in 0..Len(log)
  BY <1>3, EndsKind DEF Top
<1>8. m.seq <= Top
  <2>1. Pending \in Seq(Upto(Top))
    BY <1>0, <1>2 DEF HistoryInv
  <2>2. m \in Upto(Top) /\ Top \in Nat
    <3>1. PICK i \in DOMAIN Pending : Pending[i] = m
      BY <1>4 DEF Pending
    <3>2. QED
      BY <1>7, <2>1, <3>1
  <2>3. m.seq \in 1..Top
    BY <2>2, MessageKind
  <2>4. QED
    BY <1>7, <2>3
<1>9. TextOf(hist) = ToSet(m.text) \cup TextOf(hist')
  BY <1>1, <1>2, <1>3, TextsSplit
<1>10. LogStays /\ NoAgg' = NoAgg
  BY <1>0, <1>2, LogSame DEF NoAgg, None
<1>11. /\ Numbers(snap)' /\ Numbers(queue)' /\ (StopIn(snap)' <=> StopIn(snap))
       /\ \A w : WarmBy(w, snap) => WarmBy(w, snap)'
  <2>1. PICK ns, nq : ns = snap /\ nq = queue
    OBVIOUS
  <2>2. (snap = ns)' /\ (queue = nq)'
    BY <1>2, <2>1
  <2>3. /\ Numbers(ns)' /\ Numbers(nq)' /\ (StopIn(ns)' <=> StopIn(ns))
        /\ \A w : WarmBy(w, ns) => WarmBy(w, ns)'
    BY <1>3, <1>10, <2>1, NumbersStay
  <2>4. QED
    BY <2>1, <2>2, <2>3
<1>12. TypeInv'
  <2>1. Safe' \subseteq 1..Len(log)
    BY <1>2, <1>3, <1>6 DEF Safe
  <2>2. QED
    BY <1>0, <1>2, <1>4, <1>6, <1>11, <2>1 DEF TypeInv
<1>13. HistoryInv'
  <2>1. Tidy(Pending)'
    <3>1. PICK ms : ms = Pending
      OBVIOUS
    <3>2. ms \in Seq(Upto(Len(log))) /\ Tidy(ms)
      BY <1>0, <1>2, <1>3, <3>1 DEF HistoryInv, Pending
    <3>3. Tidy(ms)' /\ (Pending = ms)'
      BY <1>5, <1>10, <3>1, <3>2, TidyStays
    <3>4. QED
      BY <3>3
  <2>2. PICK w : /\ WarmBy(w, snap) /\ Seen(Pending, w[Len(snap)].open, ~StopIn(snap))
                 /\ \E q \in 0..Len(log) : w[Len(snap)] \in Aggs(q) /\ Reach(Pending, q)
    BY <1>0, <1>2 DEF HistoryInv
  <2>3. PICK q \in 0..Len(log) : w[Len(snap)] \in Aggs(q) /\ Reach(Pending, q)
    BY <2>2
  <2>4. WarmBy(w, snap)'
    BY <1>11, <2>2
  <2>5. Seen(Pending, w[Len(snap)].open, ~StopIn(snap))'
    <3>1. w[Len(snap)].open \in Opens(Len(log))
      <4>1. w[Len(snap)] \in Aggs(Len(log))
        BY <1>3, <2>3, AggsGrow
      <4>2. QED
        BY <4>1 DEF Aggs
    <3>2. PICK ms, o, u : ms = Pending /\ o = w[Len(snap)].open /\ u = ~StopIn(snap)
      OBVIOUS
    <3>3. Seen(ms, o, u)'
      BY <1>10, <2>2, <3>1, <3>2, SeenStays
    <3>4. (~StopIn(snap))' = u /\ (w[Len(snap)].open = o)' /\ (Pending = ms)'
      BY <1>2, <1>5, <1>11, <3>2
    <3>5. QED
      BY <3>3, <3>4
  <2>6. q \in 0..Len(log)' /\ (w[Len(snap)] \in Aggs(q))' /\ Reach(Pending, q)'
    BY <1>2, <1>5, <2>3 DEF Reach
  <2>7. (/\ agg = NoAgg /\ queue = <<>>
         /\ Pending \in Seq(Upto(Top))
         /\ \A i \in DOMAIN Pending : since < Pending[i].seq
         /\ last = IF view = <<>> THEN since ELSE Last(view).seq)'
    BY <1>0, <1>2, <1>4, <1>5, <1>10 DEF HistoryInv
  <2>8. QED
    BY <2>1, <2>4, <2>5, <2>6, <2>7 DEF HistoryInv
<1>14. LiveInv'
  BY <1>2 DEF LiveInv
<1>15. MissInv'
  <2> SUFFICES ASSUME NEW n \in 1..Len(log)', IsText(n)', Due(n)'
               PROVE  n \in Safe' \cup TextOf(hist)' \cup ToSet(queue)'
    BY DEF MissInv
  <2>1. n \in 1..Len(log) /\ IsText(n)
    BY <1>2 DEF IsText
  <2>2. Due(n)
    BY <1>2, <1>5, <1>6, <1>7, <1>8, <2>1 DEF Due
  <2>3. n \in Safe \cup TextOf(hist) \cup ToSet(queue)
    BY <1>0, <2>1, <2>2 DEF MissInv
  <2>4. TextOf(hist)' = TextOf(hist') /\ ToSet(queue)' = ToSet(queue)
    BY <1>2 DEF TextOf
  <2>5. QED
    BY <1>2, <1>9, <2>3, <2>4 DEF Safe
<1>16. CompleteInv'
  <2>1. TextOf(view)' \subseteq rendered'
    <3>1. Appended(view, m, view')
      BY <1>2, <1>3, <1>4, AppendSet DEF Appended
    <3>2. TextOf(view') = TextOf(view) \cup ToSet(m.text)
      BY <1>3, <3>1, TextsAfter
    <3>3. TextOf(view)' = TextOf(view')
      BY DEF TextOf
    <3>4. QED
      BY <1>0, <1>2, <3>2, <3>3 DEF CompleteInv
  <2>2. ASSUME NEW n \in (since' + 1)..Len(log'), IsText(n)', ToShow(n)'
        PROVE  \/ n \in gone' \cup overrun' \cup TextOf(Pending)' \cup ToSet(queue)'
               \/ n \in rendered' /\ StopIn(snap)'
    <3>1. n \in (since + 1)..Len(log) /\ IsText(n) /\ ToShow(n)
      BY <1>2, <1>5, <2>2 DEF IsText, ToShow
    <3>2. \/ n \in gone \cup overrun \cup TextOf(Pending) \cup ToSet(queue)
          \/ n \in rendered /\ StopIn(snap)
      BY <1>0, <3>1 DEF CompleteInv
    <3>3. TextOf(Pending)' = TextOf(Pending) /\ ToSet(queue)' = ToSet(queue)
      BY <1>2, <1>5 DEF TextOf
    <3>4. QED
      BY <1>2, <1>11, <3>2, <3>3
  <2>3. QED
    BY <2>1, <2>2 DEF CompleteInv
<1>17. QED
  BY <1>12, <1>13, <1>14, <1>15, <1>16 DEF ChatInv

\* The number the subscription starts from.
StartsFrom == IF view = <<>> THEN since ELSE SubFrom

\* The subscription starts at or after all that the stream has begun with.
LEMMA StartReaches ==
  ASSUME ChatInv, pc = "history", hist = <<>>
  PROVE  /\ StartsFrom \in 0..Len(log) /\ last <= StartsFrom /\ since <= StartsFrom
         /\ view \in Seq(Upto(StartsFrom))
         /\ view = <<>> => StartsFrom = since /\ StartsFrom = last
         /\ view # <<>> => StartsFrom <= Top
         /\ \A q \in Nat : Reach(view, q) => q <= StartsFrom
<1>0. TypeInv /\ HistoryInv
  BY DEF ChatInv
<1>1. /\ Len(log) \in Nat /\ log \in Seq(Frames) /\ since \in 0..Len(log) /\ last \in 0..Len(log)
      /\ Numbers(snap) /\ view \in Seq(Upto(Len(log)))
  BY <1>0 DEF TypeInv
<1>2. Top \in 0..Len(log)
  BY <1>1, EndsKind DEF Top
<1>3. Pending = view
  BY <1>1 DEF Pending
<1>4. /\ view \in Seq(Upto(Top)) /\ (\A i \in DOMAIN view : since < view[i].seq)
      /\ last = IF view = <<>> THEN since ELSE Last(view).seq
  BY <1>0, <1>3 DEF HistoryInv
<1>5. CASE view = <<>>
  <2>1. StartsFrom = since /\ last = since
    BY <1>4, <1>5 DEF StartsFrom
  <2>2. view \in Seq(Upto(StartsFrom))
    BY <1>5
  <2>3. \A q : Reach(view, q) => q = since
    BY <1>5 DEF Reach
  <2>4. QED
    BY <1>1, <1>5, <2>1, <2>2, <2>3
<1>6. CASE view # <<>>
  <2>1. \A i \in DOMAIN view : view[i] \in Upto(Top) /\ view[i].seq \in 1..Top
    <3>1. \A m \in Upto(Top) : m.seq \in 1..Top
      BY <1>2, MessageKind
    <3>2. QED
      BY <1>4, <3>1
  <2> DEFINE S == {0} \cup {view[i].seq : i \in DOMAIN view}
  <2>2. S \subseteq Nat /\ S # {} /\ \A x \in S : x <= Top
    BY <1>2, <2>1
  <2>3. Top \in Nat
    BY <1>2
  <2> HIDE DEF S
  <2>4. Max(S) \in S /\ \A x \in S : x <= Max(S)
    BY <2>2, <2>3, GreatestNumber
  <2>5. StartsFrom = Max(S)
    BY <1>6 DEF StartsFrom, SubFrom, S
  <2>6. \A i \in DOMAIN view : view[i].seq <= StartsFrom
    BY <2>4, <2>5 DEF S
  <2>7. StartsFrom \in 0..Len(log) /\ StartsFrom \in Nat /\ StartsFrom <= Top
    <3>1. Max(S) \in Nat /\ Max(S) <= Top
      BY <2>2, <2>4
    <3>2. QED
      BY <1>1, <1>2, <2>5, <3>1
  <2>8. Len(view) \in DOMAIN view /\ Last(view) = view[Len(view)]
    BY <1>1, <1>6 DEF Last
  <2>9. last <= StartsFrom
    BY <1>4, <1>6, <2>6, <2>8
  <2>10. since <= StartsFrom
    BY <1>1, <1>4, <2>1, <2>6, <2>7, <2>8
  <2>11. view \in Seq(Upto(StartsFrom))
    <3>1. ASSUME NEW i \in DOMAIN view
          PROVE  view[i] \in Upto(StartsFrom)
      <4>1. /\ view[i] \in Messages /\ view[i].first \in 1..Top /\ view[i].seq \in view[i].first..Top
            /\ ToSet(view[i].text) \subseteq view[i].first..view[i].seq
        BY <2>1 DEF Upto
      <4>2. view[i].first \in 1..StartsFrom /\ view[i].seq \in view[i].first..StartsFrom
        BY <1>2, <2>6, <2>7, <4>1
      <4>3. QED
        BY <4>1, <4>2 DEF Upto
    <3>2. QED
      BY <1>1, <3>1
  <2>12. \A q \in Nat : Reach(view, q) => q <= StartsFrom
    BY <1>6, <2>6 DEF Reach
  <2>13. QED
    BY <1>6, <2>7, <2>9, <2>10, <2>11, <2>12
<1>7. QED
  BY <1>5, <1>6

\* From there on the channel has the frames, or the ring or the replay has lost them.
LEMMA SubscribeStep ==
  ASSUME ChatInv, Subscribe
  PROVE  ChatInv'
<1>0. TypeInv /\ HistoryInv /\ MissInv /\ CompleteInv
  BY DEF ChatInv
<1>1. PICK n0, new : n0 = StartsFrom /\ new = Newer(n0)
  OBVIOUS
<1>2. PICK size : size = IF Len(new) < ChanCap THEN Len(new) ELSE ChanCap
  OBVIOUS
<1>3. /\ pc = "history" /\ hist = <<>> /\ agg' = Warm(snap) /\ pc' = "live" /\ registered' = TRUE
      /\ queue' = SubSeq(new, 1, size)
      /\ overrun' = overrun \cup (ToSet(new) \ ToSet(queue'))
      /\ gone' = gone \cup (n0 + 1)..Forgotten
      /\ UNCHANGED <<log, last, since, snap, hist, closed, view, rendered, between, unwritten>>
  BY <1>1, <1>2 DEF Subscribe, Register, StartsFrom
<1>4. /\ Len(log) \in Nat /\ log \in Seq(Frames) /\ since \in 0..Len(log) /\ last \in 0..Len(log)
      /\ Numbers(snap) /\ view \in Seq(Upto(Len(log))) /\ Safe \subseteq 1..Len(log)
  BY <1>0 DEF TypeInv
<1>5. Pending = view /\ Pending' = view' /\ queue = <<>>
  BY <1>0, <1>3, <1>4 DEF Pending, HistoryInv
<1>6. /\ n0 \in 0..Len(log) /\ last <= n0 /\ since <= n0
      /\ view \in Seq(Upto(n0))
      /\ view = <<>> => n0 = since /\ n0 = last
      /\ view # <<>> => n0 <= Top
      /\ \A q \in Nat : Reach(view, q) => q <= n0
  BY <1>1, <1>3, StartReaches
<1>7. /\ Numbers(new) /\ (\A i \in DOMAIN new : n0 < new[i])
      /\ (\A x \in (n0 + 1)..Len(log) : x \in (n0 + 1)..Forgotten \/ x \in ToSet(new))
      /\ Forgotten \in 0..Len(log)
  BY <1>1, <1>4, <1>6, NewerKind
<1>8. Len(new) \in Nat /\ DOMAIN new = 1..Len(new) /\ size \in 0..Len(new) /\ size <= ChanCap
  BY <1>2, <1>4, <1>7, EndsKind, Sizes
<1>9. /\ Numbers(queue') /\ Len(queue') = size /\ DOMAIN queue' = 1..size
      /\ \A i \in 1..size : queue'[i] = new[i]
  <2>1. PICK nq : nq = SubSeq(new, 1, size)
    OBVIOUS
  <2>2. Numbers(nq) /\ Len(nq) = size /\ \A i \in 1..size : nq[i] = new[i]
    BY <1>4, <1>7, <1>8, <2>1, NumbersCut
  <2>3. DOMAIN nq = 1..Len(nq)
    BY <1>4, <2>2, EndsKind
  <2>4. QED
    BY <1>3, <2>1, <2>2, <2>3
<1>10. \A i \in DOMAIN queue' : n0 < queue'[i]
  BY <1>7, <1>8, <1>9
<1>11. ToSet(new) \subseteq 1..Len(log) /\ (n0 + 1)..Forgotten \subseteq 1..Len(log)
  <2>1. ToSet(new) \subseteq 1..Len(log)
    BY <1>7 DEF Numbers, ToSet
  <2>2. QED
    BY <1>4, <1>6, <1>7, <2>1
<1>12. PICK w : /\ WarmBy(w, snap) /\ Seen(Pending, w[Len(snap)].open, ~StopIn(snap))
                /\ \E q \in 0..Len(log) : w[Len(snap)] \in Aggs(q) /\ Reach(Pending, q)
  BY <1>0, <1>3 DEF HistoryInv
<1>13. agg' = w[Len(snap)] /\ agg' \in Aggs(n0)
  <2>1. PICK q \in 0..Len(log) : w[Len(snap)] \in Aggs(q) /\ Reach(Pending, q)
    BY <1>12
  <2>2. q \in Nat /\ n0 \in Nat /\ q <= n0
    BY <1>4, <1>5, <1>6, <2>1
  <2>3. Warm(snap) = w[Len(snap)]
    BY <1>4, <1>12, WarmIs
  <2>4. QED
    BY <1>3, <2>1, <2>2, <2>3, AggsGrow
<1>14. LogStays
  BY <1>0, <1>3, LogSame
<1>15. Numbers(snap)' /\ Numbers(queue)' /\ (StopIn(snap)' <=> StopIn(snap))
  <2>1. PICK ns, nq : ns = snap /\ nq = queue'
    OBVIOUS
  <2>2. Numbers(ns)' /\ Numbers(nq)' /\ (StopIn(ns)' <=> StopIn(ns))
    BY <1>4, <1>9, <1>14, <2>1, NumbersStay
  <2>3. (snap = ns)' /\ (queue = nq)'
    BY <1>3, <2>1
  <2>4. QED
    BY <2>1, <2>2, <2>3
<1>16. TypeInv'
  <2>1. Safe' \subseteq 1..Len(log)
    BY <1>3, <1>4, <1>11 DEF Safe
  <2>2. agg' \in Aggs(Len(log))
    BY <1>4, <1>6, <1>13, AggsGrow
  <2>3. ~closed
    BY <1>0, <1>3 DEF TypeInv
  <2>4. Len(queue') <= ChanCap
    BY <1>8, <1>9
  <2>5. QED
    BY <1>0, <1>3, <1>15, <2>1, <2>2, <2>3, <2>4 DEF TypeInv
<1>17. HistoryInv'
  BY <1>3 DEF HistoryInv
<1>18. LiveInv'
  <2>1. Tidy(view)' /\ Seen(view, agg.open, ~StopIn(snap))'
    <3>1. PICK ms, o, u : ms = view /\ o = w[Len(snap)].open /\ u = ~StopIn(snap)
      OBVIOUS
    <3>2. ms \in Seq(Upto(Len(log))) /\ Tidy(ms) /\ Seen(ms, o, u)
      BY <1>0, <1>3, <1>4, <1>5, <1>12, <3>1 DEF HistoryInv
    <3>3. o \in Opens(Len(log))
      <4>1. w[Len(snap)] \in Aggs(Len(log))
        BY <1>4, <1>6, <1>13, AggsGrow
      <4>2. QED
        BY <3>1, <4>1 DEF Aggs
    <3>4. Tidy(ms)' /\ Seen(ms, o, u)'
      BY <1>14, <3>2, <3>3, TidyStays, SeenStays
    <3>5. (view = ms)' /\ (agg.open = o)' /\ (~StopIn(snap))' = u
      BY <1>3, <1>13, <1>15, <3>1
    <3>6. QED
      BY <3>4, <3>5
  <2>2. n0 \in 0..Len(log)' /\ (agg \in Aggs(n0))' /\ (view \in Seq(Upto(n0)))' /\ (last <= n0)' /\ (since <= n0)'
    BY <1>3, <1>6, <1>13
  <2>3. hist' = <<>>
    BY <1>3
  <2>4. QED
    BY <1>10, <2>1, <2>2, <2>3 DEF LiveInv
<1>19. ASSUME NEW n \in 1..Len(log), n0 < n
       PROVE  n \in gone' \cup overrun' \cup ToSet(queue')
  <2>1. n \in (n0 + 1)..Len(log)
    BY <1>4, <1>6, <1>19
  <2>2. QED
    BY <1>3, <1>7, <2>1
<1>20. MissInv'
  <2> SUFFICES ASSUME NEW n \in 1..Len(log)', IsText(n)'
               PROVE  n \in Safe' \cup ToSet(queue)'
    BY DEF MissInv
  <2>1. n \in 1..Len(log) /\ IsText(n)
    BY <1>3 DEF IsText
  <2>2. CASE n0 < n
    <3>1. n \in gone' \cup overrun' \cup ToSet(queue')
      BY <1>19, <2>1, <2>2
    <3>2. QED
      BY <3>1 DEF Safe
  <2>3. CASE ~(n0 < n)
    <3>1. Due(n)
      <4>1. n <= n0
        BY <1>4, <1>6, <2>1, <2>3
      <4>2. Top \in 0..Len(log)
        BY <1>4, EndsKind DEF Top
      <4>3. n <= last \/ n <= Top
        BY <1>4, <1>6, <2>1, <4>1, <4>2
      <4>4. QED
        BY <1>3, <4>3 DEF Due
    <3>2. n \in Safe \cup TextOf(hist) \cup ToSet(queue)
      BY <1>0, <2>1, <3>1 DEF MissInv
    <3>3. TextOf(hist) = {} /\ ToSet(queue) = {}
      BY <1>3, <1>5 DEF TextOf, ToSet
    <3>4. QED
      BY <1>3, <3>2, <3>3 DEF Safe
  <2>4. QED
    BY <2>2, <2>3
<1>21. CompleteInv'
  <2>1. TextOf(view)' \subseteq rendered'
    <3>1. TextOf(view)' = TextOf(view)
      BY <1>3 DEF TextOf
    <3>2. QED
      BY <1>0, <1>3, <3>1 DEF CompleteInv
  <2>2. ASSUME NEW n \in (since' + 1)..Len(log'), IsText(n)'
        PROVE  \/ n \in gone' \cup overrun' \cup TextOf(Pending)' \cup ToSet(queue)'
               \/ n \in rendered' /\ StopIn(snap)'
    <3>1. n \in (since + 1)..Len(log) /\ n \in 1..Len(log) /\ IsText(n)
      BY <1>3, <1>4, <2>2 DEF IsText
    <3>2. CASE n0 < n
      BY <1>19, <3>1, <3>2
    <3>3. CASE ~(n0 < n)
      <4>1. n <= n0 /\ view # <<>>
        BY <1>4, <1>6, <3>1, <3>3
      <4>2. Top \in 0..Len(log)
        BY <1>4, EndsKind DEF Top
      <4>3. ToShow(n)
        BY <1>3, <1>4, <1>6, <3>1, <4>1, <4>2 DEF ToShow
      <4>4. \/ n \in gone \cup overrun \cup TextOf(Pending) \cup ToSet(queue)
            \/ n \in rendered /\ StopIn(snap)
        BY <1>0, <3>1, <4>3 DEF CompleteInv
      <4>5. TextOf(Pending)' = TextOf(Pending) /\ ToSet(queue) = {}
        BY <1>3, <1>5 DEF TextOf, ToSet
      <4>6. QED
        BY <1>3, <1>15, <4>4, <4>5
    <3>4. QED
      BY <3>2, <3>3
  <2>3. QED
    BY <2>1, <2>2 DEF CompleteInv
<1>22. QED
  BY <1>16, <1>17, <1>18, <1>20, <1>21 DEF ChatInv

\* The next frame is after all that the aggregator and the view are made of.
LEMMA WriteLiveStep ==
  ASSUME ChatInv, WriteLive
  PROVE  ChatInv'
<1>0. TypeInv /\ LiveInv /\ MissInv /\ CompleteInv
  BY DEF ChatInv
<1>1. PICK n, a, v, nq, whole : n = Head(queue) /\ a = agg /\ v = view /\ nq = queue /\ whole = ~StopIn(snap)
  OBVIOUS
<1> DEFINE s == Step(a, n)
           x == Reads(v, s.out)
           told == IF IsText(n) THEN ToSet(s.out[1].msg.text) ELSE {}
<1>2. /\ pc = "live" /\ nq # <<>> /\ agg' = s.agg /\ view' = x /\ queue' = Tail(nq)
      /\ last' = IF s.out = <<>> THEN last ELSE n
      /\ rendered' = rendered \cup told
      /\ UNCHANGED <<log, pc, since, snap, hist, registered, closed, gone, overrun, between, unwritten>>
  BY <1>1 DEF WriteLive, lostVars
<1>3. /\ Len(log) \in Nat /\ log \in Seq(Frames) /\ since \in 0..Len(log) /\ last \in 0..Len(log)
      /\ Numbers(snap) /\ Numbers(nq) /\ Len(nq) <= ChanCap /\ Safe \subseteq 1..Len(log)
      /\ registered \in BOOLEAN /\ closed \in BOOLEAN
  BY <1>0, <1>1 DEF TypeInv
<1>4. /\ hist = <<>> /\ Tidy(v) /\ Seen(v, a.open, whole)
      /\ \E p \in 0..Len(log) : /\ a \in Aggs(p) /\ v \in Seq(Upto(p)) /\ last <= p /\ since <= p
                                /\ \A i \in DOMAIN nq : p < nq[i]
  BY <1>0, <1>1, <1>2 DEF LiveInv
<1>5. PICK p \in 0..Len(log) : /\ a \in Aggs(p) /\ v \in Seq(Upto(p)) /\ last <= p /\ since <= p
                               /\ \A i \in DOMAIN nq : p < nq[i]
  BY <1>4
<1>6. /\ nq \in Seq(Nat) /\ 1 \in DOMAIN nq /\ nq[1] = n /\ n \in 1..Len(log) /\ p < n /\ p \in Nat
      /\ \A i \in DOMAIN nq : n <= nq[i] /\ nq[i] \in 1..Len(log)
  <2>1. nq \in Seq(Nat) /\ \A k \in DOMAIN nq : nq[k] \in 1..Len(log)
    BY <1>3 DEF Numbers
  <2>2. 1 \in DOMAIN nq /\ nq[1] = n
    BY <1>1, <1>2, <2>1
  <2>3. n \in 1..Len(log) /\ p < n
    BY <1>5, <2>1, <2>2
  <2>4. ASSUME NEW i \in DOMAIN nq
        PROVE  n <= nq[i]
    <3>1. CASE i = 1
      BY <2>1, <2>2, <3>1
    <3>2. CASE i # 1
      <4>1. 1 < i
        BY <2>1, <3>2
      <4>2. nq[1] < nq[i]
        BY <1>3, <2>2, <4>1 DEF Numbers
      <4>3. QED
        BY <2>1, <2>2, <4>2
    <3>3. QED
      BY <3>1, <3>2
  <2>5. QED
    BY <1>5, <2>1, <2>2, <2>3, <2>4
<1>7. /\ Tail(nq) \in Seq(Nat) /\ Len(Tail(nq)) \in Nat /\ Len(nq) = Len(Tail(nq)) + 1
      /\ DOMAIN Tail(nq) = 1..Len(Tail(nq)) /\ DOMAIN nq = 1..Len(nq)
      /\ \A i \in 1..Len(Tail(nq)) : Tail(nq)[i] = nq[i + 1]
  BY <1>2, <1>6
<1>8. /\ Numbers(Tail(nq)) /\ Len(Tail(nq)) <= ChanCap
      /\ (\A i \in DOMAIN Tail(nq) : n < Tail(nq)[i])
      /\ (\A i \in DOMAIN Tail(nq) : \E j \in DOMAIN nq : Tail(nq)[i] = nq[j])
      /\ (\A m \in ToSet(nq) : m = n \/ m \in ToSet(Tail(nq)))
  <2> DEFINE y == Tail(nq)
  <2>0. /\ y \in Seq(Nat) /\ Len(y) \in Nat /\ Len(nq) = Len(y) + 1
        /\ DOMAIN y = 1..Len(y) /\ DOMAIN nq = 1..Len(nq)
        /\ \A i \in 1..Len(y) : y[i] = nq[i + 1]
    BY <1>7
  <2> HIDE DEF y
  <2>1. ASSUME NEW i \in DOMAIN y
        PROVE  i + 1 \in DOMAIN nq /\ y[i] = nq[i + 1] /\ y[i] \in 1..Len(log) /\ n < y[i]
    <3>1. i + 1 \in DOMAIN nq /\ y[i] = nq[i + 1] /\ 1 < i + 1 /\ i \in Nat
      BY <2>0
    <3>2. nq[1] < nq[i + 1]
      BY <1>3, <1>6, <3>1 DEF Numbers
    <3>3. QED
      BY <1>6, <3>1, <3>2
  <2>2. ASSUME NEW i \in DOMAIN y, NEW j \in DOMAIN y, i < j
        PROVE  y[i] < y[j]
    <3>1. i + 1 < j + 1
      BY <2>0, <2>2
    <3>2. nq[i + 1] < nq[j + 1]
      BY <1>3, <2>1, <3>1 DEF Numbers
    <3>3. QED
      BY <2>1, <3>2
  <2>3. Numbers(y)
    BY <2>0, <2>1, <2>2 DEF Numbers
  <2>4. ASSUME NEW m \in ToSet(nq)
        PROVE  m = n \/ m \in ToSet(y)
    <3>1. PICK j \in DOMAIN nq : m = nq[j]
      BY DEF ToSet
    <3>2. CASE j = 1
      BY <1>6, <3>1, <3>2
    <3>3. CASE j # 1
      <4>1. j - 1 \in DOMAIN y /\ (j - 1) + 1 = j
        BY <2>0, <3>3
      <4>2. y[j - 1] = m
        BY <2>1, <3>1, <4>1
      <4>3. QED
        BY <4>1, <4>2 DEF ToSet
    <3>4. QED
      BY <3>2, <3>3
  <2>5. Len(y) <= ChanCap
    BY <1>3, <2>0, Sizes
  <2>6. QED
    BY <2>1, <2>3, <2>4, <2>5 DEF y
<1>9. /\ x \in Seq(Upto(n)) /\ Tidy(x) /\ Seen(x, s.agg.open, whole)
      /\ IsText(n) => n \in TextOf(x) /\ TextOf(x) \subseteq TextOf(v) \cup ToSet(s.out[1].msg.text)
      /\ ~IsText(n) => TextOf(x) = TextOf(v)
      /\ whole => TextOf(v) \subseteq TextOf(x)
  BY <1>3, <1>4, <1>5, <1>6, SeenStep
<1>10. /\ s.agg \in Aggs(n)
       /\ IsText(n) => /\ s.out # <<>> /\ s.out[1].msg \in Upto(n)
                       /\ n \in ToSet(s.out[1].msg.text)
  BY <1>3, <1>5, <1>6, AggStep
<1>11. told \subseteq 1..Len(log) /\ (IsText(n) => n \in told) /\ TextOf(x) \subseteq TextOf(v) \cup told
  <2>1. n \in Nat
    BY <1>6
  <2>2. CASE IsText(n)
    <3>1. ToSet(s.out[1].msg.text) \subseteq 1..n
      BY <1>10, <2>1, <2>2, MessageKind
    <3>2. QED
      BY <1>3, <1>6, <1>9, <1>10, <2>2, <3>1
  <2>3. CASE ~IsText(n)
    BY <1>9, <2>3
  <2>4. QED
    BY <2>2, <2>3
<1> HIDE DEF s, x, told
<1>12. LogStays
  BY <1>0, <1>2, LogSame
<1>13. Numbers(snap)' /\ Numbers(queue)' /\ (~StopIn(snap))' = whole
  <2>1. PICK ns, nt : ns = snap /\ nt = Tail(nq)
    OBVIOUS
  <2>2. Numbers(ns)' /\ Numbers(nt)' /\ (StopIn(ns)' <=> StopIn(ns))
    BY <1>3, <1>8, <1>12, <2>1, NumbersStay
  <2>3. (snap = ns)' /\ (queue = nt)'
    BY <1>2, <2>1
  <2>4. QED
    BY <1>1, <2>1, <2>2, <2>3
<1>14. view' \in Seq(Upto(Len(log))) /\ agg' \in Aggs(Len(log)) /\ s.agg.open \in Opens(Len(log))
  <2>1. n \in Nat /\ n <= Len(log)
    BY <1>6
  <2>2. x \in Seq(Upto(Len(log))) /\ s.agg \in Aggs(Len(log))
    BY <1>3, <1>9, <1>10, <2>1, UptoSeq, AggsGrow
  <2>3. s.agg.open \in Opens(Len(log))
    BY <2>2 DEF Aggs
  <2>4. QED
    BY <1>2, <2>2, <2>3
<1>15. last' \in 0..Len(log) /\ last' <= n /\ since <= n
  BY <1>2, <1>3, <1>5, <1>6
<1>16. TypeInv'
  <2>1. Safe' \subseteq 1..Len(log)
    BY <1>2, <1>3, <1>11 DEF Safe
  <2>2. hist' \in Seq(Upto(Len(log)))
    BY <1>2, <1>4
  <2>3. Len(queue') <= ChanCap
    BY <1>2, <1>8
  <2>4. QED
    BY <1>0, <1>2, <1>13, <1>14, <1>15, <2>1, <2>2, <2>3 DEF TypeInv
<1>17. HistoryInv'
  BY <1>2 DEF HistoryInv
<1>18. LiveInv'
  <2>1. Tidy(view)' /\ Seen(view, agg.open, ~StopIn(snap))'
    <3>1. PICK ms, o : ms = x /\ o = s.agg.open
      OBVIOUS
    <3>2. ms \in Seq(Upto(Len(log))) /\ Tidy(ms) /\ Seen(ms, o, whole) /\ o \in Opens(Len(log))
      BY <1>2, <1>9, <1>14, <3>1
    <3>3. Tidy(ms)' /\ Seen(ms, o, whole)'
      BY <1>12, <3>2, TidyStays, SeenStays
    <3>4. (view = ms)' /\ (agg.open = o)'
      BY <1>2, <3>1
    <3>5. QED
      BY <1>13, <3>3, <3>4
  <2>2. n \in 0..Len(log)' /\ (agg \in Aggs(n))' /\ (view \in Seq(Upto(n)))' /\ (last <= n)' /\ (since <= n)'
    BY <1>2, <1>3, <1>6, <1>9, <1>10, <1>15
  <2>3. (\A i \in DOMAIN queue : n < queue[i])'
    BY <1>2, <1>8
  <2>4. hist' = <<>>
    BY <1>2, <1>4
  <2>5. QED
    BY <2>1, <2>2, <2>3, <2>4 DEF LiveInv
<1>19. MissInv'
  <2> SUFFICES ASSUME NEW m \in 1..Len(log)', IsText(m)', Due(m)'
               PROVE  m \in Safe' \cup TextOf(hist)' \cup ToSet(queue)'
    BY DEF MissInv
  <2>1. m \in 1..Len(log) /\ IsText(m)
    BY <1>2 DEF IsText
  <2>2. Due(m)
    <3>1. CASE m <= last'
      <4>1. m <= n
        BY <1>6, <1>15, <2>1, <3>1
      <4>2. QED
        BY <1>1, <1>6, <4>1 DEF Due
    <3>2. CASE registered'
      BY <1>2, <3>2 DEF Due
    <3>3. CASE \E i \in DOMAIN queue' : m <= queue'[i]
      BY <1>1, <1>2, <1>8, <3>3 DEF Due
    <3>4. QED
      BY <1>2, <3>1, <3>2, <3>3 DEF Due
  <2>3. m \in Safe \cup TextOf(hist) \cup ToSet(nq)
    BY <1>0, <1>1, <2>1, <2>2 DEF MissInv
  <2>4. TextOf(hist) = {}
    BY <1>4 DEF TextOf
  <2>5. CASE m \in Safe
    BY <1>2, <2>5 DEF Safe
  <2>6. CASE m = n
    BY <1>2, <1>11, <2>1, <2>6 DEF Safe
  <2>7. CASE m \in ToSet(Tail(nq))
    BY <1>2, <2>7
  <2>8. QED
    BY <1>8, <2>3, <2>4, <2>5, <2>6, <2>7
<1>20. CompleteInv'
  <2>0. Pending = v /\ Pending' = x /\ TextOf(v) \subseteq rendered
    <3>1. v \o <<>> = v /\ x \o <<>> = x
      BY <1>5, <1>9
    <3>2. QED
      BY <1>0, <1>1, <1>2, <1>4, <3>1 DEF Pending, CompleteInv
  <2>1. TextOf(view)' = TextOf(x) /\ TextOf(Pending)' = TextOf(x)
    BY <1>2, <2>0 DEF TextOf
  <2>2. TextOf(view)' \subseteq rendered'
    BY <1>2, <1>11, <2>0, <2>1
  <2>3. ASSUME NEW m \in (since' + 1)..Len(log'), IsText(m)', ToShow(m)'
        PROVE  \/ m \in gone' \cup overrun' \cup TextOf(Pending)' \cup ToSet(queue)'
               \/ m \in rendered' /\ StopIn(snap)'
    <3>1. m \in (since + 1)..Len(log) /\ IsText(m) /\ ToShow(m)
      BY <1>2, <2>3 DEF IsText, ToShow
    <3>2. \/ m \in gone \cup overrun \cup TextOf(v) \cup ToSet(nq)
          \/ m \in rendered /\ StopIn(snap)
      BY <1>0, <1>1, <2>0, <3>1 DEF CompleteInv
    <3>3. StopIn(snap)' <=> ~whole
      BY <1>13
    <3>4. CASE m \in gone \cup overrun
      BY <1>2, <3>4
    <3>5. CASE m \in TextOf(v)
      BY <1>2, <1>9, <2>0, <2>1, <3>3, <3>5
    <3>6. CASE m = n
      BY <1>9, <2>1, <3>1, <3>6
    <3>7. CASE m \in ToSet(Tail(nq))
      BY <1>2, <3>7
    <3>8. CASE m \in rendered /\ StopIn(snap)
      <4>1. StopIn(snap)'
        BY <1>1, <3>3, <3>8
      <4>2. QED
        BY <1>2, <3>8, <4>1
    <3>9. QED
      BY <1>8, <3>2, <3>4, <3>5, <3>6, <3>7, <3>8
  <2>4. QED
    BY <2>2, <2>3 DEF CompleteInv
<1>21. QED
  BY <1>16, <1>17, <1>18, <1>19, <1>20 DEF ChatInv

\* Nothing changes the invariant when nothing changes.
LEMMA StutterStep ==
  ASSUME ChatInv, UNCHANGED vars
  PROVE  ChatInv'
<1>0. TypeInv /\ HistoryInv /\ LiveInv /\ MissInv /\ CompleteInv
  BY DEF ChatInv
<1>1. UNCHANGED <<log, pc, last, since, snap, hist, agg, registered, queue, closed, view, rendered, gone, overrun, between, unwritten>>
  BY DEF vars, subVars, lostVars
<1>2. LogStays /\ NoAgg' = NoAgg /\ Pending' = Pending /\ Top' = Top
  BY <1>0, <1>1, LogSame DEF NoAgg, None, Pending, Top
<1>3. PICK ns, nq, ms, vs : ns = snap /\ nq = queue /\ ms = Pending /\ vs = view
  OBVIOUS
<1>4. (snap = ns)' /\ (queue = nq)' /\ (Pending = ms)' /\ (view = vs)'
  BY <1>1, <1>2, <1>3
<1>5. Numbers(ns)' /\ Numbers(nq)' /\ (StopIn(ns)' <=> StopIn(ns)) /\ (\A w : WarmBy(w, ns) => WarmBy(w, ns)')
  BY <1>0, <1>2, <1>3, NumbersStay DEF TypeInv
<1>6. TypeInv'
  BY <1>0, <1>1, <1>2, <1>4, <1>5 DEF TypeInv, Safe
<1>7. HistoryInv'
  <2> SUFFICES ASSUME pc = "history" PROVE HistoryInv'
    BY <1>1 DEF HistoryInv
  <2>1. PICK w : /\ WarmBy(w, ns) /\ Seen(ms, w[Len(ns)].open, ~StopIn(ns))
                 /\ \E q \in 0..Len(log) : w[Len(ns)] \in Aggs(q) /\ Reach(ms, q)
    BY <1>0, <1>3 DEF HistoryInv
  <2>2. PICK q \in 0..Len(log) : w[Len(ns)] \in Aggs(q) /\ Reach(ms, q)
    BY <2>1
  <2>3. PICK o, u : o = w[Len(ns)].open /\ u = ~StopIn(ns)
    OBVIOUS
  <2>4. o \in Opens(Len(log)) /\ ms \in Seq(Upto(Len(log))) /\ Tidy(ms) /\ Seen(ms, o, u)
    <3>1. Len(log) \in Nat
      BY <1>0 DEF TypeInv
    <3>2. w[Len(ns)] \in Aggs(Len(log))
      BY <2>2, <3>1, AggsGrow
    <3>3. ms \in Seq(Upto(Len(log))) /\ Tidy(ms)
      BY <1>0, <1>3 DEF TypeInv, HistoryInv, Pending
    <3>4. QED
      BY <2>1, <2>3, <3>2, <3>3 DEF Aggs
  <2>5. Tidy(ms)' /\ Seen(ms, o, u)' /\ (w[Len(snap)].open = o)' /\ (~StopIn(snap))' = u
    BY <1>2, <1>4, <1>5, <2>3, <2>4, TidyStays, SeenStays
  <2>6. WarmBy(w, snap)' /\ Tidy(Pending)' /\ Seen(Pending, w[Len(snap)].open, ~StopIn(snap))'
    BY <1>4, <1>5, <2>1, <2>5
  <2>7. q \in 0..Len(log)' /\ (w[Len(snap)] \in Aggs(q))' /\ Reach(Pending, q)'
    BY <1>1, <1>2, <1>3, <2>2 DEF Reach
  <2>8. (/\ agg = NoAgg /\ queue = <<>>
         /\ Pending \in Seq(Upto(Top))
         /\ \A i \in DOMAIN Pending : since < Pending[i].seq
         /\ last = IF view = <<>> THEN since ELSE Last(view).seq)'
    BY <1>0, <1>1, <1>2 DEF HistoryInv
  <2>9. QED
    BY <2>6, <2>7, <2>8 DEF HistoryInv
<1>8. LiveInv'
  <2> SUFFICES ASSUME pc = "live" PROVE LiveInv'
    BY <1>1 DEF LiveInv
  <2>1. PICK o, u : o = agg.open /\ u = ~StopIn(ns)
    OBVIOUS
  <2>2. o \in Opens(Len(log)) /\ vs \in Seq(Upto(Len(log))) /\ Tidy(vs) /\ Seen(vs, o, u)
    BY <1>0, <1>3, <2>1 DEF TypeInv, LiveInv, Aggs
  <2>3. Tidy(vs)' /\ Seen(vs, o, u)' /\ (agg.open = o)' /\ (~StopIn(snap))' = u
    BY <1>1, <1>2, <1>4, <1>5, <2>1, <2>2, TidyStays, SeenStays
  <2>4. Tidy(view)' /\ Seen(view, agg.open, ~StopIn(snap))'
    BY <1>4, <2>3
  <2>5. (/\ hist = <<>>
         /\ \E p \in 0..Len(log) :
              /\ agg \in Aggs(p) /\ view \in Seq(Upto(p)) /\ last <= p /\ since <= p
              /\ \A i \in DOMAIN queue : p < queue[i])'
    BY <1>0, <1>1 DEF LiveInv
  <2>6. QED
    BY <2>4, <2>5 DEF LiveInv
<1>9. MissInv'
  BY <1>0, <1>1, <1>2 DEF MissInv, Due, IsText, Safe, TextOf
<1>10. CompleteInv'
  BY <1>0, <1>1, <1>2, <1>3, <1>4, <1>5 DEF CompleteInv, ToShow, IsText, TextOf
<1>11. QED
  BY <1>6, <1>7, <1>8, <1>9, <1>10 DEF ChatInv

----------------------------------------------------------------------------
(* Bubbles joined *)

Line == [role : Roles, first : Nat, text : Seq(Nat)]
LineOf(m) == [role |-> m.role, first |-> m.first, text |-> m.text]
Extended(l, s) == [l EXCEPT !.text = @ \o s]

\* A message goes into the line before it.
Adds(o, m) == o # <<>> /\ m.role # "tool" /\ o[Len(o)].role = m.role

\* j is what each of the first messages of ms makes of the lines.
JoinedBy(j, ms) == j[0] = <<>> /\ \A k \in 1..Len(ms) : j[k] = Join(j[k - 1], ms[k])

\* There is one sequence with a place exchanged, and one with an element more.
LEMMA OneOutcome ==
  ASSUME NEW T, NEW ms \in Seq(T), NEW S, NEW x \in Seq(S), NEW y \in Seq(S), NEW g, NEW k,
         (Appended(ms, g, x) /\ Appended(ms, g, y)) \/ (Exchanged(ms, k, g, x) /\ Exchanged(ms, k, g, y))
  PROVE  x = y
<1>1. x = [i \in DOMAIN x |-> x[i]] /\ y = [i \in DOMAIN y |-> y[i]]
  OBVIOUS
<1>2. DOMAIN x = DOMAIN y
  BY DEF Appended, Exchanged
<1>3. \A i \in 1..(Len(ms) + 1) : i \in 1..Len(ms) \/ i = Len(ms) + 1
  OBVIOUS
<1>4. ASSUME NEW i \in DOMAIN x
      PROVE  x[i] = y[i]
  <2>1. CASE Appended(ms, g, x) /\ Appended(ms, g, y)
    BY <1>3, <2>1 DEF Appended
  <2>2. CASE Exchanged(ms, k, g, x) /\ Exchanged(ms, k, g, y)
    BY <2>2 DEF Exchanged
  <2>3. QED
    BY <2>1, <2>2
<1>5. QED
  BY <1>1, <1>2, <1>4

\* A message goes into the last line or makes one of its own.
LEMMA JoinShape ==
  ASSUME NEW o \in Seq(Line), NEW m \in Messages
  PROVE  /\ Join(o, m) \in Seq(Line) /\ LineOf(m) \in Line
         /\ Adds(o, m) => Exchanged(o, Len(o), Extended(o[Len(o)], m.text), Join(o, m))
         /\ ~Adds(o, m) => Appended(o, LineOf(m), Join(o, m))
<1>1. /\ m.role \in Roles /\ m.first \in Nat /\ m.text \in Seq(Nat) /\ LineOf(m) \in Line
      /\ Len(o) \in Nat /\ DOMAIN o = 1..Len(o)
  BY DEF Messages, LineOf, Line
<1>2. CASE Adds(o, m)
  <2> DEFINE l == o[Len(o)]
             g == Extended(l, m.text)
  <2>1. o # <<>> /\ Len(o) \in 1..Len(o) /\ Last(o) = l /\ l \in Line
    BY <1>1, <1>2 DEF Adds, Last
  <2>2. Join(o, m) = Append(Front(o), g)
    BY <1>2, <2>1 DEF Adds, Join, Extended
  <2>3. g \in Line
    <3>1. l.text \o m.text \in Seq(Nat)
      BY <1>1, <2>1 DEF Line
    <3> HIDE DEF l
    <3>2. QED
      BY <2>1, <3>1 DEF Line, Extended
  <2> HIDE DEF g
  <2>4. Exchanged(o, Len(o), g, Join(o, m)) /\ Join(o, m) \in Seq(Line)
    BY <2>1, <2>2, <2>3, LastPlace, LastExchanged
  <2>5. QED
    BY <1>1, <1>2, <2>4 DEF g
<1>3. CASE ~Adds(o, m)
  <2> DEFINE g == LineOf(m)
  <2>1. Join(o, m) = Append(o, g)
    <3>1. o # <<>> => Last(o) = o[Len(o)]
      BY DEF Last
    <3>2. QED
      BY <1>3, <3>1 DEF Adds, Join, LineOf
  <2>2. g \in Line
    BY <1>1
  <2> HIDE DEF g
  <2>3. Append(o, g) \in Seq(Line) /\ Appended(o, g, Append(o, g))
    <3>1. /\ Append(o, g) \in Seq(Line) /\ Len(Append(o, g)) = Len(o) + 1
          /\ \A i \in 1..Len(o) : Append(o, g)[i] = o[i]
          /\ Append(o, g)[Len(o) + 1] = g
      BY <2>2, AppendSet
    <3>2. DOMAIN Append(o, g) = 1..(Len(o) + 1)
      BY <3>1
    <3>3. QED
      BY <3>1, <3>2 DEF Appended
  <2>4. QED
    BY <1>1, <1>3, <2>1, <2>3 DEF g
<1>4. QED
  BY <1>2, <1>3

\* A list has its lines.
LEMMA JoinedFollows ==
  ASSUME NEW ms \in Seq(Messages)
  PROVE  \E j : /\ JoinedBy(j, ms) /\ Joined(ms) = j[Len(ms)]
                /\ \A k \in 0..Len(ms) : j[k] \in Seq(Line)
<1> DEFINE n == Len(ms)
           A == Seq(Line)
           T == [k \in 0..n |-> A]
           F == [p \in (1..n) \X A |-> Join(p[2], ms[p[1]])]
<1>1. n \in Nat /\ \A k \in 1..n : k - 1 \in 0..n /\ k \in 0..n /\ k # 0 /\ ms[k] \in Messages
  OBVIOUS
<1>2. 0 \in 0..n /\ n \in 0..n
  BY <1>1
<1>3. <<>> \in T[0]
  BY <1>2
<1>4. ASSUME NEW k \in 1..n, NEW a \in A
      PROVE  F[<<k, a>>] = Join(a, ms[k]) /\ F[<<k, a>>] \in A
  <2>1. F[<<k, a>>] = Join(a, ms[k])
    OBVIOUS
  <2>2. ms[k] \in Messages
    BY <1>1
  <2> HIDE DEF F
  <2>3. QED
    BY <2>1, <2>2, JoinShape
<1>5. (\A k \in 1..n : T[k] = A /\ T[k - 1] = A) /\ \A k \in 0..n : T[k] = A
  BY <1>1
<1> HIDE DEF T, F, A
<1>6. PICK f : Follows(f, <<>>, F, n) /\ \A k \in 0..n : f[k] \in T[k]
  <2>1. \A k \in 1..n : \A a \in T[k - 1] : F[<<k, a>>] \in T[k]
    BY <1>4, <1>5, Zenon
  <2> HIDE DEF n
  <2>2. QED
    BY <1>1, <1>3, <2>1, FollowsThrough
<1>7. f = [k \in 0..n |-> IF k = 0 THEN <<>> ELSE Join(f[k - 1], ms[k])]
  <2>1. f = [k \in 0..n |-> IF k = 0 THEN <<>> ELSE F[<<k, f[k - 1]>>]]
    BY <1>6 DEF Follows
  <2>2. \A k \in 1..n : F[<<k, f[k - 1]>>] = Join(f[k - 1], ms[k])
    BY <1>1, <1>4, <1>5, <1>6
  <2>3. \A k \in 0..n : k # 0 => k \in 1..n
    BY <1>1
  <2>4. \A k \in 0..n : (IF k = 0 THEN <<>> ELSE F[<<k, f[k - 1]>>])
                      = (IF k = 0 THEN <<>> ELSE Join(f[k - 1], ms[k]))
    BY <2>2, <2>3
  <2>5. QED
    BY <2>1, <2>4
<1> DEFINE G(g) == g = [k \in 0..Len(ms) |-> IF k = 0 THEN <<>> ELSE Join(g[k - 1], ms[k])]
           c == CHOOSE g : G(g)
<1>8. G(c) /\ Joined(ms) = c[Len(ms)]
  <2>1. \E g : G(g)
    BY <1>7
  <2>2. Joined(ms) = c[Len(ms)]
    BY DEF Joined
  <2> HIDE DEF G
  <2>3. QED
    BY <2>1, <2>2
<1>9. c[0] = <<>> /\ \A k \in 1..n : c[k] = Join(c[k - 1], ms[k])
  <2> HIDE DEF c
  <2>1. c = [k \in 0..n |-> IF k = 0 THEN <<>> ELSE Join(c[k - 1], ms[k])]
    BY <1>8
  <2> HIDE DEF G, n
  <2>2. c[0] = <<>>
    BY <1>2, <2>1
  <2>3. ASSUME NEW k \in 1..n
        PROVE  c[k] = Join(c[k - 1], ms[k])
    <3>1. k \in 0..n /\ k # 0
      BY <1>1
    <3>2. c[k] = IF k = 0 THEN <<>> ELSE Join(c[k - 1], ms[k])
      BY <2>1, <3>1
    <3>3. QED
      BY <3>1, <3>2
  <2>4. QED
    BY <2>2, <2>3
<1> HIDE DEF c, G
<1>10. \A k \in 0..n : c[k] \in T[k]
  <2>1. c[0] \in T[0]
    BY <1>3, <1>9
  <2> HIDE DEF n
  <2>2. ASSUME NEW k \in 1..n, c[k - 1] \in T[k - 1]
        PROVE  c[k] \in T[k]
    <3>1. T[k] = A /\ T[k - 1] = A
      BY <1>5
    <3>2. F[<<k, c[k - 1]>>] = Join(c[k - 1], ms[k]) /\ F[<<k, c[k - 1]>>] \in A
      BY <1>4, <2>2, <3>1
    <3>3. c[k] = Join(c[k - 1], ms[k])
      BY <1>9
    <3>4. QED
      BY <3>1, <3>2, <3>3
  <2>3. QED
    BY <1>1, <2>1, <2>2, GoesThrough
<1>11. \A k \in 0..n : c[k] \in Seq(Line)
  BY <1>5, <1>10 DEF A
<1>12. JoinedBy(c, ms)
  BY <1>9 DEF JoinedBy
<1>13. QED
  BY <1>8, <1>11, <1>12

\* ... and no others.
LEMMA JoinedIs ==
  ASSUME NEW ms \in Seq(Messages), NEW j, JoinedBy(j, ms)
  PROVE  Joined(ms) = j[Len(ms)] /\ \A k \in 0..Len(ms) : j[k] \in Seq(Line)
<1>1. PICK c : JoinedBy(c, ms) /\ Joined(ms) = c[Len(ms)] /\ \A k \in 0..Len(ms) : c[k] \in Seq(Line)
  BY JoinedFollows
<1> DEFINE n == Len(ms)
           P == {k \in 0..n : c[k] = j[k]}
<1>2. n \in Nat /\ n \in 0..n /\ \A k \in 1..n : k - 1 \in 0..n /\ k \in 0..n
  OBVIOUS
<1>3. 0 \in P
  BY <1>1, <1>2 DEF JoinedBy
<1>4. ASSUME NEW k \in 1..n, k - 1 \in P
      PROVE  k \in P
  BY <1>1, <1>2, <1>4 DEF JoinedBy
<1> HIDE DEF P, n
<1>5. \A k \in 0..n : k \in P
  BY <1>2, <1>3, <1>4, UpTo
<1>6. \A k \in 0..n : c[k] = j[k]
  BY <1>5 DEF P
<1>7. QED
  BY <1>1, <1>2, <1>6 DEF n

\* Lists whose messages are of the same frames, roles and texts have the same lines.
Alike(ms, xs) ==
  /\ Len(xs) = Len(ms)
  /\ \A i \in 1..Len(ms) : xs[i].role = ms[i].role /\ xs[i].first = ms[i].first /\ xs[i].text = ms[i].text

\* Numbers and summaries are not in the lines.
LEMMA JoinedAlike ==
  ASSUME NEW ms \in Seq(Messages), NEW xs \in Seq(Messages), Alike(ms, xs)
  PROVE  Joined(xs) = Joined(ms)
<1>1. PICK j : JoinedBy(j, ms) /\ Joined(ms) = j[Len(ms)]
  BY JoinedFollows
<1>2. Len(xs) = Len(ms)
  BY DEF Alike
<1>3. ASSUME NEW k \in 1..Len(ms)
      PROVE  j[k] = Join(j[k - 1], xs[k])
  <2>1. j[k] = Join(j[k - 1], ms[k])
    BY <1>1 DEF JoinedBy
  <2>2. xs[k].role = ms[k].role /\ xs[k].first = ms[k].first /\ xs[k].text = ms[k].text
    BY DEF Alike
  <2>3. QED
    BY <2>1, <2>2 DEF Join
<1>4. JoinedBy(j, xs)
  BY <1>1, <1>2, <1>3 DEF JoinedBy
<1>5. QED
  BY <1>1, <1>2, <1>4, JoinedIs

\* A list that begins with another joins what that one makes with the rest.
LEMMA JoinedNext ==
  ASSUME NEW ms \in Seq(Messages), NEW xs \in Seq(Messages), NEW n \in Nat, n < Len(xs), n <= Len(ms),
         \A i \in 1..n : xs[i] = ms[i], NEW j, JoinedBy(j, ms)
  PROVE  Len(xs) = n + 1 => Joined(xs) = Join(j[n], xs[n + 1])
<1> SUFFICES ASSUME Len(xs) = n + 1 PROVE Joined(xs) = Join(j[n], xs[n + 1])
  OBVIOUS
<1>1. PICK c : JoinedBy(c, xs) /\ Joined(xs) = c[Len(xs)]
  BY JoinedFollows
<1> DEFINE P == {k \in 0..n : c[k] = j[k]}
<1>2. /\ n \in 0..n /\ n + 1 \in 1..Len(xs) /\ (n + 1) - 1 = n
      /\ \A k \in 1..n : k - 1 \in 0..n /\ k \in 0..n /\ k \in 1..Len(xs) /\ k \in 1..Len(ms)
  OBVIOUS
<1>3. 0 \in P
  BY <1>1 DEF JoinedBy
<1>4. ASSUME NEW k \in 1..n, k - 1 \in P
      PROVE  k \in P
  <2>1. c[k] = Join(c[k - 1], xs[k]) /\ j[k] = Join(j[k - 1], ms[k])
    BY <1>1, <1>2 DEF JoinedBy
  <2>2. c[k - 1] = j[k - 1] /\ xs[k] = ms[k]
    BY <1>4
  <2>3. QED
    BY <1>2, <2>1, <2>2
<1> HIDE DEF P
<1>5. \A k \in 0..n : k \in P
  BY <1>3, <1>4, UpTo
<1>6. c[n] = j[n]
  BY <1>2, <1>5 DEF P
<1>7. c[n + 1] = Join(c[n], xs[n + 1])
  BY <1>1, <1>2 DEF JoinedBy
<1>8. QED
  BY <1>1, <1>6, <1>7

\* A message at the end of a list is joined to its lines.
LEMMA JoinedAppended ==
  ASSUME NEW ms \in Seq(Messages), NEW g, NEW x \in Seq(Messages), Appended(ms, g, x)
  PROVE  /\ Joined(x) = Join(Joined(ms), g) /\ g \in Messages /\ Joined(ms) \in Seq(Line)
         /\ Len(x) = Len(ms) + 1
<1>1. PICK j : JoinedBy(j, ms) /\ Joined(ms) = j[Len(ms)] /\ \A k \in 0..Len(ms) : j[k] \in Seq(Line)
  BY JoinedFollows
<1>2. Len(ms) \in Nat /\ Len(x) \in Nat /\ DOMAIN x = 1..Len(x)
  OBVIOUS
<1>3. Len(x) = Len(ms) + 1
  BY <1>2 DEF Appended
<1>4. (\A i \in 1..Len(ms) : x[i] = ms[i]) /\ x[Len(ms) + 1] = g
  BY DEF Appended
<1>5. g \in Messages
  BY <1>2, <1>3, <1>4
<1>6. Len(ms) < Len(x) /\ Len(ms) <= Len(ms)
  BY <1>2, <1>3
<1>7. Joined(x) = Join(j[Len(ms)], x[Len(ms) + 1])
  BY <1>1, <1>2, <1>3, <1>4, <1>6, JoinedNext
<1>8. QED
  BY <1>1, <1>2, <1>3, <1>4, <1>5, <1>7

\* The last message of a list is joined to the lines of those before it.
LEMMA JoinedExchanged ==
  ASSUME NEW ms \in Seq(Messages), NEW g, NEW x \in Seq(Messages), Exchanged(ms, Len(ms), g, x)
  PROVE  \E o \in Seq(Line) : Joined(ms) = Join(o, ms[Len(ms)]) /\ Joined(x) = Join(o, g)
<1>1. PICK j : JoinedBy(j, ms) /\ Joined(ms) = j[Len(ms)] /\ \A k \in 0..Len(ms) : j[k] \in Seq(Line)
  BY JoinedFollows
<1>2. Len(ms) \in Nat /\ Len(x) \in Nat /\ DOMAIN x = 1..Len(x) /\ DOMAIN x = 1..Len(ms) /\ Len(ms) \in 1..Len(ms)
  BY DEF Exchanged
<1> DEFINE n == Len(ms) - 1
<1>3. Len(x) = Len(ms) /\ Len(x) = n + 1 /\ n \in Nat /\ n \in 0..Len(ms) /\ n < Len(x) /\ n <= Len(ms)
  BY <1>2
<1>4. (\A i \in 1..n : x[i] = ms[i]) /\ x[n + 1] = g
  <2>1. (\A i \in 1..Len(ms) : i # Len(ms) => x[i] = ms[i]) /\ x[Len(ms)] = g
    BY DEF Exchanged
  <2>2. n + 1 = Len(ms) /\ \A i \in 1..n : i \in 1..Len(ms) /\ i # Len(ms)
    BY <1>2
  <2> HIDE DEF n
  <2>3. QED
    BY <2>1, <2>2
<1> HIDE DEF n
<1>5. Joined(x) = Join(j[n], g)
  BY <1>1, <1>3, <1>4, JoinedNext
<1>6. Joined(ms) = Join(j[n], ms[Len(ms)])
  BY <1>1, <1>2 DEF JoinedBy, n
<1>7. j[n] \in Seq(Line)
  BY <1>1, <1>3
<1>8. QED
  BY <1>5, <1>6, <1>7

\* The last line is of the last message's role.
LEMMA JoinedEnd ==
  ASSUME NEW ms \in Seq(Messages)
  PROVE  /\ Joined(ms) \in Seq(Line)
         /\ Len(ms) = 0 => Joined(ms) = <<>>
         /\ Len(ms) > 0 => Joined(ms) # <<>> /\ Joined(ms)[Len(Joined(ms))].role = ms[Len(ms)].role
<1>1. PICK j : JoinedBy(j, ms) /\ Joined(ms) = j[Len(ms)] /\ \A k \in 0..Len(ms) : j[k] \in Seq(Line)
  BY JoinedFollows
<1>2. Len(ms) \in Nat /\ Len(ms) \in 0..Len(ms)
  OBVIOUS
<1>3. CASE Len(ms) > 0
  <2>1. Len(ms) \in 1..Len(ms) /\ Len(ms) - 1 \in 0..Len(ms) /\ ms[Len(ms)] \in Messages
    BY <1>2, <1>3
  <2>2. PICK o \in Seq(Line) : Joined(ms) = Join(o, ms[Len(ms)])
    BY <1>1, <2>1 DEF JoinedBy
  <2> DEFINE m == ms[Len(ms)]
             l == Joined(ms)
  <2>3. l = Join(o, m) /\ m \in Messages
    BY <2>1, <2>2
  <2> HIDE DEF m, l
  <2>4. CASE Adds(o, m)
    <3>1. Exchanged(o, Len(o), Extended(o[Len(o)], m.text), l) /\ l \in Seq(Line) /\ o[Len(o)].role = m.role
      BY <2>3, <2>4, JoinShape DEF Adds
    <3>2. DOMAIN l = 1..Len(o) /\ Len(o) \in 1..Len(o) /\ l[Len(o)] = Extended(o[Len(o)], m.text) /\ Len(o) \in Nat
      BY <3>1 DEF Exchanged
    <3>3. Len(l) = Len(o) /\ l # <<>>
      BY <3>1, <3>2
    <3>4. o[Len(o)] \in Line
      BY <3>2
    <3>5. Extended(o[Len(o)], m.text).role = o[Len(o)].role
      BY <3>4 DEF Extended, Line
    <3>6. QED
      BY <1>3, <3>1, <3>2, <3>3, <3>5 DEF m, l
  <2>5. CASE ~Adds(o, m)
    <3>1. Appended(o, LineOf(m), l) /\ l \in Seq(Line)
      BY <2>3, <2>5, JoinShape
    <3>2. DOMAIN l = 1..(Len(o) + 1) /\ l[Len(o) + 1] = LineOf(m) /\ Len(o) \in Nat
      BY <3>1 DEF Appended
    <3>3. Len(l) = Len(o) + 1 /\ l # <<>>
      BY <3>1, <3>2
    <3>4. QED
      BY <1>3, <3>1, <3>2, <3>3 DEF m, l, LineOf
  <2>6. QED
    BY <2>4, <2>5
<1>4. CASE Len(ms) = 0
  BY <1>1, <1>2, <1>4 DEF JoinedBy
<1>5. QED
  BY <1>1, <1>2, <1>3, <1>4

\* The last of some lines has one text more.
OneMore(l, n) == [role |-> l.role, first |-> l.first, text |-> Append(l.text, n)]
Longer(o, n, x) == Exchanged(o, Len(o), OneMore(o[Len(o)], n), x)

\* A line with its text replaced.
LEMMA LineWith ==
  ASSUME NEW r, NEW f, NEW t, NEW u
  PROVE  [[role |-> r, first |-> f, text |-> t] EXCEPT !.text = u] = [role |-> r, first |-> f, text |-> u]
OBVIOUS

\* A line extended by a sequence.
LEMMA LineExtended ==
  ASSUME NEW r, NEW f, NEW t, NEW s
  PROVE  Extended([role |-> r, first |-> f, text |-> t], s) = [role |-> r, first |-> f, text |-> t \o s]
<1>1. PICK u : u = t \o s
  OBVIOUS
<1>2. [role |-> r, first |-> f, text |-> t].text = t
  OBVIOUS
<1>3. Extended([role |-> r, first |-> f, text |-> t], s) = [[role |-> r, first |-> f, text |-> t] EXCEPT !.text = u]
  BY <1>1, <1>2, Zenon DEF Extended
<1>4. QED
  BY <1>1, <1>3, LineWith, Zenon

\* A text goes to the end of what a line is extended by.
LEMMA ExtendedAppend ==
  ASSUME NEW l \in Line, NEW s \in Seq(Nat), NEW n \in Nat
  PROVE  Extended(l, Append(s, n)) = OneMore(Extended(l, s), n)
<1>1. PICK r, f, t : l = [role |-> r, first |-> f, text |-> t] /\ t \in Seq(Nat)
  BY DEF Line
<1>2. t \o s \in Seq(Nat) /\ <<n>> \in Seq(Nat)
  BY <1>1
<1>3. t \o Append(s, n) = Append(t \o s, n)
  <2>1. Append(s, n) = s \o <<n>> /\ Append(t \o s, n) = (t \o s) \o <<n>>
    BY <1>2, AppendIsConcat
  <2>2. (t \o s) \o <<n>> = t \o (s \o <<n>>)
    BY <1>1, <1>2, ConcatAssociative
  <2>3. QED
    BY <2>1, <2>2
<1>4. PICK e, u, v : e = Extended(l, s) /\ u = t \o s /\ v = Append(s, n)
  OBVIOUS
<1>5. e = [role |-> r, first |-> f, text |-> u]
  <2>1. Extended(l, s) = [role |-> r, first |-> f, text |-> t \o s]
    BY <1>1, LineExtended
  <2>2. QED
    BY <1>4, <2>1, Zenon
<1>6. OneMore(e, n) = [role |-> r, first |-> f, text |-> Append(u, n)]
  BY <1>5 DEF OneMore
<1>7. Extended(l, v) = [role |-> r, first |-> f, text |-> t \o v]
  BY <1>1, LineExtended
<1>8. QED
  BY <1>3, <1>4, <1>6, <1>7

\* A line extended by one text.
LEMMA ExtendedOne ==
  ASSUME NEW l \in Line, NEW n \in Nat
  PROVE  Extended(l, <<n>>) = OneMore(l, n)
<1>1. PICK r, f, t : l = [role |-> r, first |-> f, text |-> t] /\ t \in Seq(Nat)
  BY DEF Line
<1>2. t \o <<n>> = Append(t, n)
  BY <1>1, AppendIsConcat
<1>3. PICK v : v = <<n>>
  OBVIOUS
<1>4. Extended(l, v) = [role |-> r, first |-> f, text |-> t \o v]
  BY <1>1, LineExtended
<1>5. OneMore(l, n) = [role |-> r, first |-> f, text |-> Append(t, n)]
  BY <1>1 DEF OneMore
<1>6. QED
  BY <1>2, <1>3, <1>4, <1>5

\* A bubble that grows makes its line longer,
LEMMA JoinGrown ==
  ASSUME NEW o \in Seq(Line), NEW m \in Messages, NEW n \in Nat
  PROVE  Longer(Join(o, m), n, Join(o, Grown(m, n)))
<1>1. /\ m.role \in Roles /\ m.text \in Seq(Nat) /\ Append(m.text, n) \in Seq(Nat)
      /\ Len(o) \in Nat /\ DOMAIN o = 1..Len(o)
  BY DEF Messages
<1> DEFINE g == Grown(m, n)
           x == Join(o, m)
           y == Join(o, g)
<1>2. g \in Messages /\ g.role = m.role /\ g.first = m.first /\ g.text = Append(m.text, n)
  BY <1>1, MessageFields
<1> HIDE DEF g
<1>3. x \in Seq(Line) /\ y \in Seq(Line)
  BY <1>2, JoinShape
<1>4. CASE Adds(o, m)
  <2> DEFINE l == o[Len(o)]
  <2>1. Exchanged(o, Len(o), Extended(o[Len(o)], m.text), Join(o, m))
    BY <1>4, JoinShape
  <2>2. Exchanged(o, Len(o), Extended(o[Len(o)], g.text), Join(o, g))
    <3>1. Adds(o, g)
      BY <1>2, <1>4 DEF Adds
    <3>2. QED
      BY <1>2, <3>1, JoinShape
  <2>3. Exchanged(o, Len(o), Extended(l, m.text), x) /\ Exchanged(o, Len(o), Extended(l, g.text), y)
    BY <2>1, <2>2
  <2>4. l \in Line
    <3>1. Len(o) \in 1..Len(o)
      BY <2>1 DEF Exchanged
    <3>2. QED
      BY <1>1, <3>1
  <2> HIDE DEF x, y, l
  <2>5. Extended(l, g.text) = OneMore(Extended(l, m.text), n)
    <3>1. PICK s \in Seq(Nat) : s = m.text
      BY <1>1
    <3>2. g.text = Append(s, n)
      BY <1>2, <3>1
    <3>3. Extended(l, Append(s, n)) = OneMore(Extended(l, s), n)
      BY <2>4, ExtendedAppend
    <3>4. QED
      BY <3>1, <3>2, <3>3
  <2>6. DOMAIN x = 1..Len(o)
    BY <2>3 DEF Exchanged
  <2>7. Len(x) = Len(o)
    BY <1>1, <1>3, <2>6
  <2>8. QED
    BY <2>3, <2>5, <2>7, Zenon DEF Exchanged, Longer, x, y, g
<1>5. CASE ~Adds(o, m)
  <2>1. Appended(o, LineOf(m), Join(o, m))
    BY <1>5, JoinShape
  <2>2. Appended(o, LineOf(g), Join(o, g))
    <3>1. ~Adds(o, g)
      BY <1>2, <1>5 DEF Adds
    <3>2. QED
      BY <1>2, <3>1, JoinShape
  <2>3. Appended(o, LineOf(m), x) /\ Appended(o, LineOf(g), y)
    BY <2>1, <2>2
  <2> HIDE DEF x, y
  <2>4. LineOf(g) = OneMore(LineOf(m), n)
    BY <1>2 DEF LineOf, OneMore
  <2>5. DOMAIN x = 1..(Len(o) + 1)
    BY <2>3 DEF Appended
  <2>6. Len(x) = Len(o) + 1
    BY <1>1, <1>3, <2>5
  <2>7. (\A i \in 1..(Len(o) + 1) : i # Len(o) + 1 => i \in 1..Len(o)) /\ Len(o) + 1 \in 1..(Len(o) + 1)
    BY <1>1
  <2>8. QED
    BY <2>3, <2>4, <2>6, <2>7 DEF Appended, Exchanged, Longer, x, y, g
<1>6. QED
  BY <1>4, <1>5

\* ... and so does a new bubble of its role.
LEMMA JoinBubble ==
  ASSUME NEW o \in Seq(Line), NEW b \in Messages, Adds(o, b), NEW n \in Nat, b.text = <<n>>
  PROVE  Longer(o, n, Join(o, b))
<1>1. Exchanged(o, Len(o), Extended(o[Len(o)], b.text), Join(o, b))
  BY JoinShape
<1>2. o[Len(o)] \in Line
  BY <1>1 DEF Exchanged
<1>3. Extended(o[Len(o)], b.text) = OneMore(o[Len(o)], n)
  <2> DEFINE l == o[Len(o)]
  <2>1. l \in Line
    BY <1>2
  <2> HIDE DEF l
  <2>2. Extended(l, <<n>>) = OneMore(l, n)
    BY <2>1, ExtendedOne
  <2>3. QED
    BY <2>2 DEF l
<1>4. QED
  BY <1>1, <1>3 DEF Longer

\* Growth of a list's last message, in its lines.
LEMMA JoinedGrown ==
  ASSUME NEW ms \in Seq(Messages), NEW n \in Nat, NEW x \in Seq(Messages),
         Exchanged(ms, Len(ms), Grown(ms[Len(ms)], n), x)
  PROVE  Longer(Joined(ms), n, Joined(x))
<1>1. ms[Len(ms)] \in Messages
  BY DEF Exchanged
<1>2. PICK o \in Seq(Line) : Joined(ms) = Join(o, ms[Len(ms)]) /\ Joined(x) = Join(o, Grown(ms[Len(ms)], n))
  BY JoinedExchanged
<1> DEFINE m == ms[Len(ms)]
<1>3. m \in Messages /\ Joined(ms) = Join(o, m) /\ Joined(x) = Join(o, Grown(m, n))
  BY <1>1, <1>2
<1> HIDE DEF m
<1>4. Longer(Join(o, m), n, Join(o, Grown(m, n)))
  BY <1>3, JoinGrown
<1>5. QED
  BY <1>3, <1>4

\* There is one way to make lines longer.
LEMMA LongerOnce ==
  ASSUME NEW o \in Seq(Line), NEW n, NEW x \in Seq(Line), NEW y \in Seq(Line), Longer(o, n, x), Longer(o, n, y)
  PROVE  x = y
<1> DEFINE g == OneMore(o[Len(o)], n)
<1>1. Exchanged(o, Len(o), g, x) /\ Exchanged(o, Len(o), g, y)
  BY DEF Longer
<1> HIDE DEF g
<1>2. QED
  BY <1>1, OneOutcome

----------------------------------------------------------------------------
(* The chat of the whole log *)

\* The numbers of the first h frames, and the chats of the log's beginnings.
Whole(h) == [n \in 1..h |-> n]
All == ChatOf(Whole(Len(log)))

\* The first frames are frames.
LEMMA WholeNumbers ==
  ASSUME log \in Seq(Frames), NEW h \in 0..Len(log)
  PROVE  /\ Numbers(Whole(h)) /\ Len(Whole(h)) = h
         /\ \A k \in 1..h : Whole(h)[k] = k
         /\ \A k \in 0..h : EndsAt(Whole(h), k) = k
<1>1. h \in Nat /\ h <= Len(log) /\ Len(log) \in Nat
  OBVIOUS
<1>2. Whole(h) \in Seq(Nat) /\ Len(Whole(h)) = h /\ DOMAIN Whole(h) = 1..h
  BY <1>1 DEF Whole
<1>3. \A k \in 1..h : Whole(h)[k] = k
  BY DEF Whole
<1>4. Numbers(Whole(h))
  BY <1>1, <1>2, <1>3 DEF Numbers
<1>5. \A k \in 0..h : EndsAt(Whole(h), k) = k
  BY <1>1, <1>3 DEF EndsAt
<1>6. QED
  BY <1>2, <1>3, <1>4, <1>5

\* c has the chats of the first h frames.
Grows(c, h) == c[0] = NoChat /\ \A k \in 1..h : c[k] = ChatStep(c[k - 1], k)

\* The chat of the first frames grows with each.
LEMMA WholeGrows ==
  ASSUME log \in Seq(Frames), NEW h \in 0..Len(log)
  PROVE  /\ Grows(ChatOf(Whole(h)), h) /\ aggregateChat(Whole(h)) = ChatOf(Whole(h))[h].out
         /\ \A k \in 0..h : ChatOf(Whole(h))[k] \in Chats(k)
<1>1. PICK ns : ns = Whole(h)
  OBVIOUS
<1>2. /\ Numbers(ns) /\ Len(ns) = h /\ \A k \in 1..h : ns[k] = k
      /\ \A k \in 0..h : EndsAt(ns, k) = k
  BY <1>1, WholeNumbers
<1>3. /\ ChatOf(ns)[0] = NoChat
      /\ \A k \in 1..h : ChatOf(ns)[k] = ChatStep(ChatOf(ns)[k - 1], ns[k])
      /\ \A k \in 0..h : ChatOf(ns)[k] \in ChatsTold(ns, k)
  BY <1>2, ChatOfFollows
<1>4. \A k \in 0..h : ChatOf(ns)[k] \in Chats(k)
  BY <1>2, <1>3 DEF ChatsTold
<1>5. aggregateChat(ns) = ChatOf(ns)[h].out
  BY <1>2 DEF aggregateChat
<1>6. QED
  BY <1>1, <1>2, <1>3, <1>4, <1>5 DEF Grows

\* ... and there is one way to.
LEMMA GrowsOnce ==
  ASSUME NEW h \in Nat, NEW c, NEW d, Grows(c, h), Grows(d, h)
  PROVE  \A k \in 0..h : d[k] = c[k]
<1> DEFINE P == {k \in 0..h : d[k] = c[k]}
<1>1. 0 \in P
  BY DEF Grows
<1>2. ASSUME NEW k \in 1..h, k - 1 \in P
      PROVE  k \in P
  BY <1>2 DEF Grows
<1> HIDE DEF P
<1>3. \A k \in 0..h : k \in P
  BY <1>1, <1>2, UpTo
<1>4. QED
  BY <1>3 DEF P

\* The chats of the log's beginnings are those of the whole log.
LEMMA AllBegins ==
  ASSUME log \in Seq(Frames)
  PROVE  /\ Grows(All, Len(log)) /\ Len(log) \in Nat
         /\ \A h \in 0..Len(log) : /\ All[h] \in Chats(h)
                                   /\ aggregateChat(Whole(h)) = All[h].out
<1>1. Len(log) \in Nat /\ Len(log) \in 0..Len(log)
  OBVIOUS
<1>2. Grows(All, Len(log)) /\ \A h \in 0..Len(log) : All[h] \in Chats(h)
  BY <1>1, WholeGrows DEF All
<1>3. ASSUME NEW h \in 0..Len(log)
      PROVE  aggregateChat(Whole(h)) = All[h].out
  <2>1. PICK c : c = ChatOf(Whole(h)) /\ Grows(c, h) /\ aggregateChat(Whole(h)) = c[h].out
    BY WholeGrows
  <2>2. Grows(All, h)
    BY <1>1, <1>2 DEF Grows
  <2>3. \A k \in 0..h : All[k] = c[k]
    BY <1>1, <2>1, <2>2, GrowsOnce
  <2>4. QED
    BY <1>1, <2>1, <2>3
<1>4. QED
  BY <1>1, <1>2, <1>3

\* ... after a step too.
LEMMA AllBeginsNext == (log \in Seq(Frames))' => Grows(All, Len(log))'
<1>1. log \in Seq(Frames) => Grows(All, Len(log))
  BY AllBegins
<1>2. QED
  BY <1>1, PTL

\* A frame makes of a chat what it did before.
LEMMA ChatStepStays ==
  ASSUME NEW a, NEW n, log'[n] = log[n]
  PROVE  ChatStep(a, n)' = ChatStep(a, n)
BY DEF ChatStep, Bubble, Grown, Tool, Ended

\* The chats of the log's beginnings stay.
LEMMA AllStays ==
  ASSUME LogStays
  PROVE  \A h \in 0..Len(log) : All'[h] = All[h]
<1>1. /\ log \in Seq(Frames) /\ Len(log) \in Nat /\ Len(log') \in Nat /\ Len(log) <= Len(log')
      /\ \A n \in 1..Len(log) : log'[n] = log[n] /\ n \in 1..Len(log')
  BY DEF LogStays
<1>2. PICK c : c = All /\ Grows(c, Len(log))
  BY <1>1, AllBegins
<1>3. PICK d : d = All' /\ d[0] = NoChat /\ \A k \in 1..Len(log') : d[k] = ChatStep(d[k - 1], k)'
  <2>1. (log \in Seq(Frames))'
    BY DEF LogStays
  <2>2. Grows(All, Len(log))'
    BY <2>1, AllBeginsNext
  <2>3. All'[0] = NoChat /\ \A k \in 1..Len(log') : All'[k] = ChatStep(All[k - 1], k)'
    BY <2>2 DEF Grows, NoChat
  <2>4. QED
    BY <2>3
<1>5. ASSUME NEW k \in 1..Len(log)
      PROVE  d[k] = ChatStep(d[k - 1], k)
  <2>1. PICK b : b = d[k - 1]
    OBVIOUS
  <2>2. ChatStep(b, k)' = ChatStep(b, k)
    BY <1>1, ChatStepStays
  <2>3. QED
    BY <1>1, <1>3, <2>1, <2>2
<1>6. Grows(d, Len(log))
  BY <1>3, <1>5 DEF Grows
<1>7. \A k \in 0..Len(log) : d[k] = c[k]
  BY <1>1, <1>2, <1>6, GrowsOnce
<1>8. QED
  BY <1>2, <1>3, <1>7

\* No two messages begin with one frame, and a tool without a result is where
\* the chat says, one of its own frames.
Apart(ms) == \A i, j \in DOMAIN ms : i # j => ms[i].first # ms[j].first
Named(out, tools) == \A t \in Tools : tools[t] > 0 => log[out[tools[t]].first].of = t
Exact(c) == Apart(c.out) /\ Named(c.out, c.tools)

\* x begins with messages of the frames those of ms are of.
SameFirsts(ms, x) == \A i \in DOMAIN ms : i \in DOMAIN x /\ x[i].first = ms[i].first

\* A message replaced by one of its frame leaves the messages apart,
LEMMA ApartExchanged ==
  ASSUME NEW S, NEW ms \in Seq(S), Apart(ms), NEW k, NEW g, g.first = ms[k].first, NEW x, Exchanged(ms, k, g, x)
  PROVE  Apart(x) /\ SameFirsts(ms, x)
<1>1. DOMAIN ms = 1..Len(ms) /\ DOMAIN x = 1..Len(ms)
  BY DEF Exchanged
<1>2. \A i \in 1..Len(ms) : x[i].first = ms[i].first
  BY DEF Exchanged
<1>3. QED
  BY <1>1, <1>2 DEF Apart, SameFirsts

\* ... and so does one of a new frame.
LEMMA ApartAppended ==
  ASSUME NEW p \in Nat, NEW n \in Nat, p < n, NEW ms \in Seq(Upto(p)), Apart(ms), NEW g, g.first = n,
         NEW x, Appended(ms, g, x)
  PROVE  Apart(x) /\ SameFirsts(ms, x)
<1>1. DOMAIN ms = 1..Len(ms) /\ DOMAIN x = 1..(Len(ms) + 1) /\ Len(ms) \in Nat
  BY DEF Appended
<1>2. (\A i \in 1..Len(ms) : x[i] = ms[i]) /\ x[Len(ms) + 1].first = n
  BY DEF Appended
<1>3. ASSUME NEW i \in 1..Len(ms)
      PROVE  x[i].first = ms[i].first /\ x[i].first # n
  <2>1. ms[i] \in Upto(p)
    BY <1>1
  <2>2. ms[i].first <= p /\ ms[i].first \in Nat
    BY <2>1 DEF Upto, Messages
  <2>3. QED
    BY <1>2, <2>2
<1>4. \A i \in 1..(Len(ms) + 1) : i \in 1..Len(ms) \/ i = Len(ms) + 1
  BY <1>1
<1>5. ASSUME NEW i \in DOMAIN x, NEW j \in DOMAIN x, i # j
      PROVE  x[i].first # x[j].first
  <2>1. CASE i \in 1..Len(ms) /\ j \in 1..Len(ms)
    BY <1>1, <1>3, <1>5, <2>1 DEF Apart
  <2>2. CASE i = Len(ms) + 1 \/ j = Len(ms) + 1
    BY <1>1, <1>2, <1>3, <1>4, <1>5, <2>2
  <2>3. QED
    BY <1>1, <1>4, <2>1, <2>2
<1>6. QED
  BY <1>1, <1>3, <1>5 DEF Apart, SameFirsts

\* The tools that keep their places keep their names.
LEMMA NamedKept ==
  ASSUME NEW out, NEW tools, Named(out, tools), NEW x, NEW t, SameFirsts(out, x),
         \A y \in Tools : tools[y] > 0 => tools[y] \in DOMAIN out,
         \A y \in Tools : t[y] > 0 => t[y] = tools[y] \/ log[x[t[y]].first].of = y
  PROVE  Named(x, t)
BY DEF Named, SameFirsts

\* The chat stays exact.
LEMMA ExactStep ==
  ASSUME log \in Seq(Frames), NEW n \in 1..Len(log), NEW p \in Nat, p < n, NEW c \in Chats(p), Exact(c)
  PROVE  Exact(ChatStep(c, n))
<1> SUFFICES ASSUME NEW out, NEW tools, NEW x, NEW t, NEW len, out = c.out, tools = c.tools,
                    x = ChatStep(c, n).out, t = ChatStep(c, n).tools, len = Len(out)
             PROVE  Exact(ChatStep(c, n))
  OBVIOUS
<1> SUFFICES Apart(x) /\ Named(x, t)
  BY DEF Exact
<1>1. /\ out \in Seq(Upto(p)) /\ tools \in [Tools -> Nat] /\ len \in Nat /\ DOMAIN out = 1..len
      /\ \A y \in Tools : tools[y] <= len
      /\ ChatShape(out, tools, x, t, n) /\ n \in Nat
  BY ChatStepShape
<1>2. Apart(out) /\ Named(out, tools)
  BY DEF Exact
<1>3. \A y \in Tools : tools[y] > 0 => tools[y] \in DOMAIN out
  BY <1>1
<1>4. CASE Merges(out, n)
  <2>1. t = tools /\ Exchanged(out, len, Grown(out[len], n), x)
    BY <1>1, <1>4 DEF ChatShape
  <2>2. Grown(out[len], n).first = out[len].first
    <3>1. len \in DOMAIN out
      BY <1>1, <2>1 DEF Exchanged
    <3>2. out[len] \in Messages
      BY <1>1, <3>1 DEF Upto
    <3>3. QED
      BY <1>1, <3>2, MessageFields
  <2>3. Apart(x) /\ SameFirsts(out, x)
    BY <1>1, <1>2, <2>1, <2>2, ApartExchanged
  <2>4. QED
    BY <1>2, <1>3, <2>1, <2>3, NamedKept
<1>5. CASE Begins(out, n)
  <2>1. t = tools /\ Appended(out, Bubble(n), x)
    BY <1>1, <1>5 DEF ChatShape
  <2>2. Bubble(n).first = n
    BY DEF Bubble
  <2>3. Apart(x) /\ SameFirsts(out, x)
    BY <1>1, <1>2, <2>1, <2>2, ApartAppended
  <2>4. QED
    BY <1>2, <1>3, <2>1, <2>3, NamedKept
<1>6. CASE log[n].kind = "start"
  <2>1. /\ Appended(out, Tool(n), x)
        /\ log[n].of \in Tools /\ t = [tools EXCEPT ![log[n].of] = len + 1]
    BY <1>1, <1>6 DEF ChatShape
  <2>2. Tool(n).first = n
    BY DEF Tool
  <2>3. Apart(x) /\ SameFirsts(out, x)
    BY <1>1, <1>2, <2>1, <2>2, ApartAppended
  <2>4. x[len + 1].first = n
    BY <1>1, <2>1, <2>2 DEF Appended
  <2>5. \A y \in Tools : t[y] = tools[y] \/ (y = log[n].of /\ t[y] = len + 1)
    BY <1>1, <2>1
  <2>6. \A y \in Tools : t[y] > 0 => t[y] = tools[y] \/ log[x[t[y]].first].of = y
    BY <2>4, <2>5
  <2>7. QED
    BY <1>2, <1>3, <2>3, <2>6, NamedKept
<1>7. CASE Ends(tools, n)
  <2> DEFINE k == tools[log[n].of]
  <2>1. /\ Exchanged(out, k, Ended(out[k], n, "ok"), x)
        /\ log[n].of \in Tools /\ t = [tools EXCEPT ![log[n].of] = 0]
    BY <1>1, <1>7 DEF ChatShape
  <2>2. Ended(out[k], n, "ok").first = out[k].first
    <3>1. k \in DOMAIN out
      BY <1>1, <2>1 DEF Exchanged
    <3>2. out[k] \in Messages /\ "ok" \in Summaries
      BY <1>1, <3>1 DEF Upto, Summaries
    <3> HIDE DEF k
    <3>3. QED
      BY <1>1, <3>2, MessageFields, Zenon
  <2>3. \A y \in Tools : t[y] > 0 => t[y] = tools[y]
    BY <1>1, <2>1
  <2> HIDE DEF k
  <2>4. Apart(x) /\ SameFirsts(out, x)
    BY <1>1, <1>2, <2>1, <2>2, ApartExchanged
  <2>5. QED
    BY <1>2, <1>3, <2>3, <2>4, NamedKept
<1>8. CASE ~IsText(n) /\ log[n].kind # "start" /\ ~Ends(tools, n)
  <2>1. x = out /\ t = tools
    BY <1>1, <1>8 DEF ChatShape
  <2>2. QED
    BY <1>2, <2>1
<1>9. QED
  BY <1>4, <1>5, <1>6, <1>7, <1>8 DEF Merges, Begins

\* The chat of each beginning is exact.
LEMMA AllExact ==
  ASSUME log \in Seq(Frames)
  PROVE  \A h \in 0..Len(log) : ListInv(All[h]) /\ Exact(All[h])
<1>1. PICK c, l : c = All /\ l = Len(log) /\ Grows(c, l) /\ l \in Nat /\ \A h \in 0..l : c[h] \in Chats(h)
  BY AllBegins
<1> DEFINE P == {h \in 0..l : ListInv(c[h]) /\ Exact(c[h])}
<1>2. 0 \in P
  <2>1. c[0] = NoChat
    BY <1>1 DEF Grows
  <2>2. ListInv(NoChat) /\ Exact(NoChat)
    BY DEF NoChat, ListInv, Tidy, Exact, Apart, Named
  <2>3. QED
    BY <1>1, <2>1, <2>2
<1>3. ASSUME NEW k \in 1..l, k - 1 \in P
      PROVE  k \in P
  <2>1. /\ c[k] = ChatStep(c[k - 1], k) /\ c[k - 1] \in Chats(k - 1) /\ k \in 1..Len(log)
        /\ k - 1 \in Nat /\ k - 1 < k /\ k \in 0..l
    BY <1>1 DEF Grows
  <2>2. ListInv(c[k - 1]) /\ Exact(c[k - 1])
    BY <1>3
  <2>3. PICK q, b : q = k - 1 /\ b = c[k - 1]
    OBVIOUS
  <2>4. ListInv(ChatStep(b, k)) /\ Exact(ChatStep(b, k))
    BY <2>1, <2>2, <2>3, ListStep, ExactStep
  <2>5. QED
    BY <2>1, <2>3, <2>4
<1> HIDE DEF P
<1>4. \A h \in 0..l : h \in P
  BY <1>1, <1>2, <1>3, UpTo
<1>5. QED
  BY <1>1, <1>4 DEF P

----------------------------------------------------------------------------
(* The stream against the chat *)

\* The last messages of the tools that wait for a result, as a stop has them.
Orphans(w, n) == {Event("update", Ended(w[t], n, "orphan")) : t \in {x \in Tools : w[x] # None}}

\* What a step of the stream's projection does to the tools.
ToolsShape(w, v, es, n) ==
  /\ IsText(n) => v = w
  /\ log[n].kind = "start" => log[n].of \in Tools /\ v = [w EXCEPT ![log[n].of] = Tool(n)]
  /\ log[n].kind = "result" => log[n].of \in Tools
  /\ log[n].kind = "result" /\ w[log[n].of] # None =>
       /\ v = [w EXCEPT ![log[n].of] = None]
       /\ es = <<Event("update", Ended(w[log[n].of], n, "ok"))>>
  /\ log[n].kind = "stop" => v = [t \in Tools |-> None] /\ es = SetToSeq(Orphans(w, n)) \o <<Event("stop", None)>>
  /\ ~IsText(n) /\ log[n].kind \notin {"start", "stop"} /\ ~(log[n].kind = "result" /\ w[log[n].of] # None) =>
       v = w /\ es = <<>>

\* Each step of chatAgg does one of those.
LEMMA AggToolsShape ==
  ASSUME log \in Seq(Frames), NEW n \in 1..Len(log), NEW p \in Nat, NEW a \in Aggs(p)
  PROVE  a.tools \in Waits(p) /\ ToolsShape(a.tools, Step(a, n).agg.tools, Step(a, n).out, n)
<1> SUFFICES ASSUME NEW w, NEW v, NEW es, w = a.tools, v = Step(a, n).agg.tools, es = Step(a, n).out
             PROVE  w \in Waits(p) /\ ToolsShape(w, v, es, n)
  OBVIOUS
<1> DEFINE f == log[n]
           s == Step(a, n)
           open == a.open
<1>1. w \in Waits(p) /\ a = [open |-> open, tools |-> w] /\ DOMAIN w = Tools
  BY DEF Aggs, Waits
<1>2. f.kind \in {"start", "result"} => f.of \in Tools
  BY FrameKind
<1>3. CASE IsText(n) /\ open[f.of] = None
  <2>1. s.agg = [a EXCEPT !.open = [[r \in Texts |-> None] EXCEPT ![f.of] = Bubble(n)]]
    BY <1>3 DEF Step, IsText
  <2>2. v = w
    BY <1>1, <2>1
  <2>3. QED
    BY <1>1, <1>3, <2>2 DEF IsText, ToolsShape
<1>4. CASE IsText(n) /\ open[f.of] # None
  <2>1. s.agg = [a EXCEPT !.open[f.of] = Grown(open[f.of], n)]
    BY <1>4 DEF Step, IsText
  <2>2. v = w
    BY <1>1, <2>1
  <2>3. QED
    BY <1>1, <1>4, <2>2 DEF IsText, ToolsShape
<1>5. CASE f.kind = "start"
  <2>1. s.agg = [open |-> [r \in Texts |-> None], tools |-> [w EXCEPT ![f.of] = Tool(n)]]
    BY <1>5 DEF Step
  <2>2. QED
    BY <1>1, <1>2, <1>5, <2>1 DEF IsText, ToolsShape
<1>6. CASE f.kind = "result" /\ w[f.of] # None
  <2>1. s = [agg |-> [a EXCEPT !.tools[f.of] = None], out |-> <<Event("update", Ended(w[f.of], n, "ok"))>>]
    BY <1>6 DEF Step
  <2>2. v = [w EXCEPT ![f.of] = None] /\ es = <<Event("update", Ended(w[f.of], n, "ok"))>>
    BY <1>1, <2>1
  <2>3. QED
    BY <1>1, <1>2, <1>6, <2>2 DEF IsText, ToolsShape
<1>7. CASE f.kind = "stop"
  <2>1. s = [agg |-> NoAgg, out |-> SetToSeq({Event("update", Ended(w[t], n, "orphan")) : t \in {x \in Tools : w[x] # None}})
                                    \o <<Event("stop", None)>>]
    BY <1>7 DEF Step
  <2>2. v = [t \in Tools |-> None] /\ es = SetToSeq(Orphans(w, n)) \o <<Event("stop", None)>>
    BY <2>1 DEF NoAgg, Orphans
  <2>3. QED
    BY <1>1, <1>7, <2>2 DEF IsText, ToolsShape
<1>8. CASE /\ ~IsText(n) /\ f.kind # "start" /\ ~(f.kind = "result" /\ w[f.of] # None) /\ f.kind # "stop"
  <2>1. s = [agg |-> a, out |-> <<>>]
    BY <1>8 DEF Step, IsText
  <2>2. v = w /\ es = <<>>
    BY <2>1
  <2>3. QED
    BY <1>1, <1>2, <1>8, <2>2 DEF ToolsShape
<1>9. QED
  BY <1>3, <1>4, <1>5, <1>6, <1>7, <1>8

\* Where the stream's projection is exactly the chat's: what is open is the
\* chat's last bubble, and a tool without a result is where the chat has it.
SameOpen(open, out) ==
  \A r \in Texts : open[r] = IF Len(out) > 0 /\ out[Len(out)].role = r THEN out[Len(out)] ELSE None
SameTools(w, out, tools) == \A t \in Tools : w[t] = IF tools[t] > 0 THEN out[tools[t]] ELSE None
Matches(a, c) == SameOpen(a.open, c.out) /\ SameTools(a.tools, c.out, c.tools)

\* The client puts a new message at the end,
LEMMA ReadsAppend ==
  ASSUME NEW p \in Nat, NEW ms \in Seq(Upto(p)), NEW n \in Nat, p <= n, NEW e \in Events(n), e.event = "chat",
         NEW x \in Seq(Upto(n)), Appended(ms, e.msg, x)
  PROVE  Reads(ms, <<e>>) = x
<1>1. PICK y : y = Shown(ms, e) /\ y \in Seq(Upto(n)) /\ Reads(ms, <<e>>) = y
  <2>1. Shown(ms, e) \in Seq(Upto(n)) /\ Reads(ms, <<e>>) = Shown(ms, e)
    BY ShownKind, ReadsOne
  <2>2. QED
    BY <2>1
<1>2. y = Append(ms, e.msg)
  BY <1>1, ShownKind
<1>3. e.msg \in Upto(n) /\ ms \in Seq(Upto(n))
  BY ShownKind, UptoSeq
<1>4. Appended(ms, e.msg, y)
  BY <1>2, <1>3, AppendSet DEF Appended
<1>5. QED
  BY <1>1, <1>3, <1>4, OneOutcome

\* ... and an update in its line's last place.
LEMMA ReadsExchange ==
  ASSUME NEW p \in Nat, NEW ms \in Seq(Upto(p)), NEW n \in Nat, p <= n, NEW e \in Events(n), e.event = "update",
         NEW k \in SameLine(ms, e.msg), \A i \in SameLine(ms, e.msg) : i <= k,
         NEW x \in Seq(Upto(n)), Exchanged(ms, k, e.msg, x)
  PROVE  Reads(ms, <<e>>) = x
<1>1. PICK y : y = Shown(ms, e) /\ y \in Seq(Upto(n)) /\ Reads(ms, <<e>>) = y
  <2>1. Shown(ms, e) \in Seq(Upto(n)) /\ Reads(ms, <<e>>) = Shown(ms, e)
    BY ShownKind, ReadsOne
  <2>2. QED
    BY <2>1
<1>2. PICK j \in SameLine(ms, e.msg) : (\A i \in SameLine(ms, e.msg) : i <= j) /\ Exchanged(ms, j, e.msg, y)
  BY <1>1, ShownShape
<1>3. j \in Nat /\ k \in Nat /\ j <= k /\ k <= j
  BY <1>2 DEF SameLine
<1>4. j = k
  BY <1>3
<1>5. ms \in Seq(Upto(n))
  BY UptoSeq
<1>6. QED
  BY <1>1, <1>2, <1>4, <1>5, OneOutcome

\* What is open after a bubble that grows,
LEMMA OpenGrown ==
  ASSUME NEW S, NEW out \in Seq(S), NEW open, NEW g, NEW x \in Seq(S), Exchanged(out, Len(out), g, x),
         DOMAIN open = Texts, SameOpen(open, out), g.role = out[Len(out)].role
  PROVE  SameOpen([open EXCEPT ![g.role] = g], x)
<1>1. DOMAIN x = 1..Len(out) /\ Len(out) \in 1..Len(out) /\ x[Len(out)] = g
  BY DEF Exchanged
<1>2. Len(x) = Len(out) /\ Len(x) > 0
  BY <1>1
<1>3. ASSUME NEW r \in Texts
      PROVE  [open EXCEPT ![g.role] = g][r] = IF x[Len(x)].role = r THEN x[Len(x)] ELSE None
  <2>1. CASE r = g.role
    BY <1>1, <1>2, <2>1
  <2>2. CASE r # g.role
    <3>1. open[r] = None
      BY <1>2, <2>2 DEF SameOpen
    <3>2. QED
      BY <1>1, <1>2, <2>2, <3>1
  <2>3. QED
    BY <2>1, <2>2
<1>4. QED
  BY <1>2, <1>3 DEF SameOpen

\* ... after a new message,
LEMMA OpenAppended ==
  ASSUME NEW S, NEW out \in Seq(S), NEW g, NEW x \in Seq(S), Appended(out, g, x)
  PROVE  SameOpen([r \in Texts |-> IF r = g.role THEN g ELSE None], x)
<1>1. DOMAIN x = 1..(Len(out) + 1) /\ x[Len(out) + 1] = g /\ Len(out) \in Nat
  BY DEF Appended
<1>2. Len(x) = Len(out) + 1 /\ Len(x) > 0
  BY <1>1
<1>3. QED
  BY <1>1, <1>2 DEF SameOpen

\* ... and after a tool that ends.
LEMMA OpenEnded ==
  ASSUME NEW S, NEW out \in Seq(S), NEW open, SameOpen(open, out), NEW k, NEW g, NEW x \in Seq(S), Exchanged(out, k, g, x),
         out[k].role = "tool", g.role = "tool"
  PROVE  SameOpen(open, x)
<1>1. /\ DOMAIN x = 1..Len(out) /\ k \in 1..Len(out) /\ x[k] = g
      /\ \A i \in 1..Len(out) : i # k => x[i] = out[i]
  BY DEF Exchanged
<1>2. Len(x) = Len(out) /\ Len(x) > 0 /\ Len(x) \in 1..Len(out)
  BY <1>1
<1>3. "tool" \notin Texts
  BY DEF Texts
<1>4. CASE k = Len(x)
  BY <1>1, <1>2, <1>3, <1>4, Zenon DEF SameOpen
<1>5. CASE k # Len(x)
  BY <1>1, <1>2, <1>5, Zenon DEF SameOpen
<1>6. QED
  BY <1>4, <1>5

\* The tools that keep their places keep their messages.
LEMMA ToolsKept ==
  ASSUME NEW out, NEW tools, NEW w, SameTools(w, out, tools), NEW x, NEW t, NEW v,
         \A y \in Tools : \/ v[y] = w[y] /\ t[y] = tools[y] /\ (t[y] > 0 => x[t[y]] = out[t[y]])
                          \/ v[y] = IF t[y] > 0 THEN x[t[y]] ELSE None
  PROVE  SameTools(v, x, t)
BY DEF SameTools

\* The end of a tool leaves its role, its first frame and its text,
LEMMA EndedFields ==
  ASSUME NEW m \in Messages, NEW n \in Nat, NEW u \in Summaries
  PROVE  Ended(m, n, u).role = m.role /\ Ended(m, n, u).first = m.first /\ Ended(m, n, u).text = m.text
BY MessageFields

\* ... and a stream that emits nothing what its client has.
LEMMA ReadsNone ==
  ASSUME NEW p \in Nat, NEW ms \in Seq(Upto(p))
  PROVE  Reads(ms, <<>>) = ms
<1>1. <<>> \in Seq(Events(p)) /\ Len(<<>>) = 0 /\ p <= p
  OBVIOUS
<1>2. PICK es \in Seq(Events(p)) : es = <<>>
  BY <1>1
<1>3. \E v : v[0] = ms /\ Reads(ms, es) = v[Len(es)]
  BY <1>1, ReadsFollows
<1>4. QED
  BY <1>1, <1>2, <1>3

\* Until a stop, the client sees the chat, and the two go on together.
Together(c, a, n) ==
  Matches(Step(a, n).agg, ChatStep(c, n)) /\ Reads(c.out, Step(a, n).out) = ChatStep(c, n).out

\* A frame leaves them so.
LEMMA MatchesStep ==
  ASSUME log \in Seq(Frames), NEW n \in 1..Len(log), NEW p \in Nat, p < n, NEW c \in Chats(p), ListInv(c), Exact(c),
         NEW a \in Aggs(p), Matches(a, c), log[n].kind # "stop"
  PROVE  Together(c, a, n)
<1> SUFFICES ASSUME NEW out, NEW tools, NEW x, NEW t, NEW open, NEW o, NEW w, NEW v, NEW es, NEW len,
                    out = c.out, tools = c.tools, x = ChatStep(c, n).out, t = ChatStep(c, n).tools,
                    open = a.open, o = Step(a, n).agg.open, w = a.tools, v = Step(a, n).agg.tools,
                    es = Step(a, n).out, len = Len(out)
             PROVE  Together(c, a, n)
  OBVIOUS
<1> SUFFICES SameOpen(o, x) /\ SameTools(v, x, t) /\ Reads(out, es) = x
  BY DEF Matches, Together
<1>1. /\ out \in Seq(Upto(p)) /\ tools \in [Tools -> Nat] /\ len \in Nat /\ DOMAIN out = 1..len
      /\ ChatShape(out, tools, x, t, n) /\ n \in Nat /\ p <= n
      /\ \A y \in Tools : tools[y] > 0 => tools[y] \in 1..len
  BY ChatStepShape
<1>2. x \in Seq(Upto(n))
  BY <1>1, ChatStepKind DEF Chats
<1>3. open \in Opens(p) /\ AggShape(open, o, es, n) /\ w \in Waits(p) /\ ToolsShape(w, v, es, n)
  BY AggStepShape, AggToolsShape
<1>4. es \in Seq(Events(n)) /\ SameOpen(open, out) /\ SameTools(w, out, tools)
  BY <1>1, AggStep DEF Matches
<1>5. /\ Apart(out) /\ Named(out, tools) /\ \A y \in Tools : tools[y] > 0 => out[tools[y]].role = "tool"
      /\ \A i \in 1..len : out[i] \in Upto(p) /\ out[i] # None /\ out[i] \in Messages
  BY <1>1, NoneApart DEF Exact, ListInv, Upto
<1>6. DOMAIN open = Texts /\ "tool" \notin Texts /\ (len > 0 => len \in 1..len) /\ (out # <<>> <=> len > 0)
  BY <1>1, <1>3 DEF Opens, Texts
<1>7. DOMAIN w = Tools /\ DOMAIN tools = Tools
  BY <1>1, <1>3 DEF Waits
<1>8. CASE Merges(out, n)
  <2> DEFINE m == out[len]
             g == Grown(m, n)
  <2>1. IsText(n) /\ Last(out) = m /\ t = tools /\ Exchanged(out, len, g, x) /\ m.role = log[n].of /\ len > 0 /\ len \in 1..len
    BY <1>1, <1>6, <1>8 DEF ChatShape, Merges
  <2>2. log[n].of \in Texts /\ open[log[n].of] = m /\ m # None /\ m \in Messages
    BY <1>3, <1>4, <1>5, <2>1 DEF AggShape, SameOpen
  <2>3. o = [open EXCEPT ![log[n].of] = g] /\ es = <<Event("update", g)>> /\ v = w
    BY <1>3, <2>1, <2>2 DEF AggShape, ToolsShape
  <2>4. g.role = m.role
    BY <1>1, <2>2, MessageFields
  <2>5. SameOpen(o, x)
    <3>1. out \in Seq(Upto(n))
      BY <1>1, UptoSeq
    <3>2. o = [open EXCEPT ![g.role] = g] /\ g.role = out[Len(out)].role
      BY <2>1, <2>3, <2>4
    <3>3. Exchanged(out, Len(out), g, x)
      BY <2>1
    <3> HIDE DEF g, m
    <3>4. SameOpen([open EXCEPT ![g.role] = g], x)
      BY <1>2, <1>4, <1>6, <3>1, <3>2, <3>3, OpenGrown
    <3>5. QED
      BY <3>2, <3>4
  <2>6. SameTools(v, x, t)
    <3>1. ASSUME NEW y \in Tools, t[y] > 0
          PROVE  x[t[y]] = out[t[y]]
      <4>1. tools[y] \in 1..len /\ tools[y] # len
        BY <1>1, <1>5, <1>6, <2>1, <2>2, <3>1
      <4>2. QED
        BY <2>1, <4>1 DEF Exchanged
    <3>2. QED
      BY <1>4, <2>1, <2>3, <3>1, ToolsKept
  <2>7. Reads(out, es) = x
    <3>1. PICK e : e = Event("update", g) /\ e \in Events(n) /\ e.event = "update" /\ e.msg = g /\ es = <<e>>
      <4>1. es[1] \in Events(n)
        BY <1>4, <2>3
      <4>2. QED
        BY <2>3, <4>1 DEF Event
    <3>2. len \in SameLine(out, e.msg) /\ \A i \in SameLine(out, e.msg) : i <= len
      BY <1>1, <1>6, <2>1, <2>2, <2>4, <3>1 DEF SameLine
    <3>3. Exchanged(out, len, e.msg, x)
      BY <2>1, <3>1
    <3>4. out \in Seq(Upto(p)) /\ p <= n /\ n \in Nat
      BY <1>1
    <3> HIDE DEF g, m
    <3>5. Reads(out, <<e>>) = x
      BY <1>2, <3>1, <3>2, <3>3, <3>4, ReadsExchange
    <3>6. QED
      BY <3>1, <3>5
  <2>8. QED
    BY <2>5, <2>6, <2>7
<1>9. CASE Begins(out, n)
  <2> DEFINE g == Bubble(n)
  <2>1. IsText(n) /\ t = tools /\ Appended(out, g, x) /\ log[n].of \in Texts
    BY <1>1, <1>3, <1>9 DEF ChatShape, Begins, AggShape
  <2>2. open[log[n].of] = None
    BY <1>4, <1>6, <1>9, <2>1 DEF Begins, SameOpen, Last
  <2>3. o = [r \in Texts |-> IF r = log[n].of THEN g ELSE None] /\ es = <<Event("chat", g)>> /\ v = w
    BY <1>3, <2>1, <2>2 DEF AggShape, ToolsShape
  <2>4. g.role = log[n].of
    BY DEF Bubble
  <2>5. SameOpen(o, x)
    <3>1. out \in Seq(Upto(n))
      BY <1>1, UptoSeq
    <3>2. o = [r \in Texts |-> IF r = g.role THEN g ELSE None]
      BY <2>3, <2>4
    <3> HIDE DEF g
    <3>3. QED
      BY <1>2, <2>1, <3>1, <3>2, OpenAppended
  <2>6. SameTools(v, x, t)
    <3>1. ASSUME NEW y \in Tools, t[y] > 0
          PROVE  x[t[y]] = out[t[y]]
      BY <1>1, <2>1, <3>1 DEF Appended
    <3>2. QED
      BY <1>4, <2>1, <2>3, <3>1, ToolsKept
  <2>7. Reads(out, es) = x
    <3>1. PICK e : e = Event("chat", g) /\ e \in Events(n) /\ e.event = "chat" /\ e.msg = g /\ es = <<e>>
      <4>1. es[1] \in Events(n)
        BY <1>4, <2>3
      <4>2. QED
        BY <2>3, <4>1 DEF Event
    <3>2. Appended(out, e.msg, x)
      BY <2>1, <3>1
    <3>3. QED
      BY <1>1, <1>2, <3>1, <3>2, ReadsAppend
  <2>8. QED
    BY <2>5, <2>6, <2>7
<1>10. CASE log[n].kind = "start"
  <2> DEFINE g == Tool(n)
             u == log[n].of
  <2>1. Appended(out, g, x) /\ u \in Tools /\ t = [tools EXCEPT ![u] = len + 1]
    BY <1>1, <1>10 DEF ChatShape
  <2>2. o = [r \in Texts |-> None] /\ es = <<Event("chat", g)>> /\ v = [w EXCEPT ![u] = g]
    BY <1>3, <1>10 DEF AggShape, ToolsShape
  <2>3. g.role = "tool"
    BY DEF Tool
  <2>4. SameOpen(o, x)
    <3>1. out \in Seq(Upto(n))
      BY <1>1, UptoSeq
    <3>2. o = [r \in Texts |-> IF r = g.role THEN g ELSE None]
      BY <1>6, <2>2, <2>3
    <3> HIDE DEF g
    <3>3. QED
      BY <1>2, <2>1, <3>1, <3>2, OpenAppended
  <2>5. SameTools(v, x, t)
    <3> HIDE DEF g, u
    <3>1. ASSUME NEW y \in Tools
          PROVE  \/ v[y] = w[y] /\ t[y] = tools[y] /\ (t[y] > 0 => x[t[y]] = out[t[y]])
                 \/ v[y] = IF t[y] > 0 THEN x[t[y]] ELSE None
      <4>1. CASE y = u
        <5>1. t[y] = len + 1 /\ v[y] = g /\ x[len + 1] = g
          BY <1>1, <1>7, <2>1, <2>2, <4>1 DEF Appended
        <5>2. QED
          BY <1>1, <5>1
      <4>2. CASE y # u
        <5>1. t[y] = tools[y] /\ v[y] = w[y]
          BY <1>7, <2>1, <2>2, <4>2
        <5>2. QED
          BY <1>1, <2>1, <5>1 DEF Appended
      <4>3. QED
        BY <4>1, <4>2
    <3>2. QED
      BY <1>4, <3>1, ToolsKept
  <2>6. Reads(out, es) = x
    <3>1. PICK e : e = Event("chat", g) /\ e \in Events(n) /\ e.event = "chat" /\ e.msg = g /\ es = <<e>>
      <4>1. es[1] \in Events(n)
        BY <1>4, <2>2
      <4>2. QED
        BY <2>2, <4>1 DEF Event
    <3>2. Appended(out, e.msg, x)
      BY <2>1, <3>1
    <3>3. QED
      BY <1>1, <1>2, <3>1, <3>2, ReadsAppend
  <2>7. QED
    BY <2>4, <2>5, <2>6
<1>11. CASE Ends(tools, n)
  <2> DEFINE u == log[n].of
             k == tools[u]
             m == out[k]
             g == Ended(m, n, "ok")
  <2>1. Exchanged(out, k, g, x) /\ u \in Tools /\ t = [tools EXCEPT ![u] = 0] /\ log[n].kind = "result" /\ k > 0
    BY <1>1, <1>11 DEF ChatShape, Ends
  <2>2. k \in 1..len /\ m.role = "tool" /\ m # None /\ m \in Messages /\ w[u] = m
    BY <1>1, <1>4, <1>5, <2>1 DEF SameTools
  <2>3. v = [w EXCEPT ![u] = None] /\ es = <<Event("update", g)>> /\ o = open
    BY <1>3, <2>1, <2>2 DEF ToolsShape, AggShape, IsText
  <2>4. g.role = "tool" /\ g.first = m.first
    <3>1. "ok" \in Summaries
      BY DEF Summaries
    <3> HIDE DEF k, m, u
    <3>2. QED
      BY <1>1, <2>2, <3>1, EndedFields
  <2>5. SameOpen(o, x)
    <3>1. out \in Seq(Upto(n))
      BY <1>1, UptoSeq
    <3>2. out[k].role = "tool"
      BY <2>2
    <3> HIDE DEF g, m, k, u
    <3>3. QED
      BY <1>2, <1>4, <2>1, <2>3, <2>4, <3>1, <3>2, OpenEnded
  <2>6. SameTools(v, x, t)
    <3>1. ASSUME NEW y \in Tools
          PROVE  \/ v[y] = w[y] /\ t[y] = tools[y] /\ (t[y] > 0 => x[t[y]] = out[t[y]])
                 \/ v[y] = IF t[y] > 0 THEN x[t[y]] ELSE None
      <4>1. CASE y = u
        <5> HIDE DEF g, m, k, u
        <5>1. t[y] = 0 /\ v[y] = None
          BY <1>7, <2>1, <2>3, <4>1
        <5>2. QED
          BY <5>1
      <4>2. CASE y # u
        <5>1. t[y] = tools[y] /\ v[y] = w[y]
          <6> HIDE DEF g, m, k, u
          <6>1. QED
            BY <1>7, <2>1, <2>3, <4>2
        <5>2. ASSUME tools[y] > 0
              PROVE  tools[y] # k /\ tools[y] \in 1..len
          <6>1. log[out[tools[y]].first].of = y /\ log[out[k].first].of = u
            BY <1>5, <2>1, <5>2, Zenon DEF Named
          <6> HIDE DEF g, m, k, u
          <6>2. QED
            BY <1>1, <4>2, <5>2, <6>1
        <5>3. QED
          BY <2>1, <5>1, <5>2 DEF Exchanged
      <4>3. QED
        BY <4>1, <4>2
    <3>2. QED
      BY <1>4, <3>1, ToolsKept
  <2>7. Reads(out, es) = x
    <3>1. PICK e : e = Event("update", g) /\ e \in Events(n) /\ e.event = "update" /\ e.msg = g /\ es = <<e>>
      <4> HIDE DEF g
      <4>1. es[1] \in Events(n)
        BY <1>4, <2>3
      <4>2. QED
        BY <2>3, <4>1 DEF Event
    <3>2. k \in SameLine(out, e.msg) /\ \A i \in SameLine(out, e.msg) : i <= k
      <4>1. k \in SameLine(out, e.msg)
        BY <1>1, <2>2, <2>4, <3>1, Zenon DEF SameLine
      <4>2. ASSUME NEW i \in SameLine(out, e.msg)
            PROVE  i = k
        <5>1. i \in 1..len /\ out[i].first = m.first
          BY <1>1, <2>4, <3>1, Zenon DEF SameLine
        <5>2. QED
          BY <1>1, <1>5, <2>2, <5>1 DEF Apart
      <4>3. k <= k
        BY <2>2
      <4>4. QED
        BY <4>1, <4>2, <4>3
    <3>3. Exchanged(out, k, e.msg, x)
      BY <2>1, <3>1, Zenon
    <3>4. out \in Seq(Upto(p)) /\ p <= n /\ n \in Nat
      BY <1>1
    <3> HIDE DEF k, g, m, u
    <3>5. Reads(out, <<e>>) = x
      BY <1>2, <3>1, <3>2, <3>3, <3>4, ReadsExchange
    <3>6. QED
      BY <3>1, <3>5
  <2>8. QED
    BY <2>5, <2>6, <2>7
<1>12. CASE ~IsText(n) /\ log[n].kind # "start" /\ ~Ends(tools, n)
  <2>1. x = out /\ t = tools /\ o = open
    BY <1>1, <1>3, <1>12 DEF ChatShape, AggShape
  <2>2. ~(log[n].kind = "result" /\ w[log[n].of] # None)
    BY <1>3, <1>4, <1>12 DEF Ends, SameTools, ToolsShape
  <2>3. v = w /\ es = <<>>
    BY <1>3, <1>12, <2>2 DEF ToolsShape
  <2>4. Reads(out, <<>>) = out
    BY <1>1, ReadsNone
  <2>5. QED
    BY <1>4, <2>1, <2>3, <2>4
<1>13. QED
  BY <1>8, <1>9, <1>10, <1>11, <1>12 DEF Merges, Begins

\* y is ms but for the numbers and summaries of its tools.
Renumbers(ms, y) ==
  Alike(ms, y) /\ \A i \in 1..Len(ms) : ms[i].role \in Texts => y[i] = ms[i]

\* An update of a tool that is in ms.
InLine(ms, e) ==
  /\ e.event = "update" /\ e.msg.role = "tool" /\ ToSet(e.msg.text) = {}
  /\ \E i \in 1..Len(ms) : ms[i].role = "tool" /\ ms[i].first = e.msg.first

\* Nothing is in a sequence with no elements.
LEMMA NoText ==
  ASSUME NEW S, NEW s \in Seq(S), ToSet(s) = {}
  PROVE  s = <<>>
<1>1. SUFFICES ASSUME Len(s) # 0 PROVE FALSE
  OBVIOUS
<1>2. 1 \in DOMAIN s
  BY <1>1
<1>3. s[1] \in ToSet(s)
  BY <1>2 DEF ToSet
<1>4. QED
  BY <1>3

\* Such an update goes into its line.
LEMMA LineUpdated ==
  ASSUME NEW p \in Nat, NEW n \in Nat, p <= n, NEW ms \in Seq(Upto(p)), Tidy(ms),
         NEW y \in Seq(Upto(n)), Renumbers(ms, y), NEW e \in Events(n), InLine(ms, e)
  PROVE  Shown(y, e) \in Seq(Upto(n)) /\ Renumbers(ms, Shown(y, e))
<1> DEFINE m == e.msg
           len == Len(ms)
<1>1. /\ len \in Nat /\ Len(y) = len /\ DOMAIN y = 1..len /\ DOMAIN ms = 1..len
      /\ \A i \in 1..len : y[i].role = ms[i].role /\ y[i].first = ms[i].first /\ y[i].text = ms[i].text
      /\ \A i \in 1..len : ms[i].role \in Texts => y[i] = ms[i]
  BY DEF Renumbers, Alike
<1>2. /\ e.event = "update" /\ m.role = "tool" /\ ToSet(m.text) = {}
      /\ \E i \in 1..len : ms[i].role = "tool" /\ ms[i].first = m.first
  BY DEF InLine
<1> HIDE DEF len, m
<1>3. SameLine(y, m) # {}
  BY <1>1, <1>2 DEF SameLine
<1>4. PICK x : x = Shown(y, e) /\ x \in Seq(Upto(n))
  BY ShownKind
<1>5. PICK k \in SameLine(y, m) : Exchanged(y, k, m, x)
  <2>1. n <= n /\ e.event # "stop" /\ ~(e.event = "chat" \/ SameLine(y, e.msg) = {})
    BY <1>2, <1>3 DEF m
  <2>2. \E k \in SameLine(y, e.msg) : Exchanged(y, k, e.msg, Shown(y, e))
    BY <2>1, ShownShape
  <2>3. QED
    BY <1>4, <2>2 DEF m
<1>6. k \in 1..len /\ ms[k].role = "tool" /\ ms[k].first = m.first
  BY <1>1, <1>2, <1>5 DEF SameLine
<1>7. ms[k].text = m.text
  <2>1. ms[k] \in Upto(p) /\ m \in Upto(n)
    BY <1>1, <1>2, <1>6, ShownKind DEF m
  <2>2. ms[k].text \in Seq(Nat) /\ m.text \in Seq(Nat)
    BY <2>1 DEF Upto, Messages
  <2>3. ToSet(ms[k].text) = {}
    BY <1>1, <1>6 DEF Tidy, Neat
  <2>4. QED
    BY <1>2, <2>2, <2>3, NoText
<1>8. DOMAIN x = 1..len /\ (\A i \in 1..len : i # k => x[i] = y[i]) /\ x[k] = m
  BY <1>1, <1>5 DEF Exchanged
<1>9. Len(x) = len
  BY <1>1, <1>4, <1>8
<1>10. "tool" \notin Texts
  BY DEF Texts
<1>11. ASSUME NEW i \in 1..len
       PROVE  /\ x[i].role = ms[i].role /\ x[i].first = ms[i].first /\ x[i].text = ms[i].text
              /\ ms[i].role \in Texts => x[i] = ms[i]
  <2>1. CASE i = k
    BY <1>2, <1>6, <1>7, <1>8, <1>10, <2>1
  <2>2. CASE i # k
    BY <1>1, <1>8, <2>2
  <2>3. QED
    BY <2>1, <2>2
<1>12. QED
  BY <1>4, <1>9, <1>11 DEF Renumbers, Alike, len

\* Updates of tools go into their lines, and a stop leaves them.
LEMMA LinesUpdated ==
  ASSUME NEW p \in Nat, NEW n \in Nat, p <= n, NEW ms \in Seq(Upto(p)), Tidy(ms), NEW es \in Seq(Events(n)),
         \A k \in 1..Len(es) : es[k].event = "stop" \/ InLine(ms, es[k])
  PROVE  Reads(ms, es) \in Seq(Upto(n)) /\ Renumbers(ms, Reads(ms, es))
<1>1. PICK v : /\ v[0] = ms /\ Reads(ms, es) = v[Len(es)]
               /\ \A k \in 1..Len(es) : v[k] = Shown(v[k - 1], es[k])
  BY ReadsFollows
<1> DEFINE Y == {y \in Seq(Upto(n)) : Renumbers(ms, y)}
           l == Len(es)
           T == [k \in 0..l |-> Y]
<1>2. l \in Nat /\ (\A k \in 0..l : T[k] = Y) /\ l \in 0..l /\ \A k \in 1..l : k - 1 \in 0..l /\ k \in 0..l
  OBVIOUS
<1>3. ms \in Y
  <2>1. ms \in Seq(Upto(n))
    BY UptoSeq
  <2>2. Renumbers(ms, ms)
    BY DEF Renumbers, Alike
  <2>3. QED
    BY <2>1, <2>2
<1>4. ASSUME NEW k \in 1..l, v[k - 1] \in T[k - 1]
      PROVE  v[k] \in T[k]
  <2>1. PICK y, e : y = v[k - 1] /\ e = es[k]
    OBVIOUS
  <2>2. y \in Seq(Upto(n)) /\ Renumbers(ms, y)
    BY <1>2, <1>4, <2>1
  <2>3. e \in Events(n) /\ (e.event = "stop" \/ InLine(ms, e)) /\ v[k] = Shown(y, e)
    BY <1>1, <2>1
  <2>4. Shown(y, e) \in Seq(Upto(n)) /\ Renumbers(ms, Shown(y, e))
    <3>1. CASE e.event = "stop"
      <4>1. Shown(y, e) = y
        BY <3>1 DEF Shown
      <4>2. QED
        BY <2>2, <4>1
    <3>2. CASE InLine(ms, e)
      BY <2>2, <2>3, <3>2, LineUpdated
    <3>3. QED
      BY <2>3, <3>1, <3>2
  <2>5. QED
    BY <1>2, <2>3, <2>4
<1> HIDE DEF Y, T, l
<1>5. \A k \in 0..l : v[k] \in T[k]
  <2>1. v[0] \in T[0]
    BY <1>1, <1>2, <1>3
  <2>2. QED
    BY <1>2, <1>4, <2>1, GoesThrough
<1>6. Reads(ms, es) \in Y
  BY <1>1, <1>2, <1>5 DEF l
<1>7. QED
  BY <1>6 DEF Y

\* y is s and one event more.
Topped(s, e, y) ==
  /\ Len(y) = Len(s) + 1 /\ Len(s) \in Nat
  /\ \A k \in 1..Len(s) : y[k] = s[k]
  /\ y[Len(s) + 1] = e

\* A sequence with one of one element after it.
LEMMA OneAfter ==
  ASSUME NEW R, NEW s \in Seq(R), NEW z \in Seq(R), Len(z) = 1
  PROVE  Topped(s, z[1], s \o z)
<1>1. /\ Len(s \o z) = Len(s) + Len(z)
      /\ \A i \in 1..(Len(s) + Len(z)) : (s \o z)[i] = IF i <= Len(s) THEN s[i] ELSE z[i - Len(s)]
  BY ConcatProperties
<1>2. Len(s) \in Nat /\ Len(s) + 1 \in 1..(Len(s) + 1) /\ ~(Len(s) + 1 <= Len(s)) /\ (Len(s) + 1) - Len(s) = 1
  OBVIOUS
<1>3. \A k \in 1..Len(s) : k \in 1..(Len(s) + 1) /\ k <= Len(s)
  BY <1>2
<1>4. QED
  BY <1>1, <1>2, <1>3 DEF Topped

\* The events of es are a stop, or a tool of w without its result.
Closes(es, w, n) ==
  \A k \in 1..Len(es) : \/ es[k].event = "stop"
                        \/ \E t \in Tools : w[t] # None /\ es[k] = Event("update", Ended(w[t], n, "orphan"))

\* A stop's orphans are the tools that wait.
LEMMA OrphansNamed ==
  ASSUME NEW p \in Nat, NEW n \in Nat, p < n, NEW w \in Waits(p), NEW es, es = SetToSeq(Orphans(w, n)) \o <<Event("stop", None)>>
  PROVE  Closes(es, w, n)
<1> DEFINE S == Orphans(w, n)
           s == SetToSeq(S)
           z == <<Event("stop", None)>>
<1>1. s \in Seq(S)
  <2> DEFINE W == {x \in Tools : w[x] # None}
             f == [t \in W |-> Event("update", Ended(w[t], n, "orphan"))]
  <2>1. IsFiniteSet(W)
    BY Sizes, FS_Subset
  <2>2. S = {f[t] : t \in W}
    BY DEF Orphans
  <2> HIDE DEF S, W
  <2>3. f \in Surjection(W, S)
    <3> HIDE DEF f
    <3>1. DOMAIN f = W
      BY DEF f
    <3>2. f \in [W -> S]
      <4>1. f = [t \in W |-> f[t]]
        BY DEF f
      <4>2. \A t \in W : f[t] \in S
        BY <2>2
      <4>3. QED
        BY <4>1, <4>2
    <3>3. QED
      BY <2>2, <3>2 DEF Surjection
  <2> HIDE DEF f
  <2>4. IsFiniteSet(S)
    BY <2>1, <2>3, FS_Surjection
  <2>5. QED
    BY <2>4, ListOfSet
<1>2. z \in Seq({Event("stop", None)}) /\ Len(z) = 1 /\ z[1] = Event("stop", None)
  OBVIOUS
<1>3. Event("stop", None).event = "stop"
  BY DEF Event
<1>4. es = s \o z
  OBVIOUS
<1> HIDE DEF S, s, z
<1>5. Len(es) = Len(s) + 1 /\ Len(s) \in Nat /\ (\A k \in 1..Len(s) : es[k] = s[k]) /\ es[Len(s) + 1] = z[1]
  <2>1. PICK R : R = S \cup {Event("stop", None)}
    OBVIOUS
  <2>2. s \in Seq(R) /\ z \in Seq(R)
    BY <1>1, <1>2, <2>1
  <2>3. Len(z) = 1
    BY <1>2
  <2>4. \A a, c \in Seq(R) : Len(c) = 1 => Topped(a, c[1], a \o c)
    BY OneAfter
  <2>5. Topped(s, z[1], s \o z)
    BY <2>2, <2>3, <2>4, Zenon
  <2>6. Topped(s, z[1], es)
    BY <1>4, <2>5, Zenon
  <2>7. QED
    BY <2>6, Zenon DEF Topped
<1>6. ASSUME NEW k \in 1..Len(es)
      PROVE  \/ es[k].event = "stop"
             \/ \E t \in Tools : w[t] # None /\ es[k] = Event("update", Ended(w[t], n, "orphan"))
  <2>1. CASE k = Len(s) + 1
    BY <1>2, <1>3, <1>5, <2>1
  <2>2. CASE k \in 1..Len(s)
    <3>1. es[k] \in S
      BY <1>1, <1>5, <2>2
    <3>2. QED
      BY <3>1 DEF S, Orphans
  <2>3. QED
    BY <1>5, <2>1, <2>2
<1>7. QED
  BY <1>6 DEF Closes

\* The client's messages have the chat's lines; what is open is the last of
\* them, and the tools that wait are among them.
OpenLast(open, ms) == \A r \in Texts : open[r] # None => Len(ms) > 0 /\ ms[Len(ms)] = open[r]
ToolsIn(w, ms) ==
  \A t \in Tools : w[t] # None => \E i \in DOMAIN ms : ms[i].role = "tool" /\ ms[i].first = w[t].first
Fits(ms, a, c) == Joined(ms) = Joined(c.out) /\ OpenLast(a.open, ms) /\ ToolsIn(a.tools, ms)

\* The length of a sequence is the greatest of its places.
LEMMA LengthOf ==
  ASSUME NEW S, NEW s \in Seq(S), NEW l \in Nat, DOMAIN s = 1..l
  PROVE  Len(s) = l
OBVIOUS

\* Messages are messages.
LEMMA UptoMessages ==
  ASSUME NEW p \in Nat, NEW ms \in Seq(Upto(p))
  PROVE  ms \in Seq(Messages)
BY DEF Upto

\* Where the client has them is left by tools that are renumbered.
LEMMA RenumbersFits ==
  ASSUME NEW p \in Nat, NEW n \in Nat, p <= n, NEW ms \in Seq(Upto(p)), NEW y \in Seq(Upto(n)), Renumbers(ms, y),
         NEW open \in Opens(p), OpenLast(open, ms), NEW w, ToolsIn(w, ms)
  PROVE  Joined(y) = Joined(ms) /\ OpenLast(open, y) /\ ToolsIn(w, y)
<1>1. ms \in Seq(Messages) /\ y \in Seq(Messages)
  BY UptoMessages
<1>2. /\ Alike(ms, y) /\ Len(y) = Len(ms) /\ DOMAIN y = 1..Len(ms) /\ DOMAIN ms = 1..Len(ms) /\ Len(ms) \in Nat
      /\ \A i \in 1..Len(ms) : y[i].role = ms[i].role /\ y[i].first = ms[i].first
      /\ \A i \in 1..Len(ms) : ms[i].role \in Texts => y[i] = ms[i]
  BY DEF Renumbers, Alike
<1>3. Joined(y) = Joined(ms)
  BY <1>1, <1>2, JoinedAlike
<1>4. ASSUME NEW r \in Texts, open[r] # None
      PROVE  Len(y) > 0 /\ y[Len(y)] = open[r]
  <2>1. Len(ms) > 0 /\ ms[Len(ms)] = open[r] /\ open[r].role = r
    BY <1>4 DEF OpenLast, Opens
  <2>2. Len(ms) \in 1..Len(ms)
    BY <1>2, <2>1
  <2>3. QED
    BY <1>2, <2>1, <2>2
<1>5. ToolsIn(w, y)
  BY <1>2 DEF ToolsIn
<1>6. QED
  BY <1>3, <1>4, <1>5 DEF OpenLast

\* The chat of a result has the lines it had.
LEMMA ChatEnded ==
  ASSUME NEW p \in Nat, NEW n \in Nat, p < n, NEW out \in Seq(Upto(p)), NEW x \in Seq(Upto(n)), NEW k,
         Exchanged(out, k, Ended(out[k], n, "ok"), x)
  PROVE  Joined(x) = Joined(out)
<1>1. out \in Seq(Messages) /\ x \in Seq(Messages)
  BY UptoMessages
<1>2. /\ DOMAIN x = 1..Len(out) /\ k \in 1..Len(out) /\ x[k] = Ended(out[k], n, "ok")
      /\ \A i \in 1..Len(out) : i # k => x[i] = out[i]
  BY DEF Exchanged
<1>3. Len(x) = Len(out)
  BY <1>2
<1>4. out[k] \in Messages /\ "ok" \in Summaries /\ n \in Nat
  BY <1>1, <1>2 DEF Summaries
<1>5. x[k].role = out[k].role /\ x[k].first = out[k].first /\ x[k].text = out[k].text
  BY <1>2, <1>4, EndedFields
<1>6. Alike(out, x)
  BY <1>2, <1>3, <1>5 DEF Alike
<1>7. QED
  BY <1>1, <1>6, JoinedAlike

\* A new message of both has the same line in both.
LEMMA BothAppend ==
  ASSUME NEW p \in Nat, NEW n \in Nat, p < n, NEW out \in Seq(Upto(p)), NEW ms \in Seq(Upto(p)),
         Joined(ms) = Joined(out), NEW g, NEW x \in Seq(Upto(n)), Appended(out, g, x),
         NEW y \in Seq(Upto(n)), Appended(ms, g, y)
  PROVE  Joined(y) = Joined(x)
<1>1. /\ out \in Seq(Messages) /\ x \in Seq(Messages)
      /\ ms \in Seq(Messages) /\ y \in Seq(Messages)
  BY UptoMessages
<1>2. QED
  BY <1>1, JoinedAppended

\* A bubble that goes on in the chat is a new one in the stream, or goes on there too.
LEMMA BothGrow ==
  ASSUME log \in Seq(Frames), NEW p \in Nat, NEW n \in 1..Len(log), p < n, NEW out \in Seq(Upto(p)), NEW ms \in Seq(Upto(p)),
         Joined(ms) = Joined(out), NEW x \in Seq(Upto(n)), Exchanged(out, Len(out), Grown(out[Len(out)], n), x),
         out[Len(out)].role = log[n].of, log[n].of \in Texts, IsText(n), NEW y \in Seq(Upto(n)),
         Appended(ms, Bubble(n), y) \/ Exchanged(ms, Len(ms), Grown(ms[Len(ms)], n), y)
  PROVE  Joined(y) = Joined(x)
<1>1. /\ out \in Seq(Messages) /\ x \in Seq(Messages)
      /\ ms \in Seq(Messages) /\ y \in Seq(Messages)
  BY UptoMessages
<1>2. n \in Nat /\ Len(out) \in Nat /\ Len(out) > 0
  BY DEF Exchanged
<1>3. /\ Joined(out) \in Seq(Line) /\ Joined(x) \in Seq(Line) /\ Joined(y) \in Seq(Line)
      /\ Joined(out) # <<>> /\ Joined(out)[Len(Joined(out))].role = log[n].of
  BY <1>1, <1>2, JoinedEnd
<1>4. PICK j : j = Joined(out) /\ j \in Seq(Line)
  BY <1>3
<1>5. Longer(j, n, Joined(x))
  BY <1>1, <1>2, <1>4, JoinedGrown
<1>6. Longer(j, n, Joined(y))
  <2>1. CASE Exchanged(ms, Len(ms), Grown(ms[Len(ms)], n), y)
    BY <1>1, <1>2, <1>4, <2>1, JoinedGrown
  <2>2. CASE Appended(ms, Bubble(n), y)
    <3>1. PICK b : b = Bubble(n)
      OBVIOUS
    <3>2. Joined(y) = Join(j, b) /\ b \in Messages
      BY <1>1, <1>4, <2>2, <3>1, JoinedAppended
    <3>3. b.text = <<n>> /\ b.role = log[n].of
      BY <3>1, Zenon DEF Bubble
    <3>4. Adds(j, b)
      BY <1>3, <1>4, <3>3 DEF Adds, Texts
    <3>5. QED
      BY <1>2, <1>4, <3>2, <3>3, <3>4, JoinBubble
  <2>3. QED
    BY <2>1, <2>2
<1>7. QED
  BY <1>2, <1>3, <1>4, <1>5, <1>6, LongerOnce

\* What stays there while the stream goes on.
Kept(ms, a, c, n) == Fits(Reads(ms, Step(a, n).out), Step(a, n).agg, ChatStep(c, n))

\* A text,
LEMMA FitsText ==
  ASSUME log \in Seq(Frames), NEW n \in 1..Len(log), NEW p \in Nat, p < n, NEW c \in Chats(p),
         NEW a \in Aggs(p), NEW ms \in Seq(Upto(p)), Fits(ms, a, c), IsText(n)
  PROVE  Kept(ms, a, c, n)
<1> SUFFICES ASSUME NEW out, NEW x, NEW open, NEW o, NEW w, NEW v, NEW es, NEW y,
                    out = c.out, x = ChatStep(c, n).out, open = a.open, o = Step(a, n).agg.open,
                    w = a.tools, v = Step(a, n).agg.tools, es = Step(a, n).out, y = Reads(ms, es)
             PROVE  Kept(ms, a, c, n)
  OBVIOUS
<1> SUFFICES Joined(y) = Joined(x) /\ OpenLast(o, y) /\ ToolsIn(v, y)
  BY DEF Fits, Kept
<1>1. /\ out \in Seq(Upto(p)) /\ Len(out) \in Nat /\ DOMAIN out = 1..Len(out)
      /\ ChatShape(out, c.tools, x, ChatStep(c, n).tools, n) /\ n \in Nat /\ p <= n
  BY ChatStepShape
<1>2. x \in Seq(Upto(n)) /\ ms \in Seq(Upto(n))
  BY <1>1, ChatStepKind, UptoSeq DEF Chats
<1>3. open \in Opens(p) /\ AggShape(open, o, es, n) /\ w \in Waits(p) /\ ToolsShape(w, v, es, n)
  BY AggStepShape, AggToolsShape
<1>4. es \in Seq(Events(n)) /\ y \in Seq(Upto(n))
  BY <1>1, AggStep, ReadsKind
<1>5. Joined(ms) = Joined(out) /\ OpenLast(open, ms) /\ ToolsIn(w, ms) /\ v = w
  BY <1>3 DEF Fits, ToolsShape
<1>6. log[n].of \in Texts /\ "tool" \notin Texts /\ DOMAIN open = Texts
  BY <1>3 DEF AggShape, Opens, Texts
<1>7. /\ ms \in Seq(Messages) /\ out \in Seq(Messages)
      /\ Len(ms) \in Nat /\ DOMAIN ms = 1..Len(ms)
  BY <1>1, UptoMessages
<1>8. CASE open[log[n].of] # None
  <2> DEFINE m == ms[Len(ms)]
             g == Grown(m, n)
             r == log[n].of
  <2>1. Len(ms) > 0 /\ open[r] = m /\ m.role = r
    BY <1>3, <1>5, <1>6, <1>8 DEF OpenLast, Opens
  <2>2. Len(ms) \in 1..Len(ms) /\ m \in Messages
    BY <1>7, <2>1
  <2>3. o = [open EXCEPT ![r] = g] /\ es = <<Event("update", g)>>
    BY <1>3, <1>8, <2>1 DEF AggShape
  <2>4. g.role = r
    BY <1>1, <2>1, <2>2, MessageFields
  <2> HIDE DEF g, m
  <2>5. Exchanged(ms, Len(ms), g, y)
    <3>1. PICK e : e = Event("update", g) /\ e \in Events(n) /\ e.event = "update" /\ e.msg = g /\ es = <<e>>
      <4>1. es[1] \in Events(n)
        BY <1>4, <2>3
      <4>2. QED
        BY <2>3, <4>1 DEF Event
    <3>2. Len(ms) \in SameLine(ms, e.msg) /\ \A i \in SameLine(ms, e.msg) : i <= Len(ms)
      BY <1>6, <1>7, <2>1, <2>2, <2>4, <3>1 DEF SameLine, m
    <3>3. y = Shown(ms, e)
      BY <1>1, <3>1, ReadsOne
    <3>4. PICK k \in SameLine(ms, e.msg) : (\A i \in SameLine(ms, e.msg) : i <= k) /\ Exchanged(ms, k, e.msg, y)
      BY <1>1, <3>1, <3>2, <3>3, ShownShape
    <3>5. k = Len(ms)
      <4>1. k \in 1..Len(ms) /\ Len(ms) <= k
        BY <1>7, <3>2, <3>4 DEF SameLine
      <4>2. PICK l \in Nat : l = Len(ms)
        BY <1>7, Zenon
      <4>3. k \in 1..l /\ l <= k
        BY <4>1, <4>2
      <4>4. k = l
        BY <4>3
      <4>5. QED
        BY <4>2, <4>4
    <3>6. QED
      BY <3>1, <3>4, <3>5
  <2>6. Merges(out, n) /\ out[Len(out)].role = r
    <3>1. /\ Len(ms) > 0 => Joined(ms) # <<>> /\ Joined(ms)[Len(Joined(ms))].role = ms[Len(ms)].role
          /\ Len(out) = 0 => Joined(out) = <<>>
          /\ Len(out) > 0 => Joined(out)[Len(Joined(out))].role = out[Len(out)].role
      BY <1>7, JoinedEnd
    <3>2. Len(out) > 0 /\ out[Len(out)].role = r
      BY <1>1, <1>5, <2>1, <3>1 DEF m
    <3>3. QED
      BY <3>2 DEF Merges, Last
  <2>7. Joined(y) = Joined(x)
    <3>1. Exchanged(out, Len(out), Grown(out[Len(out)], n), x)
      BY <1>1, <2>6 DEF ChatShape
    <3>2. Exchanged(ms, Len(ms), Grown(ms[Len(ms)], n), y)
      BY <2>5 DEF g, m
    <3>3. Appended(ms, Bubble(n), y) \/ Exchanged(ms, Len(ms), Grown(ms[Len(ms)], n), y)
      BY <3>2
    <3>4. /\ out \in Seq(Upto(p)) /\ x \in Seq(Upto(n)) /\ y \in Seq(Upto(n))
          /\ Joined(ms) = Joined(out) /\ log[n].of \in Texts /\ out[Len(out)].role = log[n].of
      BY <1>1, <1>2, <1>4, <1>5, <1>6, <2>6
    <3> HIDE DEF r
    <3>5. QED
      BY <3>1, <3>3, <3>4, BothGrow
  <2>8. DOMAIN y = 1..Len(ms) /\ y[Len(ms)] = g /\ (\A i \in 1..Len(ms) : i # Len(ms) => y[i] = ms[i])
    BY <2>5 DEF Exchanged
  <2>9. Len(y) = Len(ms)
    BY <1>4, <1>7, <2>8, LengthOf
  <2>10. OpenLast(o, y)
    <3>1. ASSUME NEW q \in Texts, o[q] # None
          PROVE  y[Len(y)] = o[q]
      <4>1. q = r
        <5>1. ASSUME q # r
              PROVE  FALSE
          <6>1. open[q] = o[q]
            BY <1>6, <2>3, <5>1
          <6>2. m = open[q] /\ open[q].role = q
            BY <1>3, <1>5, <3>1, <6>1 DEF OpenLast, Opens, m
          <6>3. QED
            BY <2>1, <5>1, <6>2
        <5>2. QED
          BY <5>1
      <4>2. QED
        BY <1>6, <2>3, <2>8, <2>9, <4>1
    <3>2. QED
      BY <2>1, <2>9, <3>1 DEF OpenLast
  <2>11. ToolsIn(v, y)
    <3>1. ASSUME NEW t \in Tools, v[t] # None
          PROVE  \E i \in DOMAIN y : y[i].role = "tool" /\ y[i].first = v[t].first
      <4>1. PICK i \in 1..Len(ms) : ms[i].role = "tool" /\ ms[i].first = v[t].first
        BY <1>5, <1>7, <3>1 DEF ToolsIn
      <4>2. i # Len(ms)
        BY <1>6, <2>1, <4>1 DEF m
      <4>3. QED
        BY <2>8, <4>1, <4>2
    <3>2. QED
      BY <3>1 DEF ToolsIn
  <2>12. QED
    BY <2>7, <2>10, <2>11
<1>9. CASE open[log[n].of] = None
  <2> DEFINE g == Bubble(n)
             r == log[n].of
  <2>1. o = [q \in Texts |-> IF q = r THEN g ELSE None] /\ es = <<Event("chat", g)>>
    BY <1>3, <1>9 DEF AggShape
  <2> HIDE DEF g
  <2>2. Appended(ms, g, y)
    <3>1. PICK e : e = Event("chat", g) /\ e \in Events(n) /\ e.event = "chat" /\ e.msg = g /\ es = <<e>>
      <4>1. es[1] \in Events(n)
        BY <1>4, <2>1
      <4>2. QED
        BY <2>1, <4>1 DEF Event
    <3>2. y = Append(ms, g) /\ g \in Upto(n)
      BY <1>1, <3>1, ReadsOne, ShownKind
    <3>3. QED
      BY <1>2, <3>2, AppendSet DEF Appended
  <2>3. Joined(y) = Joined(x)
    <3>1. CASE Merges(out, n)
      <4>1. Exchanged(out, Len(out), Grown(out[Len(out)], n), x) /\ out[Len(out)].role = r
        BY <1>1, <3>1 DEF ChatShape, Merges
      <4>2. QED
        BY <1>1, <1>2, <1>4, <1>5, <1>6, <2>2, <4>1, BothGrow DEF g
    <3>2. CASE Begins(out, n)
      <4>1. Appended(out, g, x)
        BY <1>1, <3>2 DEF ChatShape, g
      <4>2. QED
        BY <1>1, <1>2, <1>4, <1>5, <2>2, <4>1, BothAppend
    <3>3. QED
      BY <3>1, <3>2 DEF Merges, Begins
  <2>4. DOMAIN y = 1..(Len(ms) + 1) /\ y[Len(ms) + 1] = g /\ (\A i \in 1..Len(ms) : y[i] = ms[i])
    BY <2>2 DEF Appended
  <2>5. Len(y) = Len(ms) + 1
    BY <1>4, <1>7, <2>4
  <2>6. OpenLast(o, y)
    BY <1>7, <2>1, <2>4, <2>5 DEF OpenLast
  <2>7. ToolsIn(v, y)
    <3>1. DOMAIN ms \subseteq DOMAIN y
      BY <1>7, <2>4
    <3>2. QED
      BY <1>5, <1>7, <2>4, <3>1 DEF ToolsIn
  <2>8. QED
    BY <2>3, <2>6, <2>7
<1>10. QED
  BY <1>8, <1>9

\* ... a tool that begins,
LEMMA FitsStart ==
  ASSUME log \in Seq(Frames), NEW n \in 1..Len(log), NEW p \in Nat, p < n, NEW c \in Chats(p),
         NEW a \in Aggs(p), NEW ms \in Seq(Upto(p)), Fits(ms, a, c), log[n].kind = "start"
  PROVE  Kept(ms, a, c, n)
<1> SUFFICES ASSUME NEW out, NEW x, NEW o, NEW w, NEW v, NEW es, NEW y,
                    out = c.out, x = ChatStep(c, n).out, o = Step(a, n).agg.open,
                    w = a.tools, v = Step(a, n).agg.tools, es = Step(a, n).out, y = Reads(ms, es)
             PROVE  Kept(ms, a, c, n)
  OBVIOUS
<1> SUFFICES Joined(y) = Joined(x) /\ OpenLast(o, y) /\ ToolsIn(v, y)
  BY DEF Fits, Kept
<1>1. PICK g : g = Tool(n)
  OBVIOUS
<1>2. /\ out \in Seq(Upto(p)) /\ ChatShape(out, c.tools, x, ChatStep(c, n).tools, n) /\ n \in Nat /\ p <= n
  BY ChatStepShape
<1>3. x \in Seq(Upto(n)) /\ ms \in Seq(Upto(n))
  BY <1>2, ChatStepKind, UptoSeq DEF Chats
<1>4. o = [r \in Texts |-> None] /\ es = <<Event("chat", g)>>
  <2>1. AggShape(a.open, o, es, n)
    BY AggStepShape
  <2>2. QED
    BY <1>1, <2>1 DEF AggShape
<1>5. w \in Waits(p) /\ log[n].of \in Tools /\ v = [w EXCEPT ![log[n].of] = g]
  <2>1. w \in Waits(p) /\ ToolsShape(w, v, es, n)
    BY AggToolsShape
  <2>2. QED
    BY <1>1, <2>1 DEF ToolsShape
<1>6. es \in Seq(Events(n)) /\ y \in Seq(Upto(n))
  BY <1>2, AggStep, ReadsKind
<1>7. Joined(ms) = Joined(out) /\ ToolsIn(w, ms) /\ Appended(out, g, x)
  BY <1>1, <1>2 DEF Fits, ChatShape
<1>8. Appended(ms, g, y)
  <2>1. PICK e : e = Event("chat", g) /\ e \in Events(n) /\ e.event = "chat" /\ e.msg = g /\ es = <<e>>
    <3>1. es[1] \in Events(n)
      BY <1>4, <1>6
    <3>2. QED
      BY <1>4, <3>1 DEF Event
  <2>2. y = Append(ms, g) /\ g \in Upto(n)
    BY <1>2, <2>1, ReadsOne, ShownKind
  <2>3. QED
    BY <1>3, <2>2, AppendSet DEF Appended
<1>9. Joined(y) = Joined(x)
  BY <1>2, <1>3, <1>6, <1>7, <1>8, BothAppend
<1>10. OpenLast(o, y)
  BY <1>4 DEF OpenLast
<1>11. ASSUME NEW t \in Tools, v[t] # None
       PROVE  \E i \in DOMAIN y : y[i].role = "tool" /\ y[i].first = v[t].first
  <2>1. Len(ms) \in Nat /\ DOMAIN ms = 1..Len(ms) /\ DOMAIN w = Tools
    BY <1>5 DEF Waits
  <2>2. DOMAIN y = 1..(Len(ms) + 1) /\ y[Len(ms) + 1] = g /\ (\A i \in 1..Len(ms) : y[i] = ms[i])
    BY <1>8 DEF Appended
  <2>3. CASE t = log[n].of
    <3>1. v[t] = g /\ g.role = "tool" /\ Len(ms) + 1 \in DOMAIN y
      BY <1>1, <1>5, <2>1, <2>2, <2>3 DEF Tool
    <3>2. QED
      BY <2>2, <3>1
  <2>4. CASE t # log[n].of
    <3>1. v[t] = w[t]
      BY <1>5, <2>1, <2>4
    <3>2. PICK i \in 1..Len(ms) : ms[i].role = "tool" /\ ms[i].first = w[t].first
      BY <1>7, <1>11, <2>1, <3>1 DEF ToolsIn
    <3>3. i \in DOMAIN y /\ y[i] = ms[i]
      BY <2>1, <2>2
    <3>4. QED
      BY <3>1, <3>2, <3>3
  <2>5. QED
    BY <2>3, <2>4
<1>12. QED
  BY <1>9, <1>10, <1>11 DEF ToolsIn

\* ... or any other frame.
LEMMA FitsOther ==
  ASSUME log \in Seq(Frames), NEW n \in 1..Len(log), NEW p \in Nat, p < n, NEW c \in Chats(p),
         NEW a \in Aggs(p), NEW ms \in Seq(Upto(p)), Tidy(ms), Fits(ms, a, c), ~IsText(n), log[n].kind # "start"
  PROVE  Kept(ms, a, c, n)
<1> SUFFICES ASSUME NEW out, NEW x, NEW open, NEW o, NEW w, NEW v, NEW es, NEW y,
                    out = c.out, x = ChatStep(c, n).out, open = a.open, o = Step(a, n).agg.open,
                    w = a.tools, v = Step(a, n).agg.tools, es = Step(a, n).out, y = Reads(ms, es)
             PROVE  Kept(ms, a, c, n)
  OBVIOUS
<1> SUFFICES Joined(y) = Joined(x) /\ OpenLast(o, y) /\ ToolsIn(v, y)
  BY DEF Fits, Kept
<1>1. /\ out \in Seq(Upto(p)) /\ ChatShape(out, c.tools, x, ChatStep(c, n).tools, n) /\ n \in Nat /\ p <= n
  BY ChatStepShape
<1>2. x \in Seq(Upto(n)) /\ ms \in Seq(Upto(n))
  BY <1>1, ChatStepKind, UptoSeq DEF Chats
<1>3. open \in Opens(p) /\ AggShape(open, o, es, n) /\ w \in Waits(p) /\ ToolsShape(w, v, es, n)
  BY AggStepShape, AggToolsShape
<1>4. es \in Seq(Events(n))
  BY AggStep
<1>5. Joined(ms) = Joined(out) /\ OpenLast(open, ms) /\ ToolsIn(w, ms)
  BY DEF Fits
<1>6. Joined(x) = Joined(out)
  <2>1. CASE Ends(c.tools, n)
    <3>1. PICK k : Exchanged(out, k, Ended(out[k], n, "ok"), x)
      BY <1>1, <2>1 DEF ChatShape
    <3>2. QED
      BY <1>1, <1>2, <3>1, ChatEnded
  <2>2. CASE ~Ends(c.tools, n)
    BY <1>1, <2>2 DEF ChatShape
  <2>3. QED
    BY <2>1, <2>2
<1>7. \A k \in 1..Len(es) : es[k].event = "stop" \/ InLine(ms, es[k])
  <2>1. ASSUME NEW t \in Tools, w[t] # None, NEW u \in Summaries
        PROVE  InLine(ms, Event("update", Ended(w[t], n, u)))
    <3>1. PICK m : m = w[t]
      OBVIOUS
    <3>2. m \in Upto(p) /\ m.role = "tool" /\ ToSet(m.text) = {}
      BY <1>3, <2>1, <3>1 DEF Waits
    <3>3. m \in Messages
      BY <3>2 DEF Upto
    <3>4. PICK g : g = Ended(m, n, u) /\ g.role = m.role /\ g.first = m.first /\ g.text = m.text
      BY <1>1, <3>3, EndedFields
    <3>5. \E i \in 1..Len(ms) : ms[i].role = "tool" /\ ms[i].first = m.first
      BY <1>5, <2>1, <3>1 DEF ToolsIn
    <3>6. InLine(ms, Event("update", g))
      BY <3>2, <3>4, <3>5 DEF InLine, Event
    <3>7. QED
      BY <3>1, <3>4, <3>6
  <2>2. "ok" \in Summaries /\ "orphan" \in Summaries
    BY DEF Summaries
  <2>3. CASE log[n].kind = "stop"
    <3>1. es = SetToSeq(Orphans(w, n)) \o <<Event("stop", None)>>
      BY <1>3, <2>3 DEF ToolsShape
    <3>2. Closes(es, w, n)
      <4>1. p < n /\ n \in Nat /\ w \in Waits(p)
        BY <1>1, <1>3
      <4>2. QED
        BY <3>1, <4>1, OrphansNamed
    <3>3. QED
      BY <2>1, <2>2, <3>2 DEF Closes
  <2>4. CASE log[n].kind = "result" /\ w[log[n].of] # None
    <3>1. PICK g : g = Event("update", Ended(w[log[n].of], n, "ok"))
      OBVIOUS
    <3>2. es = <<g>> /\ log[n].of \in Tools
      BY <1>3, <2>4, <3>1 DEF ToolsShape
    <3>3. InLine(ms, g)
      BY <2>1, <2>2, <2>4, <3>1, <3>2
    <3>4. QED
      BY <3>2, <3>3
  <2>5. CASE log[n].kind # "stop" /\ ~(log[n].kind = "result" /\ w[log[n].of] # None)
    <3>1. es = <<>>
      BY <1>3, <2>5 DEF ToolsShape
    <3>2. QED
      BY <3>1
  <2>6. QED
    BY <2>3, <2>4, <2>5
<1>8. y \in Seq(Upto(n)) /\ Renumbers(ms, y)
  BY <1>1, <1>4, <1>7, LinesUpdated
<1>9. Joined(y) = Joined(ms) /\ OpenLast(open, y) /\ ToolsIn(w, y)
  BY <1>1, <1>3, <1>5, <1>8, RenumbersFits
<1>10. OpenLast(o, y)
  <2>1. o = open \/ \A r \in Texts : o[r] = None
    BY <1>3 DEF AggShape
  <2>2. QED
    BY <1>9, <2>1 DEF OpenLast
<1>11. ToolsIn(v, y)
  <2>1. \A t \in Tools : v[t] = w[t] \/ v[t] = None
    BY <1>3 DEF ToolsShape, Waits
  <2>2. QED
    BY <1>9, <2>1 DEF ToolsIn
<1>12. QED
  BY <1>5, <1>6, <1>9, <1>10, <1>11

\* The stream has the chat's lines as long as it goes on,
LEMMA FitsStep ==
  ASSUME log \in Seq(Frames), NEW n \in 1..Len(log), NEW p \in Nat, p < n, NEW c \in Chats(p),
         NEW a \in Aggs(p), NEW ms \in Seq(Upto(p)), Tidy(ms), Fits(ms, a, c)
  PROVE  Kept(ms, a, c, n)
<1>1. CASE IsText(n)
  BY <1>1, FitsText
<1>2. CASE log[n].kind = "start"
  BY <1>2, FitsStart
<1>3. CASE ~IsText(n) /\ log[n].kind # "start"
  BY <1>3, FitsOther
<1>4. QED
  BY <1>1, <1>2, <1>3

\* ... and from where it has the chat itself.
LEMMA MatchesFits ==
  ASSUME NEW p \in Nat, NEW c \in Chats(p), ListInv(c), NEW a, Matches(a, c)
  PROVE  Fits(c.out, a, c)
<1>1. /\ c.out \in Seq(Upto(p)) /\ \A t \in Tools : c.tools[t] <= Len(c.out) /\ c.tools[t] \in Nat
  BY DEF Chats
<1>2. OpenLast(a.open, c.out)
  BY DEF Matches, SameOpen, OpenLast
<1>3. ASSUME NEW t \in Tools, a.tools[t] # None
      PROVE  \E i \in DOMAIN c.out : c.out[i].role = "tool" /\ c.out[i].first = a.tools[t].first
  <2>1. c.tools[t] > 0 /\ a.tools[t] = c.out[c.tools[t]]
    BY <1>3 DEF Matches, SameTools
  <2>2. c.tools[t] \in DOMAIN c.out
    BY <1>1, <2>1
  <2>3. c.out[c.tools[t]].role = "tool"
    BY <2>1 DEF ListInv
  <2>4. QED
    BY <2>1, <2>2, <2>3
<1>4. QED
  BY <1>2, <1>3 DEF Fits, ToolsIn

----------------------------------------------------------------------------
(* From the snapshot to the subscription *)

\* The snapshot of a log without a stop warms the stream up to its chat.
LEMMA WarmMatches ==
  ASSUME log \in Seq(Frames), NEW h \in 0..Len(log), ~StopIn(Whole(h))
  PROVE  Matches(Warm(Whole(h)), All[h])
<1>1. PICK ns : ns = Whole(h)
  OBVIOUS
<1>2. /\ Numbers(ns) /\ Len(ns) = h /\ (\A k \in 1..h : ns[k] = k) /\ \A k \in 0..h : EndsAt(ns, k) = k
  BY <1>1, WholeNumbers
<1>3. h \in Nat /\ h \in 0..h /\ h <= Len(log) /\ Len(log) \in Nat
  OBVIOUS
<1>4. PICK w : /\ w[0] = NoAgg /\ Warm(ns) = w[h]
               /\ \A k \in 1..h : w[k] = Step(w[k - 1], ns[k]).agg
               /\ \A k \in 0..h : w[k] \in Aggs(Early(h, EndsAt(ns, k)))
  <2>1. \A k \in 1..Len(ns) : Speaks(ns[k]) => ns[k] <= h
    BY <1>2, <1>3
  <2>2. PICK w : /\ w[0] = NoAgg /\ Warm(ns) = w[Len(ns)]
                 /\ \A k \in 1..Len(ns) : w[k] = Step(w[k - 1], ns[k]).agg
                 /\ \A k \in 0..Len(ns) : w[k] \in Aggs(Early(h, EndsAt(ns, k)))
    BY <1>2, <1>3, <2>1, WarmFollows
  <2>3. QED
    BY <1>2, <2>2
<1>5. \A k \in 0..h : w[k] \in Aggs(k)
  <2>1. \A k \in 0..h : Early(h, EndsAt(ns, k)) = k
    BY <1>2, <1>3 DEF Early
  <2>2. QED
    BY <1>4, <2>1
<1>6. \A k \in 1..h : log[k].kind # "stop"
  <2>1. ~StopIn(ns) /\ DOMAIN ns = 1..h
    BY <1>1, <1>2, EndsKind
  <2>2. QED
    BY <1>2, <2>1 DEF StopIn
<1>7. PICK c : /\ c = All /\ Grows(c, Len(log)) /\ \A k \in 0..Len(log) : c[k] \in Chats(k) /\ ListInv(c[k]) /\ Exact(c[k])
  BY AllBegins, AllExact
<1> DEFINE P == {k \in 0..h : Matches(w[k], c[k])}
<1>8. 0 \in P
  <2>1. w[0] = NoAgg /\ c[0] = NoChat
    BY <1>4, <1>7 DEF Grows
  <2>2. Matches(NoAgg, NoChat)
    BY DEF Matches, SameOpen, SameTools, NoAgg, NoChat
  <2>3. QED
    BY <1>3, <2>1, <2>2
<1>9. ASSUME NEW k \in 1..h, k - 1 \in P
      PROVE  k \in P
  <2>1. PICK p, a, b : p = k - 1 /\ a = w[k - 1] /\ b = c[k - 1]
    OBVIOUS
  <2>2. /\ p \in Nat /\ p < k /\ k \in 1..Len(log) /\ p \in 0..h /\ p \in 0..Len(log) /\ k \in 0..h
    BY <1>3, <2>1
  <2>3. /\ a \in Aggs(p) /\ b \in Chats(p) /\ ListInv(b) /\ Exact(b) /\ Matches(a, b)
    BY <1>5, <1>7, <1>9, <2>1, <2>2
  <2>4. w[k] = Step(a, k).agg /\ c[k] = ChatStep(b, k)
    BY <1>2, <1>4, <1>7, <2>1, <2>2 DEF Grows
  <2>5. Together(b, a, k)
    BY <1>6, <2>2, <2>3, MatchesStep
  <2>6. QED
    BY <2>2, <2>4, <2>5 DEF Together
<1> HIDE DEF P
<1>10. \A k \in 0..h : k \in P
  BY <1>3, <1>8, <1>9, UpTo
<1>11. QED
  BY <1>1, <1>3, <1>4, <1>7, <1>10 DEF P

\* A message of ms has the number n or one above it.
Latest(ms, n) == \E i \in DOMAIN ms : n <= ms[i].seq

\* A frame that changes the chat gives a message its number.
LEMMA ChangeShows ==
  ASSUME log \in Seq(Frames), NEW n \in 1..Len(log), NEW p \in Nat, p < n, NEW c \in Chats(p), ChatStep(c, n) # c
  PROVE  Latest(ChatStep(c, n).out, n)
<1> SUFFICES ASSUME NEW out, NEW tools, NEW x, NEW t, out = c.out, tools = c.tools,
                    x = ChatStep(c, n).out, t = ChatStep(c, n).tools
             PROVE  Latest(ChatStep(c, n).out, n)
  OBVIOUS
<1> SUFFICES Latest(x, n)
  OBVIOUS
<1>1. /\ out \in Seq(Upto(p)) /\ ChatShape(out, tools, x, t, n) /\ n \in Nat
  BY ChatStepShape
<1>2. x # out \/ t # tools
  <2>1. /\ c = [out |-> out, tools |-> tools]
    BY DEF Chats
  <2>2. ChatStep(c, n) \in Chats(n)
    BY <1>1, ChatStepKind
  <2>3. ChatStep(c, n) = [out |-> x, tools |-> t]
    BY <2>2 DEF Chats
  <2>4. QED
    BY <2>1, <2>3
<1>3. \E k \in DOMAIN x : x[k].seq = n
  <2>1. ASSUME NEW g, NEW k, Exchanged(out, k, g, x), g.seq = n
        PROVE  \E i \in DOMAIN x : x[i].seq = n
    BY <2>1 DEF Exchanged
  <2>2. ASSUME NEW g, Appended(out, g, x), g.seq = n
        PROVE  \E i \in DOMAIN x : x[i].seq = n
    <3>1. Len(out) + 1 \in DOMAIN x /\ x[Len(out) + 1] = g
      BY <1>1, <2>2 DEF Appended
    <3>2. QED
      BY <2>2, <3>1
  <2>3. CASE Merges(out, n)
    <3>1. PICK m : m = out[Len(out)] /\ Exchanged(out, Len(out), Grown(m, n), x)
      BY <1>1, <2>3 DEF ChatShape
    <3>2. m \in Messages
      BY <1>1, <3>1 DEF Exchanged, Upto
    <3>3. Grown(m, n).seq = n
      BY <1>1, <3>2, MessageFields
    <3>4. QED
      BY <2>1, <3>1, <3>3
  <2>4. CASE Begins(out, n)
    BY <1>1, <2>2, <2>4, Zenon DEF ChatShape, Bubble
  <2>5. CASE log[n].kind = "start"
    BY <1>1, <2>2, <2>5 DEF ChatShape, Tool
  <2>6. CASE Ends(tools, n)
    <3>1. PICK k, m : m = out[k] /\ Exchanged(out, k, Ended(m, n, "ok"), x)
      BY <1>1, <2>6 DEF ChatShape
    <3>2. m \in Messages
      BY <1>1, <3>1 DEF Exchanged, Upto
    <3>3. Ended(m, n, "ok").seq = n
      BY <3>2 DEF Ended, Messages
    <3>4. QED
      BY <2>1, <3>1, <3>3
  <2>7. CASE ~IsText(n) /\ log[n].kind # "start" /\ ~Ends(tools, n)
    BY <1>1, <1>2, <2>7 DEF ChatShape
  <2>8. QED
    BY <2>3, <2>4, <2>5, <2>6, <2>7 DEF Merges, Begins
<1>4. QED
  BY <1>1, <1>3 DEF Latest

\* A chat none of whose messages has a number above q is the one of the first q frames.
LEMMA Settled ==
  ASSUME log \in Seq(Frames), NEW h \in 0..Len(log), NEW q \in 0..h,
         \A i \in DOMAIN All[h].out : All[h].out[i].seq <= q
  PROVE  All[h] = All[q]
<1>1. h \in Nat /\ q \in Nat /\ h \in 0..h /\ q <= h /\ Len(log) \in Nat /\ h <= Len(log)
  OBVIOUS
<1>2. PICK c : c = All /\ Grows(c, Len(log)) /\ \A k \in 0..Len(log) : c[k] \in Chats(k)
  BY AllBegins
<1>3. \A i \in DOMAIN c[h].out : c[h].out[i].seq <= q
  BY <1>2
<1>4. ASSUME NEW k \in 1..h
      PROVE  /\ c[k] = ChatStep(c[k - 1], k) /\ k \in 1..Len(log) /\ k - 1 \in Nat /\ k - 1 < k
             /\ c[k - 1] \in Chats(k - 1) /\ c[k] \in Chats(k)
             /\ Keeps(c[k - 1].out, c[k].out)
  <2>1. k \in 1..Len(log) /\ k - 1 \in Nat /\ k - 1 < k /\ k - 1 \in 0..Len(log) /\ k \in 0..Len(log)
    BY <1>1
  <2>2. PICK b, p : b = c[k - 1] /\ p = k - 1
    OBVIOUS
  <2>3. c[k] = ChatStep(b, k) /\ b \in Chats(p) /\ c[k] \in Chats(k)
    BY <1>2, <2>1, <2>2 DEF Grows
  <2>4. Keeps(b.out, ChatStep(b, k).out)
    BY <2>1, <2>2, <2>3, ChatStepKind
  <2>5. QED
    BY <2>1, <2>2, <2>3, <2>4
<1>5. ASSUME NEW k \in 1..h, q < k
      PROVE  c[k] = c[k - 1]
  <2>1. SUFFICES ASSUME c[k] # c[k - 1] PROVE FALSE
    OBVIOUS
  <2>2. Latest(c[k].out, k)
    <3>1. PICK b, p : b = c[k - 1] /\ p = k - 1
      OBVIOUS
    <3>2. b \in Chats(p) /\ p \in Nat /\ p < k /\ k \in 1..Len(log) /\ c[k] = ChatStep(b, k) /\ ChatStep(b, k) # b
      BY <1>4, <2>1, <3>1
    <3>3. QED
      BY <3>2, ChangeShows
  <2> DEFINE P == {l \in 0..h : l < k \/ Latest(c[l].out, k)}
  <2>3. 0 \in P
    BY <1>1
  <2>4. ASSUME NEW l \in 1..h, l - 1 \in P
        PROVE  l \in P
    <3>1. CASE l < k
      BY <3>1
    <3>2. CASE l = k
      BY <2>2, <3>2
    <3>3. CASE l > k
      <4>1. ~(l - 1 < k)
        BY <3>3
      <4>2. PICK i \in DOMAIN c[l - 1].out : k <= c[l - 1].out[i].seq
        BY <2>4, <4>1 DEF Latest
      <4>3. i \in DOMAIN c[l].out /\ c[l - 1].out[i].seq <= c[l].out[i].seq
        BY <1>4, <4>2 DEF Keeps
      <4>4. c[l - 1].out[i].seq \in Nat /\ c[l].out[i].seq \in Nat
        <5>1. c[l - 1].out \in Seq(Upto(l - 1)) /\ c[l].out \in Seq(Upto(l))
          BY <1>4 DEF Chats
        <5>2. c[l - 1].out[i] \in Upto(l - 1) /\ c[l].out[i] \in Upto(l)
          BY <4>2, <4>3, <5>1
        <5>3. QED
          BY <5>2 DEF Upto, Messages
      <4>5. k <= c[l].out[i].seq
        BY <4>2, <4>3, <4>4
      <4>6. QED
        BY <4>3, <4>5 DEF Latest
    <3>4. QED
      BY <3>1, <3>2, <3>3
  <2> HIDE DEF P
  <2>5. \A l \in 0..h : l \in P
    BY <1>1, <2>3, <2>4, UpTo
  <2>6. PICK i \in DOMAIN c[h].out : k <= c[h].out[i].seq
    BY <1>1, <2>5 DEF P, Latest
  <2>7. c[h].out[i].seq \in Nat
    <3>1. c[h].out \in Seq(Upto(h))
      BY <1>1, <1>2 DEF Chats
    <3>2. c[h].out[i] \in Upto(h)
      BY <2>6, <3>1
    <3>3. QED
      BY <3>2 DEF Upto, Messages
  <2>8. c[h].out[i].seq <= q
    BY <1>3, <2>6
  <2>9. QED
    BY <1>1, <1>5, <2>6, <2>7, <2>8
<1> DEFINE Q == {k \in 0..h : k <= q \/ c[k] = c[q]}
<1>6. 0 \in Q
  BY <1>1
<1>7. ASSUME NEW k \in 1..h, k - 1 \in Q
      PROVE  k \in Q
  <2>1. CASE k <= q
    BY <2>1
  <2>2. CASE k - 1 = q
    BY <1>1, <1>5, <2>2
  <2>3. CASE ~(k <= q) /\ k - 1 # q
    BY <1>1, <1>5, <1>7, <2>3
  <2>4. QED
    BY <2>1, <2>2, <2>3
<1> HIDE DEF Q
<1>8. \A k \in 0..h : k \in Q
  BY <1>1, <1>6, <1>7, UpTo
<1>9. QED
  BY <1>1, <1>2, <1>8 DEF Q

----------------------------------------------------------------------------
(* The stream follows the chat *)

\* A filter that keeps all leaves the list.
LEMMA FilterAll ==
  ASSUME NEW M, NEW ms \in Seq(M), NEW n, \A i \in DOMAIN ms : ms[i].seq > n
  PROVE  filterSince(ms, n) = ms
<1> DEFINE l == Len(ms)
           G(g) == g = [k \in 0..l |-> IF k = 0 THEN <<>>
                                       ELSE IF ms[k].seq > n THEN Append(g[k - 1], ms[k]) ELSE g[k - 1]]
           s == [k \in 0..l |-> SubSeq(ms, 1, k)]
           c == CHOOSE g : G(g)
<1>1. l \in Nat /\ l \in 0..l /\ 0 \in 0..l /\ \A k \in 1..l : k - 1 \in 0..l /\ k \in 0..l /\ k # 0 /\ k \in DOMAIN ms
  OBVIOUS
<1>2. \A k \in 1..l : SubSeq(ms, 1, k) = Append(SubSeq(ms, 1, k - 1), ms[k])
  <2>1. ASSUME NEW k \in 1..l
        PROVE  SubSeq(ms, 1, k) = Append(SubSeq(ms, 1, k - 1), ms[k])
    OBVIOUS
  <2>2. QED
    BY <2>1
<1>3. SubSeq(ms, 1, 0) = <<>> /\ SubSeq(ms, 1, l) = ms
  OBVIOUS
<1> HIDE DEF l
<1>4. ASSUME NEW k \in 0..l
      PROVE  s[k] = IF k = 0 THEN <<>>
                    ELSE IF ms[k].seq > n THEN Append(s[k - 1], ms[k]) ELSE s[k - 1]
  <2>1. CASE k = 0
    BY <1>3, <2>1
  <2>2. CASE k # 0
    <3>1. k \in 1..l
      BY <1>1, <2>2
    <3>2. s[k] = SubSeq(ms, 1, k) /\ s[k - 1] = SubSeq(ms, 1, k - 1) /\ ms[k].seq > n
      BY <1>1, <3>1
    <3> HIDE DEF s
    <3>3. QED
      BY <1>2, <2>2, <3>1, <3>2
  <2>3. QED
    BY <2>1, <2>2
<1>5. G(s)
  <2>1. s = [k \in 0..l |-> s[k]]
    OBVIOUS
  <2> HIDE DEF s
  <2>2. QED
    BY <1>4, <2>1
<1>6. G(c) /\ filterSince(ms, n) = c[l]
  <2>1. filterSince(ms, n) = c[l]
    BY DEF filterSince, l
  <2> HIDE DEF G, s
  <2>2. QED
    BY <1>5, <2>1
<1> DEFINE P == {k \in 0..l : c[k] = s[k]}
<1> HIDE DEF c, s
<1>7. 0 \in P
  BY <1>1, <1>5, <1>6
<1>8. ASSUME NEW k \in 1..l, k - 1 \in P
      PROVE  k \in P
  <2>1. k \in 0..l /\ k # 0 /\ c[k - 1] = s[k - 1]
    BY <1>1, <1>8
  <2>2. /\ c[k] = IF ms[k].seq > n THEN Append(c[k - 1], ms[k]) ELSE c[k - 1]
        /\ s[k] = IF ms[k].seq > n THEN Append(s[k - 1], ms[k]) ELSE s[k - 1]
    BY <1>5, <1>6, <2>1
  <2>3. QED
    BY <2>1, <2>2
<1> HIDE DEF P, G
<1>9. \A k \in 0..l : k \in P
  BY <1>1, <1>7, <1>8, UpTo
<1>10. s[l] = ms
  BY <1>1, <1>3 DEF s
<1>11. QED
  BY <1>1, <1>6, <1>9, <1>10 DEF P

\* What follows n is what has come since, where the ring has lost none of it.
LEMMA NewerWhole ==
  ASSUME log \in Seq(Frames), NEW n \in 0..Len(log), (n + 1)..Forgotten = {}
  PROVE  Len(Newer(n)) = Len(log) - n /\ \A i \in 1..(Len(log) - n) : Newer(n)[i] = n + i
<1>1. Forgotten \in 0..Len(log) /\ Len(log) \in Nat /\ n \in Nat
  BY NewerKind
<1>2. ~(Forgotten > n)
  <2>1. Forgotten > n => n + 1 \in (n + 1)..Forgotten
    BY <1>1
  <2>2. QED
    BY <2>1
<1>3. Newer(n) = [i \in 1..(Len(log) - n) |-> n + i]
  BY <1>1, <1>2 DEF Newer
<1>4. Len(log) - n \in Nat
  BY <1>1
<1>5. QED
  BY <1>3, <1>4

\* A stream from the start that has lost nothing, and saw no stop in its snapshot.
Unbroken == since = 0 /\ gone = {} /\ overrun = {} /\ ~StopIn(snap)

\* The client has read the first h frames.
UpToDate(ms, a, h) ==
  /\ Fits(ms, a, All[h])
  /\ ~StopIn(Whole(h)) => ms = All[h].out /\ Matches(a, All[h])

\* The frames after the first h.
Waiting(q, h) == Len(q) = Len(log) - h /\ \A i \in 1..Len(q) : q[i] = h + i

\* Until it subscribes, such a stream shows the chat of its snapshot; after
\* that it has read the log up to its queue, which is all the rest.
HistoryFollows ==
  pc = "history" /\ Unbroken =>
    \E h \in 0..Len(log) : snap = Whole(h) /\ Pending = All[h].out
LiveFollows ==
  pc = "live" /\ registered /\ Unbroken =>
    \E h \in 0..Len(log) : Waiting(queue, h) /\ UpToDate(view, agg, h)
FollowInv == HistoryFollows /\ LiveFollows

\* What it has read it has still read when the log has grown.
LEMMA UpToDateStays ==
  ASSUME LogStays, NEW ms, NEW a, NEW h \in 0..Len(log), UpToDate(ms, a, h)
  PROVE  UpToDate(ms, a, h)'
<1>1. All'[h] = All[h]
  BY AllStays
<1>2. StopIn(Whole(h))' <=> StopIn(Whole(h))
  <2>1. PICK ns : ns = Whole(h)
    OBVIOUS
  <2>2. Numbers(ns)
    BY <2>1, WholeNumbers DEF LogStays
  <2>3. StopIn(ns)' <=> StopIn(ns)
    BY <2>2, NumbersStay
  <2>4. Whole(h)' = ns
    BY <2>1 DEF Whole
  <2>5. QED
    BY <2>1, <2>3, <2>4 DEF StopIn
<1>3. PICK c : c = All[h]
  OBVIOUS
<1>4. Fits(ms, a, c)' = Fits(ms, a, c) /\ Matches(a, c)' = Matches(a, c)
  BY DEF Fits, OpenLast, ToolsIn, Joined, Join, Matches, SameOpen, SameTools
<1>5. QED
  BY <1>1, <1>2, <1>3, <1>4 DEF UpToDate

\* A stream that has lost nothing had lost nothing.
LEMMA UnbrokenBefore ==
  ASSUME TypeInv, LogStays, UNCHANGED <<since, snap>>, gone \subseteq gone', overrun \subseteq overrun', Unbroken'
  PROVE  Unbroken
<1>1. StopIn(snap)' <=> StopIn(snap)
  <2>1. PICK ns : ns = snap /\ Numbers(ns)
    BY DEF TypeInv
  <2>2. StopIn(ns)' <=> StopIn(ns)
    BY <2>1, NumbersStay
  <2>3. QED
    BY <2>1, <2>2 DEF StopIn
<1>2. QED
  BY <1>1 DEF Unbroken

\* The stream after each step.
LEMMA FollowPublish ==
  ASSUME ChatInv, FollowInv, NEW f \in Frames, Publish(f)
  PROVE  FollowInv'
<1>0. TypeInv
  BY DEF ChatInv
<1>1. /\ log' = Append(log, f) /\ UNCHANGED <<pc, since, snap, hist, agg, view, gone, overrun>>
      /\ (queue' = queue /\ registered' = FALSE) \/ (registered' = registered /\ (registered => queue' = Append(queue, Len(log'))))
  BY DEF Publish
<1>2. LogStays /\ Len(log') = Len(log) + 1 /\ Len(log) \in Nat
  <2>1. log \in Seq(Frames)
    BY <1>0 DEF TypeInv
  <2>2. QED
    BY <1>1, <2>1, LogGrows
<1>3. Unbroken' => Unbroken
  BY <1>0, <1>1, <1>2, UnbrokenBefore
<1>4. \A h \in 0..Len(log) : h \in 0..Len(log') /\ All'[h] = All[h]
  BY <1>2, AllStays
<1>5. HistoryFollows'
  <2>1. SUFFICES ASSUME (pc = "history")', Unbroken'
                 PROVE  \E h \in 0..Len(log') : snap' = Whole(h)' /\ Pending' = All'[h].out
    BY DEF HistoryFollows
  <2>2. PICK h \in 0..Len(log) : snap = Whole(h) /\ Pending = All[h].out
    BY <1>1, <1>3, <2>1 DEF FollowInv, HistoryFollows
  <2>3. snap' = Whole(h)' /\ Pending' = Pending
    BY <1>1, <2>2 DEF Whole, Pending
  <2>4. QED
    BY <1>4, <2>2, <2>3
<1>6. LiveFollows'
  <2>1. SUFFICES ASSUME (pc = "live")', registered', Unbroken'
                 PROVE  (\E h \in 0..Len(log) : Waiting(queue, h) /\ UpToDate(view, agg, h))'
    BY DEF LiveFollows
  <2>2. registered' = registered /\ registered /\ queue' = Append(queue, Len(log'))
    BY <1>1, <2>1
  <2>3. PICK h \in 0..Len(log) : Waiting(queue, h) /\ UpToDate(view, agg, h)
    BY <1>1, <1>3, <2>1, <2>2 DEF FollowInv, LiveFollows
  <2>4. Waiting(queue, h)'
    <3>1. PICK nq, m : nq = Append(queue, m) /\ m = Len(log')
      OBVIOUS
    <3>2. queue \in Seq(Nat) /\ m \in Nat
      BY <1>0, <1>2, <3>1 DEF TypeInv, Numbers
    <3>3. /\ Len(queue) \in Nat /\ Len(nq) = Len(queue) + 1 /\ nq[Len(queue) + 1] = m
          /\ \A i \in 1..Len(queue) : nq[i] = queue[i]
      BY <3>1, <3>2, AppendSet
    <3>4. Len(queue) = Len(log) - h /\ \A i \in 1..Len(queue) : queue[i] = h + i
      BY <2>3 DEF Waiting
    <3>5. Len(nq) = m - h
      BY <1>2, <3>1, <3>3, <3>4
    <3>6. ASSUME NEW i \in 1..Len(nq)
          PROVE  nq[i] = h + i
      <4>1. i \in 1..Len(queue) \/ i = Len(queue) + 1
        BY <3>3
      <4>2. m = h + (Len(queue) + 1)
        BY <1>2, <3>1, <3>4
      <4>3. QED
        BY <3>3, <3>4, <4>1, <4>2
    <3>7. queue' = nq /\ m = Len(log')
      BY <2>2, <3>1
    <3>8. QED
      BY <3>5, <3>6, <3>7 DEF Waiting
  <2>5. UpToDate(view, agg, h)'
    <3>1. PICK ms, a : ms = view /\ a = agg
      OBVIOUS
    <3>2. UpToDate(ms, a, h)'
      BY <1>2, <2>3, <3>1, UpToDateStays
    <3>3. view' = ms /\ agg' = a
      BY <1>1, <3>1
    <3>4. QED
      BY <3>2, <3>3 DEF UpToDate
  <2>6. QED
    BY <1>4, <2>4, <2>5
<1>7. QED
  BY <1>5, <1>6 DEF FollowInv

\* A stream starts with the chat of its whole snapshot.
LEMMA FollowConnect ==
  ASSUME ChatInv, Connect
  PROVE  FollowInv'
<1>0. TypeInv /\ log \in Seq(Frames) /\ last \in 0..Len(log) /\ Len(log) \in Nat
  BY DEF ChatInv, TypeInv
<1>1. /\ pc' = "history" /\ since' = last /\ snap' = Snapshot
      /\ hist' = filterSince(aggregateChat(Snapshot), last)
      /\ view' = <<>> /\ gone' = gone \cup (last + 1)..Forgotten /\ log' = log
  BY DEF Connect
<1>2. LiveFollows'
  BY <1>1 DEF LiveFollows
<1>3. ASSUME Unbroken'
      PROVE  \E h \in 0..Len(log') : snap' = Whole(h)' /\ Pending' = All'[h].out
  <2>1. last = 0 /\ (0 + 1)..Forgotten = {}
    BY <1>1, <1>3 DEF Unbroken
  <2>2. PICK h \in 0..Len(log) : h = Len(log)
    BY <1>0
  <2>3. Snapshot = Whole(h)
    <3>1. PICK ns : ns = Newer(0)
      OBVIOUS
    <3>2. Len(ns) = h - 0 /\ \A i \in 1..(h - 0) : ns[i] = 0 + i
      BY <1>0, <2>1, <2>2, <3>1, NewerWhole
    <3>3. Numbers(ns)
      BY <1>0, <2>1, <3>1, NewerKind
    <3>4. ns \in Seq(Nat) /\ Len(ns) = h /\ \A i \in 1..h : ns[i] = i
      BY <3>2, <3>3 DEF Numbers
    <3>5. ns = [i \in 1..h |-> i]
      BY <3>4
    <3>6. QED
      BY <3>1, <3>5 DEF Snapshot, Whole
  <2>4. PICK out : out = All[h].out /\ out \in Seq(Upto(h)) /\ aggregateChat(Snapshot) = out
    BY <1>0, <2>3, AllBegins DEF Chats
  <2>5. \A i \in DOMAIN out : out[i].seq > 0
    <3>1. ASSUME NEW i \in DOMAIN out
          PROVE  out[i].seq > 0
      <4>1. out[i] \in Upto(h)
        BY <2>4
      <4>2. QED
        BY <4>1, MessageKind
    <3>2. QED
      BY <3>1
  <2>6. hist' = out
    BY <1>1, <2>1, <2>4, <2>5, FilterAll
  <2>7. Pending' = out
    <3>1. Pending' = <<>> \o out
      BY <1>1, <2>6 DEF Pending
    <3>2. <<>> \o out = out
      BY <2>4
    <3>3. QED
      BY <3>1, <3>2
  <2>8. LogStays
    BY <1>0, <1>1, LogSame
  <2>9. All'[h] = All[h] /\ Whole(h)' = Whole(h) /\ h \in 0..Len(log')
    BY <1>1, <2>8, AllStays DEF Whole
  <2>10. QED
    BY <1>1, <2>3, <2>4, <2>7, <2>9
<1>4. HistoryFollows'
  BY <1>3 DEF HistoryFollows
<1>5. QED
  BY <1>2, <1>4 DEF FollowInv

\* A message of the snapshot that is written stays in what the stream shows.
LEMMA FollowHistory ==
  ASSUME ChatInv, FollowInv, WriteHistory
  PROVE  FollowInv'
<1>0. TypeInv
  BY DEF ChatInv
<1>1. /\ pc = "history" /\ hist # <<>> /\ hist' = Tail(hist) /\ view' = Append(view, Head(hist))
      /\ UNCHANGED <<log, pc, since, snap, gone, overrun>>
  BY DEF WriteHistory, lostVars
<1>2. LogStays
  BY <1>0, <1>1, LogSame
<1>3. Unbroken' => Unbroken
  BY <1>0, <1>1, <1>2, UnbrokenBefore
<1>4. LiveFollows'
  BY <1>1 DEF LiveFollows
<1>5. Pending' = Pending
  <2>1. PICK v, s : v = view /\ s = hist
    OBVIOUS
  <2>2. v \in Seq(Upto(Len(log))) /\ s \in Seq(Upto(Len(log))) /\ s # <<>>
    BY <1>0, <1>1, <2>1 DEF TypeInv
  <2>3. Append(v, Head(s)) \o Tail(s) = v \o s
    BY <2>2, HeadMoves
  <2>4. QED
    BY <1>1, <2>1, <2>3 DEF Pending
<1>6. ASSUME Unbroken'
      PROVE  \E h \in 0..Len(log') : snap' = Whole(h)' /\ Pending' = All'[h].out
  <2>1. PICK h \in 0..Len(log) : snap = Whole(h) /\ Pending = All[h].out
    BY <1>1, <1>3, <1>6 DEF FollowInv, HistoryFollows
  <2>2. All'[h] = All[h] /\ Whole(h)' = Whole(h) /\ h \in 0..Len(log')
    BY <1>1, <1>2, AllStays DEF Whole
  <2>3. QED
    BY <1>1, <1>5, <2>1, <2>2
<1>7. HistoryFollows'
  BY <1>6 DEF HistoryFollows
<1>8. QED
  BY <1>4, <1>7 DEF FollowInv

\* The whole of what follows n is in the queue when the replay leaves none out.
LEMMA ReplayWhole ==
  ASSUME log \in Seq(Frames), NEW n \in 0..Len(log), (n + 1)..Forgotten = {}, NEW size \in 0..Len(Newer(n)),
         NEW nq, nq = SubSeq(Newer(n), 1, size), ToSet(Newer(n)) \subseteq ToSet(nq)
  PROVE  Waiting(nq, n)
<1> DEFINE l == Len(log) - n
<1>0. l \in Nat /\ n \in Nat /\ Len(log) \in Nat
  OBVIOUS
<1>1. PICK new : new = Newer(n)
  OBVIOUS
<1>2. Numbers(new)
  <2>1. Numbers(Newer(n))
    BY NewerKind
  <2>2. QED
    BY <1>1, <2>1
<1>3. Len(new) = l /\ \A i \in 1..l : new[i] = n + i
  <2>1. Len(Newer(n)) = l /\ \A i \in 1..l : Newer(n)[i] = n + i
    BY NewerWhole
  <2>2. QED
    BY <1>1, <2>1
<1>4. DOMAIN new = 1..l
  BY <1>2, <1>3 DEF Numbers
<1>5. size \in 0..Len(new) /\ nq = SubSeq(new, 1, size) /\ ToSet(new) \subseteq ToSet(nq)
  BY <1>1
<1>6. Numbers(nq) /\ Len(nq) = size /\ \A i \in 1..size : nq[i] = new[i]
  <2>1. ASSUME NEW k \in 0..Len(new)
        PROVE  LET s == SubSeq(new, 1, k) IN Numbers(s) /\ Len(s) = k /\ \A i \in 1..k : s[i] = new[i]
    BY <1>2, NumbersCut
  <2>2. size \in 0..Len(new)
    BY <1>5
  <2>3. QED
    BY <1>5, <2>1, <2>2, Zenon
<1>7. DOMAIN nq = 1..size
  BY <1>5, <1>6 DEF Numbers
<1> HIDE DEF l
<1>8. size \in 0..l
  BY <1>3, <1>5
<1>9. size = l
  <2>1. CASE size = l
    BY <2>1
  <2>2. CASE size # l
    <3>1. l \in 1..l /\ size < l
      BY <1>0, <1>8, <2>2
    <3>2. new[l] \in ToSet(new)
      BY <1>4, <3>1 DEF ToSet
    <3>3. PICK i \in 1..size : nq[i] = new[l]
      BY <1>5, <1>7, <3>2 DEF ToSet
    <3>4. i \in 1..l /\ i < l
      BY <1>0, <1>8, <3>1
    <3>5. n + i = n + l
      BY <1>3, <1>6, <3>1, <3>3, <3>4
    <3>6. QED
      BY <1>0, <3>4, <3>5
  <2>3. QED
    BY <2>1, <2>2
<1>10. QED
  BY <1>3, <1>6, <1>9 DEF Waiting, l

\* A stream that subscribes has been shown the chat of all it resumes after.
LEMMA FollowSubscribe ==
  ASSUME ChatInv, FollowInv, Subscribe
  PROVE  FollowInv'
<1>0. TypeInv /\ log \in Seq(Frames) /\ Len(log) \in Nat /\ view \in Seq(Upto(Len(log)))
  BY DEF ChatInv, TypeInv
<1>1. PICK q, new : q = StartsFrom /\ new = Newer(q)
  OBVIOUS
<1>2. PICK size : size = IF Len(new) < ChanCap THEN Len(new) ELSE ChanCap
  OBVIOUS
<1>3. /\ pc = "history" /\ hist = <<>> /\ agg' = Warm(snap) /\ pc' = "live" /\ registered' = TRUE
      /\ queue' = SubSeq(new, 1, size)
      /\ overrun' = overrun \cup (ToSet(new) \ ToSet(queue'))
      /\ gone' = gone \cup (q + 1)..Forgotten
      /\ UNCHANGED <<log, since, snap, view>>
  BY <1>1, <1>2 DEF Subscribe, Register, StartsFrom
<1>4. HistoryFollows'
  BY <1>3 DEF HistoryFollows
<1>5. LogStays
  BY <1>0, <1>3, LogSame
<1>6. /\ q \in 0..Len(log) /\ (view = <<>> => q = since) /\ (view # <<>> => q <= Top)
      /\ \A m \in Nat : Reach(view, m) => m <= q
  BY <1>1, <1>3, StartReaches
<1>7. ASSUME Unbroken'
      PROVE  \E h \in 0..Len(log') : Waiting(queue, h)' /\ UpToDate(view, agg, h)'
  <2>1. Unbroken
    BY <1>0, <1>3, <1>5, <1>7, UnbrokenBefore
  <2>2. PICK h \in 0..Len(log) : snap = Whole(h) /\ Pending = All[h].out
    BY <1>3, <2>1 DEF FollowInv, HistoryFollows
  <2>3. view = All[h].out
    BY <1>0, <1>3, <2>2 DEF Pending
  <2>4. Top = h
    <3>1. EndsAt(Whole(h), h) = h /\ Len(Whole(h)) = h
      BY <1>0, WholeNumbers
    <3>2. QED
      BY <2>2, <3>1 DEF Top
  <2>5. q \in 0..h
    BY <1>6, <2>1, <2>4 DEF Unbroken
  <2>6. \A i \in DOMAIN All[h].out : All[h].out[i].seq <= q
    <3>1. ASSUME NEW i \in DOMAIN view
          PROVE  view[i].seq <= q
      <4>1. view[i] \in Upto(Len(log))
        BY <1>0
      <4>2. view[i].seq \in Nat
        BY <1>0, <4>1, MessageKind
      <4>3. view # <<>>
        BY <3>1
      <4>4. Reach(view, view[i].seq)
        BY <3>1, <4>3 DEF Reach
      <4>5. QED
        BY <1>6, <4>2, <4>4
    <3>2. QED
      BY <2>3, <3>1
  <2>7. All[h] = All[q]
    BY <1>0, <2>5, <2>6, Settled
  <2>8. Matches(Warm(snap), All[h])
    BY <1>0, <2>1, <2>2, WarmMatches DEF Unbroken
  <2>9. PICK ms, a, c : ms = view /\ a = Warm(snap) /\ c = All[q]
    OBVIOUS
  <2>10. ms = c.out /\ Matches(a, c)
    BY <2>3, <2>7, <2>8, <2>9
  <2>11. c \in Chats(q) /\ ListInv(c) /\ q \in Nat
    BY <1>0, <1>6, <2>9, AllBegins, AllExact
  <2>12. Fits(ms, a, c)
    BY <2>10, <2>11, MatchesFits
  <2>13. UpToDate(ms, a, q)
    BY <2>9, <2>10, <2>12 DEF UpToDate
  <2>14. UpToDate(view, agg, q)'
    <3>1. UpToDate(ms, a, q)'
      BY <1>5, <1>6, <2>13, UpToDateStays
    <3>2. view' = ms /\ agg' = a
      BY <1>3, <2>9
    <3>3. QED
      BY <3>1, <3>2 DEF UpToDate
  <2>15. Waiting(queue, q)'
    <3>1. (q + 1)..Forgotten = {} /\ ToSet(new) \subseteq ToSet(queue')
      BY <1>3, <1>7 DEF Unbroken
    <3>2. size \in 0..Len(new)
      <4>1. Numbers(new)
        BY <1>0, <1>1, <1>6, NewerKind
      <4>2. Len(new) \in Nat
        BY <4>1 DEF Numbers
      <4>3. QED
        BY <1>2, <4>2, Sizes
    <3>3. PICK nq : nq = queue'
      OBVIOUS
    <3>4. Waiting(nq, q)
      BY <1>0, <1>1, <1>3, <1>6, <3>1, <3>2, <3>3, ReplayWhole
    <3>5. QED
      BY <1>3, <3>3, <3>4 DEF Waiting
  <2>16. QED
    BY <1>3, <1>6, <2>14, <2>15
<1>8. LiveFollows'
  BY <1>7 DEF LiveFollows
<1>9. QED
  BY <1>4, <1>8 DEF FollowInv

\* A frame that the stream writes brings its client up to date with it.
LEMMA UpToDateStep ==
  ASSUME log \in Seq(Frames), NEW n \in 1..Len(log), NEW p \in Nat, p < n, NEW a \in Aggs(p),
         NEW ms \in Seq(Upto(p)), Tidy(ms), NEW h \in 0..Len(log), n = h + 1, UpToDate(ms, a, h)
  PROVE  UpToDate(Reads(ms, Step(a, n).out), Step(a, n).agg, n)
<1>1. Len(log) \in Nat /\ h \in Nat /\ p <= h /\ h < n /\ n \in 0..Len(log) /\ n - 1 = h
  OBVIOUS
<1>2. a \in Aggs(h) /\ ms \in Seq(Upto(h))
  BY <1>1, AggsGrow, UptoSeq
<1>3. PICK c, d : c = All[h] /\ d = All[n]
  OBVIOUS
<1>4. c \in Chats(h) /\ ListInv(c) /\ Exact(c) /\ d = ChatStep(c, n)
  BY <1>1, <1>3, AllBegins, AllExact DEF Grows
<1>5. Fits(ms, a, c) /\ (~StopIn(Whole(h)) => ms = c.out /\ Matches(a, c))
  BY <1>3 DEF UpToDate
<1>6. Fits(Reads(ms, Step(a, n).out), Step(a, n).agg, d)
  <2>1. Kept(ms, a, c, n)
    BY <1>1, <1>2, <1>4, <1>5, FitsStep
  <2>2. QED
    BY <1>4, <2>1 DEF Kept
<1>7. ASSUME ~StopIn(Whole(n))
      PROVE  Reads(ms, Step(a, n).out) = d.out /\ Matches(Step(a, n).agg, d)
  <2>1. log[n].kind # "stop" /\ ~StopIn(Whole(h))
    <3>1. \A k \in 1..n : log[k].kind # "stop"
      BY <1>7 DEF StopIn, Whole
    <3>2. 1..h \subseteq 1..n /\ n \in 1..n
      BY <1>1
    <3>3. QED
      BY <3>1, <3>2 DEF StopIn, Whole
  <2>2. Together(c, a, n)
    BY <1>1, <1>2, <1>4, <1>5, <2>1, MatchesStep
  <2>3. QED
    BY <1>4, <1>5, <2>1, <2>2 DEF Together
<1>8. QED
  BY <1>3, <1>6, <1>7 DEF UpToDate

\* A frame written from the queue is the next of the log.
LEMMA FollowLive ==
  ASSUME ChatInv, FollowInv, WriteLive
  PROVE  FollowInv'
<1>0. TypeInv /\ LiveInv /\ log \in Seq(Frames) /\ Len(log) \in Nat /\ Numbers(queue)
  BY DEF ChatInv, TypeInv
<1>1. PICK n, a, ms, nq : n = Head(queue) /\ a = agg /\ ms = view /\ nq = queue
  OBVIOUS
<1>2. /\ pc = "live" /\ nq # <<>> /\ agg' = Step(a, n).agg /\ view' = Reads(ms, Step(a, n).out) /\ queue' = Tail(nq)
      /\ UNCHANGED <<log, pc, since, snap, registered, gone, overrun>>
  BY <1>1 DEF WriteLive, lostVars
<1>3. LogStays
  BY <1>0, <1>2, LogSame
<1>4. HistoryFollows'
  BY <1>2 DEF HistoryFollows
<1>5. ASSUME registered', Unbroken'
      PROVE  \E h \in 0..Len(log') : Waiting(queue, h)' /\ UpToDate(view, agg, h)'
  <2>1. Unbroken
    BY <1>0, <1>2, <1>3, <1>5, UnbrokenBefore
  <2>2. PICK h \in 0..Len(log) : Waiting(nq, h) /\ UpToDate(ms, a, h)
    BY <1>1, <1>2, <1>5, <2>1 DEF FollowInv, LiveFollows
  <2>3. PICK p \in 0..Len(log) : a \in Aggs(p) /\ ms \in Seq(Upto(p)) /\ \A i \in DOMAIN nq : p < nq[i]
    BY <1>0, <1>1, <1>2 DEF LiveInv
  <2>4. nq \in Seq(Nat) /\ 1 \in DOMAIN nq /\ nq[1] = n /\ DOMAIN nq = 1..Len(nq) /\ Len(nq) \in Nat
    BY <1>0, <1>1, <1>2 DEF Numbers
  <2>5. n = h + 1 /\ n \in 1..Len(log) /\ p < n /\ p \in Nat /\ Len(nq) = Len(log) - h
    <3>1. Len(nq) = Len(log) - h /\ nq[1] = h + 1
      BY <2>2, <2>4 DEF Waiting
    <3>2. Len(nq) > 0
      BY <2>4
    <3>3. QED
      BY <1>0, <2>3, <2>4, <3>1, <3>2
  <2>6. Tidy(ms)
    BY <1>0, <1>1, <1>2 DEF LiveInv
  <2>7. PICK b, x : b = Step(a, n).agg /\ x = Reads(ms, Step(a, n).out)
    OBVIOUS
  <2>8. UpToDate(x, b, n)
    BY <1>0, <2>2, <2>3, <2>5, <2>6, <2>7, UpToDateStep
  <2>9. UpToDate(view, agg, n)'
    <3>1. n \in 0..Len(log)
      BY <2>5
    <3>2. UpToDate(x, b, n)'
      BY <1>3, <2>8, <3>1, UpToDateStays
    <3>3. view' = x /\ agg' = b
      BY <1>2, <2>7
    <3>4. QED
      BY <3>2, <3>3 DEF UpToDate
  <2>10. Waiting(queue, n)'
    <3>1. PICK s : s = Tail(nq)
      OBVIOUS
    <3>2. Len(s) = Len(nq) - 1 /\ \A i \in 1..Len(s) : s[i] = nq[i + 1] /\ i + 1 \in 1..Len(nq)
      BY <2>4, <3>1
    <3>3. \A i \in 1..Len(nq) : nq[i] = h + i
      BY <2>2 DEF Waiting
    <3>4. ASSUME NEW i \in 1..Len(s)
          PROVE  s[i] = n + i
      <4>1. s[i] = h + (i + 1)
        BY <3>2, <3>3
      <4>2. QED
        BY <2>5, <4>1
    <3>5. Len(s) = Len(log) - n
      BY <1>0, <2>5, <3>2
    <3>6. queue' = s
      BY <1>2, <3>1
    <3>7. QED
      BY <1>2, <3>4, <3>5, <3>6 DEF Waiting
  <2>11. QED
    BY <1>2, <2>5, <2>9, <2>10
<1>6. LiveFollows'
  BY <1>5 DEF LiveFollows
<1>7. QED
  BY <1>4, <1>6 DEF FollowInv

\* A client without a stream follows nothing.
LEMMA FollowQuiet ==
  ASSUME Poll \/ PollEnds \/ SeesClosed \/ Cut
  PROVE  FollowInv'
<1>1. pc' \in {"idle", "polled"}
  BY DEF Poll, PollEnds, SeesClosed, Cut, Leave
<1>2. QED
  BY <1>1 DEF FollowInv, HistoryFollows, LiveFollows

\* Nor does a stutter change what is read.
LEMMA FollowStutter ==
  ASSUME FollowInv, UNCHANGED vars
  PROVE  FollowInv'
<1>1. /\ UNCHANGED <<log, pc, since, snap, hist, agg, view, gone, overrun>>
      /\ UNCHANGED <<queue, registered>>
  BY DEF vars, subVars, lostVars
<1>2. All' = All
  BY <1>1 DEF All, ChatOf, ChatStep, Whole, Bubble, Grown, Tool, Ended, NoChat
<1>3. Unbroken' = Unbroken /\ Pending' = Pending
  BY <1>1 DEF Unbroken, StopIn, Pending
<1>4. ASSUME NEW h
      PROVE  Waiting(queue, h)' = Waiting(queue, h) /\ UpToDate(view, agg, h)' = UpToDate(view, agg, h)
  <2>1. Waiting(queue, h)' = Waiting(queue, h)
    BY <1>1 DEF Waiting
  <2>2. PICK c : c = All[h] /\ c = All'[h]
    BY <1>2
  <2>3. Fits(view, agg, c)' = Fits(view, agg, c) /\ Matches(agg, c)' = Matches(agg, c)
    BY <1>1 DEF Fits, OpenLast, ToolsIn, Joined, Join, Matches, SameOpen, SameTools
  <2>4. StopIn(Whole(h))' = StopIn(Whole(h))
    BY <1>1 DEF StopIn, Whole
  <2>5. QED
    BY <1>1, <2>1, <2>2, <2>3, <2>4 DEF UpToDate
<1>5. HistoryFollows' = HistoryFollows
  BY <1>1, <1>2, <1>3 DEF HistoryFollows, Whole
<1>6. LiveFollows' = LiveFollows
  BY <1>1, <1>3, <1>4 DEF LiveFollows
<1>7. QED
  BY <1>5, <1>6 DEF FollowInv

\* The stream follows the chat at the start,
LEMMA FollowInit == Init => FollowInv
BY DEF Init, FollowInv, HistoryFollows, LiveFollows

\* ... at every step,
LEMMA FollowNext == ChatInv /\ FollowInv /\ [Next]_vars => FollowInv'
<1> SUFFICES ASSUME ChatInv, FollowInv, [Next]_vars
             PROVE  FollowInv'
  OBVIOUS
<1>1. CASE \E f \in Frames : Publish(f)
  BY <1>1, FollowPublish
<1>2. CASE Poll \/ PollEnds \/ SeesClosed \/ Cut
  BY <1>2, FollowQuiet
<1>3. CASE Connect
  BY <1>3, FollowConnect
<1>4. CASE WriteHistory
  BY <1>4, FollowHistory
<1>5. CASE Subscribe
  BY <1>5, FollowSubscribe
<1>6. CASE WriteLive
  BY <1>6, FollowLive
<1>7. CASE UNCHANGED vars
  BY <1>7, FollowStutter
<1>8. QED
  BY <1>1, <1>2, <1>3, <1>4, <1>5, <1>6, <1>7 DEF Next

\* A stream that has read all there is has read all of the log.
LEMMA InvFollows == ChatInv /\ FollowInv => StreamFollows
<1> SUFFICES ASSUME ChatInv, FollowInv, CaughtUp, since = 0, gone \cup overrun = {}, ~StopIn(snap)
             PROVE  /\ Joined(view) = Joined(aggregateChat(Whole(Len(log))))
                    /\ ~StopIn(Whole(Len(log))) => view = aggregateChat(Whole(Len(log)))
  BY DEF StreamFollows, Whole
<1>1. log \in Seq(Frames) /\ Len(log) \in Nat /\ Len(log) \in 0..Len(log)
  BY DEF ChatInv, TypeInv
<1>2. pc = "live" /\ registered /\ queue = <<>> /\ Unbroken
  BY DEF CaughtUp, Unbroken
<1>3. PICK h \in 0..Len(log) : Waiting(queue, h) /\ UpToDate(view, agg, h)
  BY <1>2 DEF FollowInv, LiveFollows
<1>4. h = Len(log)
  BY <1>1, <1>2, <1>3 DEF Waiting
<1>5. aggregateChat(Whole(h)) = All[h].out
  BY <1>1, <1>4, AllBegins
<1>6. Joined(view) = Joined(All[h].out) /\ (~StopIn(Whole(h)) => view = All[h].out)
  BY <1>3 DEF UpToDate, Fits
<1>7. QED
  BY <1>4, <1>5, <1>6

----------------------------------------------------------------------------
(* What a stream has written *)

\* The texts T are the texts S and later ones, or none of S is in T.
GoesOnWith(S, T) == S \cap T = {} \/ (S \subseteq T /\ \A x \in S, y \in T \ S : x < y)
Tells(e) == e.event # "stop"
Words(e) == ToSet(e.msg.text)

\* Each message written is neat; of two, the later goes on with the earlier;
\* and what is open goes on with each.
Clean(es) == \A i \in DOMAIN es : Tells(es[i]) => Neat(es[i].msg)
Before(es, T) == \A i \in DOMAIN es : Tells(es[i]) => GoesOnWith(Words(es[i]), T)
Chained(es) ==
  \A i, j \in DOMAIN es : i < j /\ Tells(es[i]) /\ Tells(es[j]) => GoesOnWith(Words(es[i]), Words(es[j]))
Leads(es, open) == \A r \in Texts : open[r] # None => Before(es, ToSet(open[r].text))

\* An event of a snapshot's message for each of ms.
AsHistory(es, ms) == es = [i \in DOMAIN ms |-> Event("chat", ms[i])]

SentInv ==
  /\ pc \in {"idle", "polled"} => sent = <<>>
  /\ pc = "history" => AsHistory(sent, view)
  /\ pc = "live" =>
       /\ Clean(sent) /\ (~StopIn(snap) => Chained(sent) /\ Leads(sent, agg.open))
       /\ \E p \in 0..Len(log) : sent \in Seq(Events(p)) /\ \A i \in DOMAIN queue : p < queue[i]

\* Of two texts in their order, the first is the start of one that goes on with it.
LEMMA PrefixOf ==
  ASSUME NEW s \in Seq(Nat), NEW t \in Seq(Nat), GoesOnWith(ToSet(s), ToSet(t)), ToSet(s) \cap ToSet(t) # {},
         \A i, j \in DOMAIN s : j < i => s[j] < s[i], \A i, j \in DOMAIN t : j < i => t[j] < t[i]
  PROVE  IsPrefix(s, t)
<1>1. /\ DOMAIN s = 1..Len(s) /\ DOMAIN t = 1..Len(t) /\ Len(s) \in Nat /\ Len(t) \in Nat
      /\ (\A i \in DOMAIN s : s[i] \in Nat) /\ (\A i \in DOMAIN t : t[i] \in Nat)
  OBVIOUS
<1>2. ToSet(s) \subseteq ToSet(t) /\ \A x \in ToSet(s), y \in ToSet(t) \ ToSet(s) : x < y
  BY DEF GoesOnWith
<1> DEFINE P == {k \in 1..Len(s) : ~(k \in DOMAIN t /\ s[k] = t[k])}
<1>3. P = {}
  <2>1. SUFFICES ASSUME P # {} PROVE FALSE
    OBVIOUS
  <2>0. P \subseteq Nat
    OBVIOUS
  <2>2. PICK k \in P : \A y \in P : k <= y
    <3> HIDE DEF P
    <3>1. QED
      BY <2>0, <2>1, LeastNumber
  <2>3. k \in 1..Len(s) /\ ~(k \in DOMAIN t /\ s[k] = t[k]) /\ k \in Nat
    OBVIOUS
  <2>4. \A j \in 1..Len(s) : j < k => j \in DOMAIN t /\ s[j] = t[j]
    <3>1. SUFFICES ASSUME NEW j \in 1..Len(s), j < k, ~(j \in DOMAIN t /\ s[j] = t[j]) PROVE FALSE
      OBVIOUS
    <3>2. j \in P
      BY <3>1
    <3>3. k <= j
      BY <2>2, <3>2
    <3>4. QED
      BY <2>3, <3>1, <3>3
  <2> HIDE DEF P
  <2>5. PICK m \in DOMAIN t : s[k] = t[m]
    <3>1. s[k] \in ToSet(t)
      BY <1>1, <1>2, <2>3 DEF ToSet
    <3>2. QED
      BY <3>1 DEF ToSet
  <2>6. ~(m < k)
    <3>1. SUFFICES ASSUME m < k PROVE FALSE
      OBVIOUS
    <3>2. m \in 1..Len(s)
      BY <1>1, <2>3, <3>1
    <3>3. s[m] = t[m] /\ s[m] < s[k] /\ s[k] \in Nat
      BY <1>1, <2>3, <2>4, <3>1, <3>2
    <3>4. QED
      BY <2>5, <3>3
  <2>7. k \in DOMAIN t /\ k < m
    BY <1>1, <2>3, <2>5, <2>6
  <2>8. t[k] < s[k] /\ t[k] \in Nat /\ s[k] \in Nat
    BY <1>1, <2>3, <2>5, <2>7
  <2>9. t[k] \notin ToSet(s)
    <3>1. SUFFICES ASSUME NEW i \in DOMAIN s, t[k] = s[i] PROVE FALSE
      BY DEF ToSet
    <3>2. CASE i < k
      <4>1. s[i] = t[i] /\ i \in DOMAIN t
        BY <1>1, <2>4, <3>1, <3>2
      <4>2. t[i] < t[k]
        BY <2>7, <3>2, <4>1
      <4>3. QED
        BY <2>8, <3>1, <4>1, <4>2
    <3>3. CASE k <= i
      <4>1. k \in DOMAIN s /\ i \in DOMAIN s /\ (k = i \/ k < i)
        BY <1>1, <2>3, <3>3
      <4>2. k = i \/ s[k] < s[i]
        BY <4>1
      <4>3. s[i] \in Nat
        BY <1>1
      <4>4. \A x, y, z \in Nat : ~(x < y /\ z = x /\ (y = z \/ y < z))
        OBVIOUS
      <4>5. QED
        BY <2>8, <3>1, <4>2, <4>3, <4>4
    <3>4. QED
      BY <1>1, <2>3, <3>2, <3>3
  <2>10. s[k] \in ToSet(s) /\ t[k] \in ToSet(t)
    BY <1>1, <2>3, <2>7 DEF ToSet
  <2>11. s[k] < t[k]
    BY <1>2, <2>9, <2>10
  <2>12. \A x, y \in Nat : ~(x < y /\ y < x)
    OBVIOUS
  <2>13. QED
    BY <2>8, <2>11, <2>12
<1>4. \A k \in 1..Len(s) : k \in DOMAIN t /\ s[k] = t[k]
  BY <1>3
<1> HIDE DEF P
<1>5. Len(s) <= Len(t)
  BY <1>1, <1>4
<1>6. SubSeq(s, 1, Len(s)) = SubSeq(t, 1, Len(s))
  BY <1>1, <1>4, <1>5
<1>7. QED
  BY <1>5, <1>6 DEF IsPrefix

\* A list of events that a step's events are put to the end of.
LEMMA EventsJoined ==
  ASSUME NEW S, NEW es \in Seq(S), NEW out \in Seq(S)
  PROVE  /\ es \o out \in Seq(S)
         /\ \A i \in DOMAIN (es \o out) :
              \/ i \in DOMAIN es /\ (es \o out)[i] = es[i] /\ i <= Len(es)
              \/ i - Len(es) \in DOMAIN out /\ (es \o out)[i] = out[i - Len(es)] /\ i > Len(es)
OBVIOUS

\* No text goes on with any other.
LEMMA NoWords == \A T : GoesOnWith({}, T) /\ GoesOnWith(T, {})
BY DEF GoesOnWith

LEMMA EventsGrow ==
  ASSUME NEW q \in Nat, NEW n \in Nat, q <= n
  PROVE  Events(q) \subseteq Events(n)
<1>1. Upto(q) \subseteq Upto(n)
  BY UptoGrows
<1>2. QED
  BY <1>1 DEF Events

\* The message of an event, and the numbers of its texts.
LEMMA EventKind ==
  ASSUME NEW q \in Nat, NEW e \in Events(q), Tells(e)
  PROVE  e.msg \in Upto(q) /\ e.msg.text \in Seq(Nat) /\ Words(e) \subseteq 1..q
<1>1. e.msg \in Upto(q)
  BY DEF Events, Tells
<1>2. QED
  BY <1>1, MessageKind DEF Words

\* What goes on with a text goes on with it when a later one is put to it, and
\* goes on with that one alone.
LEMMA GoesOnGrown ==
  ASSUME NEW q \in Nat, NEW n \in Nat, q < n, NEW S, S \subseteq 1..q, NEW T
  PROVE  GoesOnWith(S, {n}) /\ (GoesOnWith(S, T) => GoesOnWith(S, T \cup {n}))
<1>1. n \notin S /\ \A x \in S : x < n
  OBVIOUS
<1>2. S \cap {n} = {}
  BY <1>1
<1>3. ASSUME GoesOnWith(S, T), S \cap T # {}
      PROVE  GoesOnWith(S, T \cup {n})
  <2>1. S \subseteq T /\ \A x \in S, y \in T \ S : x < y
    BY <1>3 DEF GoesOnWith
  <2>2. QED
    BY <1>1, <2>1 DEF GoesOnWith
<1>4. S \cap T = {} => S \cap (T \cup {n}) = {}
  BY <1>1
<1>5. QED
  BY <1>2, <1>3, <1>4 DEF GoesOnWith

\* Events without a text are neat, and go on with all that was written.
LEMMA MuteEvents ==
  ASSUME NEW n \in Nat, NEW out \in Seq(ToolEvents(n))
  PROVE  /\ \A i \in DOMAIN out : Tells(out[i]) => Neat(out[i].msg) /\ Words(out[i]) = {}
         /\ out \in Seq(Events(n))
<1>1. ASSUME NEW i \in DOMAIN out, Tells(out[i])
      PROVE  Neat(out[i].msg) /\ Words(out[i]) = {}
  <2>1. out[i] \in ToolEvents(n)
    OBVIOUS
  <2>2. out[i].msg.role = "tool" /\ ToSet(out[i].msg.text) = {}
    BY <1>1, <2>1 DEF ToolEvents, Tells
  <2>3. DOMAIN out[i].msg.text = {}
    BY <2>2 DEF ToSet
  <2>4. QED
    BY <2>2, <2>3 DEF Neat, Words, Texts
<1>2. ToolEvents(n) \subseteq Events(n)
  BY DEF ToolEvents
<1>3. QED
  BY <1>1, <1>2

\* What a step of the aggregator writes after es.
Wrote(es, x, o, n, whole) ==
  x \in Seq(Events(n)) /\ Clean(x) /\ (whole => Chained(x) /\ Leads(x, o))

\* A step without a text leaves all that was written gone on with as before.
LEMMA WroteMute ==
  ASSUME NEW q \in Nat, NEW n \in Nat, q < n, NEW es \in Seq(Events(q)), NEW out \in Seq(ToolEvents(n)),
         Clean(es), NEW open, NEW o, NEW whole, whole => Chained(es) /\ Leads(es, open),
         \A r \in Texts : o[r] # None => open[r] = o[r]
  PROVE  Wrote(es, es \o out, o, n, whole)
<1> DEFINE x == es \o out
<1>1. es \in Seq(Events(n)) /\ out \in Seq(Events(n))
  BY EventsGrow, MuteEvents
<1>2. /\ x \in Seq(Events(n))
      /\ \A i \in DOMAIN x : \/ i \in DOMAIN es /\ x[i] = es[i] /\ i <= Len(es)
                             \/ i - Len(es) \in DOMAIN out /\ x[i] = out[i - Len(es)] /\ i > Len(es)
  BY <1>1, EventsJoined
<1>3. \A i \in DOMAIN out : Tells(out[i]) => Neat(out[i].msg) /\ Words(out[i]) = {}
  BY MuteEvents
<1> HIDE DEF x
<1>4. Clean(x)
  BY <1>2, <1>3 DEF Clean
<1>5. ASSUME whole, NEW i \in DOMAIN x, NEW j \in DOMAIN x, i < j, Tells(x[i]), Tells(x[j])
      PROVE  GoesOnWith(Words(x[i]), Words(x[j]))
  <2>1. CASE i \in DOMAIN es /\ x[i] = es[i] /\ j \in DOMAIN es /\ x[j] = es[j]
    BY <1>5, <2>1 DEF Chained
  <2>2. CASE i - Len(es) \in DOMAIN out /\ x[i] = out[i - Len(es)]
    BY <1>3, <1>5, <2>2, NoWords
  <2>3. CASE j - Len(es) \in DOMAIN out /\ x[j] = out[j - Len(es)]
    BY <1>3, <1>5, <2>3, NoWords
  <2>4. QED
    BY <1>2, <2>1, <2>2, <2>3
<1>6. ASSUME whole, NEW r \in Texts, o[r] # None, NEW i \in DOMAIN x, Tells(x[i])
      PROVE  GoesOnWith(Words(x[i]), ToSet(o[r].text))
  <2>1. CASE i \in DOMAIN es /\ x[i] = es[i]
    BY <1>6, <2>1 DEF Leads, Before
  <2>2. CASE i - Len(es) \in DOMAIN out /\ x[i] = out[i - Len(es)]
    BY <1>3, <1>6, <2>2, NoWords
  <2>3. QED
    BY <1>2, <2>1, <2>2
<1>7. QED
  BY <1>2, <1>4, <1>5, <1>6 DEF Wrote, Chained, Leads, Before, x

\* A step with a text writes one message, which goes on with all that was
\* written and is the one that is open.
LEMMA WroteText ==
  ASSUME NEW q \in Nat, NEW n \in Nat, q < n, NEW es \in Seq(Events(q)), NEW e \in Events(n), Tells(e),
         Clean(es), Neat(e.msg), NEW o, NEW whole, whole => Chained(es) /\ Before(es, Words(e)),
         \A r \in Texts : o[r] # None => o[r] = e.msg
  PROVE  Wrote(es, es \o <<e>>, o, n, whole)
<1> DEFINE x == es \o <<e>>
<1>1. es \in Seq(Events(n)) /\ <<e>> \in Seq(Events(n)) /\ DOMAIN <<e>> = {1} /\ <<e>>[1] = e /\ Len(es) \in Nat
  BY EventsGrow
<1>2. /\ x \in Seq(Events(n)) /\ DOMAIN x \subseteq Nat
      /\ \A i \in DOMAIN x : (i \in DOMAIN es /\ x[i] = es[i] /\ i <= Len(es)) \/ (x[i] = e /\ i = Len(es) + 1)
  <2>1. /\ x \in Seq(Events(n))
        /\ \A i \in DOMAIN x :
             \/ i \in DOMAIN es /\ x[i] = es[i] /\ i <= Len(es)
             \/ i - Len(es) \in DOMAIN <<e>> /\ x[i] = <<e>>[i - Len(es)] /\ i > Len(es)
    BY <1>1, EventsJoined
  <2> HIDE DEF x
  <2>2. DOMAIN x = 1..Len(x) /\ Len(x) \in Nat
    BY <2>1
  <2>3. ASSUME NEW i \in DOMAIN x, i - Len(es) \in DOMAIN <<e>>, x[i] = <<e>>[i - Len(es)]
        PROVE  x[i] = e /\ i = Len(es) + 1
    <3>1. i - Len(es) = 1 /\ i \in Nat
      BY <1>1, <2>2, <2>3
    <3>2. QED
      BY <1>1, <2>3, <3>1
  <2>4. QED
    BY <2>1, <2>2, <2>3
<1> HIDE DEF x
<1>3. Clean(x)
  BY <1>2 DEF Clean
<1>4. ASSUME whole, NEW i \in DOMAIN x, NEW j \in DOMAIN x, i < j, Tells(x[i]), Tells(x[j])
      PROVE  GoesOnWith(Words(x[i]), Words(x[j]))
  <2>1. i \in DOMAIN es /\ x[i] = es[i]
    BY <1>1, <1>2, <1>4
  <2>2. CASE j \in DOMAIN es /\ x[j] = es[j]
    BY <1>4, <2>1, <2>2 DEF Chained
  <2>3. CASE x[j] = e
    BY <1>4, <2>1, <2>3 DEF Before
  <2>4. QED
    BY <1>2, <2>2, <2>3
<1>5. GoesOnWith(Words(e), Words(e))
  BY DEF GoesOnWith
<1>6. ASSUME whole, NEW r \in Texts, o[r] # None, NEW i \in DOMAIN x, Tells(x[i])
      PROVE  GoesOnWith(Words(x[i]), ToSet(o[r].text))
  <2>1. ToSet(o[r].text) = Words(e)
    BY <1>6 DEF Words
  <2>2. CASE i \in DOMAIN es /\ x[i] = es[i]
    BY <1>6, <2>1, <2>2 DEF Before
  <2>3. CASE x[i] = e
    BY <1>5, <2>1, <2>3
  <2>4. QED
    BY <1>2, <2>2, <2>3
<1>7. QED
  BY <1>2, <1>3, <1>4, <1>6 DEF Wrote, Chained, Leads, Before, x

\* A stream goes on with what it has written.
LEMMA WroteMore ==
  ASSUME log \in Seq(Frames), NEW n \in 1..Len(log), NEW p \in Nat, p < n, NEW q \in Nat, q < n,
         NEW a \in Aggs(p), OpenNeat(a.open), NEW es \in Seq(Events(q)), Clean(es),
         NEW whole, whole => Chained(es) /\ Leads(es, a.open)
  PROVE  Wrote(es, es \o Step(a, n).out, Step(a, n).agg.open, n, whole)
<1>1. PICK open, o, out : open = a.open /\ o = Step(a, n).agg.open /\ out = Step(a, n).out
  OBVIOUS
<1>2. open \in Opens(p) /\ AggShape(open, o, out, n) /\ (~IsText(n) => out \in Seq(ToolEvents(n)))
  BY <1>1, AggStep, AggStepShape
<1>3. n \in Nat /\ OpenNeat(open) /\ (whole => Chained(es) /\ Leads(es, open))
  BY <1>1
<1>4. \A i \in DOMAIN es : Tells(es[i]) => Words(es[i]) \subseteq 1..q
  BY EventKind
<1>5. CASE ~IsText(n)
  <2>1. \A r \in Texts : o[r] # None => open[r] = o[r]
    BY <1>2, <1>5 DEF AggShape
  <2>2. QED
    BY <1>1, <1>2, <1>3, <1>5, <2>1, WroteMute
<1>6. CASE IsText(n) /\ open[log[n].of] = None
  <2>1. out = <<Event("chat", Bubble(n))>> /\ \A r \in Texts : o[r] # None => o[r] = Bubble(n)
    BY <1>2, <1>6 DEF AggShape
  <2>2. Bubble(n) \in Upto(n) /\ Neat(Bubble(n)) /\ ToSet(Bubble(n).text) = {n}
    BY <1>3, <1>6, BubbleKind, NeatBegun DEF IsText
  <2>3. PICK e : e = Event("chat", Bubble(n))
    OBVIOUS
  <2>4. e \in Events(n) /\ Tells(e) /\ e.msg = Bubble(n) /\ Words(e) = {n}
    <3>1. Bubble(n) # None
      BY <1>3, <2>2, NoneApart
    <3>2. PICK b : b = Bubble(n)
      OBVIOUS
    <3>3. e = [event |-> "chat", msg |-> b] /\ b \in Upto(n) /\ b # None /\ ToSet(b.text) = {n}
      BY <2>2, <2>3, <3>1, <3>2 DEF Event
    <3>4. QED
      BY <3>2, <3>3 DEF Events, Tells, Words
  <2>5. Before(es, Words(e))
    BY <1>3, <1>4, <2>4, GoesOnGrown DEF Before
  <2>6. QED
    BY <1>1, <1>3, <2>1, <2>2, <2>3, <2>4, <2>5, WroteText
<1>7. CASE IsText(n) /\ open[log[n].of] # None
  <2>1. PICK r, m, g : r = log[n].of /\ m = open[r] /\ g = Grown(m, n)
    OBVIOUS
  <2>2. r \in Texts /\ m # None /\ o = [open EXCEPT ![r] = g] /\ out = <<Event("update", g)>>
    BY <1>2, <1>7, <2>1 DEF AggShape
  <2>3. m \in Upto(p) /\ m.role = r /\ Neat(m)
    BY <1>2, <1>3, <2>1, <2>2 DEF Opens, OpenNeat
  <2>4. g \in Upto(n) /\ Neat(g) /\ ToSet(g.text) = ToSet(m.text) \cup {n}
    <3>1. m.role \in Texts /\ log[n].of = m.role
      BY <2>1, <2>2, <2>3
    <3>2. Neat(g)
      BY <2>1, <2>3, <3>1, NeatGrown
    <3>3. p \in Nat /\ p < n /\ n \in Nat
      BY <1>3
    <3>4. Gains(g, m, n) /\ g \in Upto(n)
      BY <2>1, <2>3, <3>3, GrownGains
    <3>5. QED
      BY <3>2, <3>4 DEF Gains
  <2>5. \A s \in Texts : o[s] # None => o[s] = g
    <3>1. ASSUME NEW s \in Texts, s # r
          PROVE  o[s] = None
      <4>1. o[s] = open[s]
        BY <2>2, <3>1
      <4>2. QED
        BY <1>3, <2>1, <2>2, <3>1, <4>1 DEF OpenNeat
    <3>2. o[r] = g
      BY <1>2, <2>2 DEF Opens
    <3>3. QED
      BY <3>1, <3>2
  <2>6. PICK e : e = Event("update", g)
    OBVIOUS
  <2>7. e \in Events(n) /\ Tells(e) /\ e.msg = g /\ Words(e) = ToSet(m.text) \cup {n}
    <3>1. g # None
      BY <1>3, <2>4, NoneApart
    <3>2. QED
      BY <2>4, <2>6, <3>1 DEF Event, Events, Tells, Words
  <2>8. ASSUME whole
        PROVE  Before(es, Words(e))
    <3>1. Before(es, ToSet(m.text))
      BY <1>3, <2>1, <2>2, <2>8 DEF Leads
    <3>2. ASSUME NEW i \in DOMAIN es, Tells(es[i])
          PROVE  GoesOnWith(Words(es[i]), ToSet(m.text) \cup {n})
      BY <1>3, <1>4, <3>1, <3>2, GoesOnGrown DEF Before
    <3>3. QED
      BY <2>7, <3>2 DEF Before
  <2>9. QED
    <3>1. out = <<e>> /\ Neat(e.msg) /\ \A s \in Texts : o[s] # None => o[s] = e.msg
      BY <2>2, <2>4, <2>5, <2>6, <2>7
    <3>2. whole => Chained(es) /\ Before(es, Words(e))
      BY <1>3, <2>8
    <3>3. Wrote(es, es \o <<e>>, o, n, whole)
      BY <1>3, <2>7, <3>1, <3>2, WroteText
    <3>4. QED
      BY <1>1, <3>1, <3>3
<1>8. QED
  BY <1>5, <1>6, <1>7

\* The messages of a snapshot are neat, and no text is in two of them.
LEMMA WroteHistory ==
  ASSUME NEW p \in Nat, NEW ms \in Seq(Upto(p)), Tidy(ms), NEW es, AsHistory(es, ms)
  PROVE  es \in Seq(Events(p)) /\ Clean(es) /\ Chained(es)
<1>1. /\ DOMAIN es = DOMAIN ms /\ Len(ms) \in Nat /\ DOMAIN ms = 1..Len(ms)
      /\ \A i \in DOMAIN ms : /\ es[i] = Event("chat", ms[i]) /\ ms[i] \in Upto(p) /\ ms[i].text \in Seq(Nat)
                              /\ ToSet(ms[i].text) \subseteq 1..p /\ ms[i] # None
  BY MessageKind, NoneApart DEF AsHistory
<1>2. \A m : Event("chat", m).event = "chat" /\ Event("chat", m).msg = m
  BY DEF Event
<1>3. \A i \in DOMAIN ms : es[i] \in Events(p)
  BY <1>1 DEF Events, Event
<1>4. es \in Seq(Events(p))
  BY <1>1, <1>3 DEF AsHistory
<1>5. Clean(es)
  BY <1>1, <1>2 DEF Clean, Tidy
<1>6. ASSUME NEW i \in DOMAIN ms, NEW j \in DOMAIN ms, i < j
      PROVE  GoesOnWith(Words(es[i]), Words(es[j]))
  <2>1. Words(es[i]) = ToSet(ms[i].text) /\ Words(es[j]) = ToSet(ms[j].text)
    BY <1>1, <1>2 DEF Words
  <2>2. ASSUME NEW x, x \in Words(es[i]), x \in Words(es[j])
        PROVE  FALSE
    <3>1. x < x
      BY <1>6, <2>1, <2>2 DEF Tidy
    <3>2. ToSet(ms[i].text) \subseteq 1..p
      BY <1>1
    <3>3. x \in 1..p
      BY <2>1, <2>2, <3>2
    <3>4. QED
      BY <3>1, <3>3
  <2>3. QED
    BY <2>2 DEF GoesOnWith
<1>7. QED
  BY <1>1, <1>4, <1>5, <1>6 DEF Chained

\* What the warm-up leaves open goes on with each message of the snapshot.
LEMMA OpenLeads ==
  ASSUME NEW p \in Nat, NEW ms \in Seq(Upto(p)), Tidy(ms), NEW open, Seen(ms, open, TRUE),
         NEW es, AsHistory(es, ms)
  PROVE  Leads(es, open)
<1> SUFFICES ASSUME NEW r \in Texts, open[r] # None, NEW i \in DOMAIN ms
             PROVE  GoesOnWith(ToSet(ms[i].text), ToSet(open[r].text))
  BY DEF Leads, Before, AsHistory, Event, Words
<1>1. /\ DOMAIN ms \subseteq Nat
      /\ \A j \in DOMAIN ms : ms[j].role \in Roles /\ Neat(ms[j]) /\ ToSet(ms[j].text) \subseteq 1..p
  BY MessageKind DEF Tidy
<1>2. \A j \in DOMAIN ms : ms[j].role \notin Texts => ToSet(ms[j].text) = {}
  BY <1>1 DEF Neat, Roles
<1>3. CASE ms[i].role \notin Texts
  BY <1>2, <1>3, NoWords
<1>4. CASE ms[i].role \in Texts
  <2>1. PICK k \in DOMAIN ms : LastBubble(ms, k) /\ ToSet(open[r].text) = ToSet(ms[k].text)
    BY <1>4 DEF Seen
  <2>2. CASE i = k
    BY <2>1, <2>2 DEF GoesOnWith
  <2>3. CASE i # k
    <3>1. i < k
      BY <1>1, <1>4, <2>1, <2>3 DEF LastBubble
    <3>2. ASSUME NEW x, x \in ToSet(ms[i].text), x \in ToSet(ms[k].text)
          PROVE  FALSE
      <4>1. x < x
        BY <3>1, <3>2 DEF Tidy
      <4>2. x \in Nat
        BY <1>1, <3>2
      <4>3. QED
        BY <4>1, <4>2
    <3>3. QED
      BY <2>1, <3>2 DEF GoesOnWith
  <2>4. QED
    BY <2>2, <2>3
<1>5. QED
  BY <1>3, <1>4

\* A written message stays neat.
LEMMA CleanStays ==
  ASSUME LogStays, NEW p \in 0..Len(log), NEW es \in Seq(Events(p)), Clean(es)
  PROVE  Clean(es)'
<1>1. p \in Nat /\ Len(log) \in Nat /\ p <= Len(log)
  BY DEF LogStays
<1>2. ASSUME NEW i \in DOMAIN es, Tells(es[i])
      PROVE  Neat(es[i].msg)'
  <2>1. es[i].msg \in Upto(p)
    BY <1>1, <1>2, EventKind
  <2>2. es[i].msg \in Upto(Len(log))
    BY <1>1, <2>1, UptoGrows
  <2>3. Neat(es[i].msg)
    BY <1>2 DEF Clean
  <2>4. QED
    BY <2>2, <2>3, NeatStays
<1>3. QED
  BY <1>2 DEF Clean, Tells

\* The first number of a channel is before the others.
LEMMA FirstNumber ==
  ASSUME log \in Seq(Frames), NEW ns, Numbers(ns), ns # <<>>
  PROVE  /\ Head(ns) \in 1..Len(log) /\ 1 \in DOMAIN ns /\ ns[1] = Head(ns)
         /\ \A i \in DOMAIN Tail(ns) : Head(ns) < Tail(ns)[i]
<1>1. /\ ns \in Seq(Nat) /\ (\A k \in DOMAIN ns : ns[k] \in 1..Len(log))
      /\ \A i, j \in DOMAIN ns : i < j => ns[i] < ns[j]
  BY DEF Numbers
<1>2. 1 \in DOMAIN ns /\ ns[1] = Head(ns)
  BY <1>1
<1>3. ASSUME NEW i \in DOMAIN Tail(ns)
      PROVE  Head(ns) < Tail(ns)[i]
  <2>1. i + 1 \in DOMAIN ns /\ Tail(ns)[i] = ns[i + 1] /\ 1 < i + 1
    BY <1>1
  <2>2. QED
    BY <1>1, <1>2, <2>1
<1>4. QED
  BY <1>1, <1>2, <1>3

\* What is written stays so when the channel has no earlier frame than before.
LEMMA SentKept ==
  ASSUME SentInv, LogStays, Numbers(snap), UNCHANGED <<pc, snap, agg, sent, view>>,
         \A p \in 0..Len(log) :
           (\A i \in DOMAIN queue : p < queue[i]) => \A i \in DOMAIN queue' : p < queue'[i]
  PROVE  SentInv'
<1>1. StopIn(snap)' <=> StopIn(snap)
  <2>1. PICK ns : ns = snap
    OBVIOUS
  <2>2. StopIn(ns)' <=> StopIn(ns)
    BY <2>1, NumbersStay
  <2>3. (snap = ns)'
    BY <2>1
  <2>4. QED
    BY <2>1, <2>2, <2>3
<1>2. ASSUME pc = "live"
      PROVE  /\ Clean(sent)' /\ (~StopIn(snap)' => Chained(sent)' /\ Leads(sent, agg.open)')
             /\ \E p \in 0..Len(log') : sent' \in Seq(Events(p)) /\ \A i \in DOMAIN queue' : p < queue'[i]
  <2>1. PICK p \in 0..Len(log) : sent \in Seq(Events(p)) /\ \A i \in DOMAIN queue : p < queue[i]
    BY <1>2 DEF SentInv
  <2>2. PICK es : es = sent
    OBVIOUS
  <2>3. Clean(es)'
    BY <1>2, <2>1, <2>2, CleanStays DEF SentInv
  <2>4. (es = sent)'
    BY <2>2
  <2>5. Clean(sent)'
    BY <2>3, <2>4
  <2>6. Chained(sent)' = Chained(sent) /\ Leads(sent, agg.open)' = Leads(sent, agg.open)
    BY DEF Chained, Leads, Before, GoesOnWith, Tells, Words, Texts, None
  <2>7. p \in 0..Len(log')
    BY <2>1 DEF LogStays
  <2>8. QED
    BY <1>1, <1>2, <2>1, <2>5, <2>6, <2>7 DEF SentInv
<1>3. AsHistory(sent, view)' = AsHistory(sent, view)
  BY DEF AsHistory, Event
<1>4. QED
  BY <1>2, <1>3 DEF SentInv

\* The frames published come later in the channel.
LEMMA SentPublish ==
  ASSUME ChatInv, SentInv, NEW f \in Frames, Publish(f)
  PROVE  SentInv'
<1>1. /\ log \in Seq(Frames) /\ Numbers(snap) /\ Numbers(queue)
  BY DEF ChatInv, TypeInv
<1>2. /\ log' = Append(log, f) /\ UNCHANGED <<pc, snap, agg, sent, view>>
      /\ queue' = queue \/ queue' = Append(queue, Len(log'))
  BY DEF Publish
<1>3. LogStays /\ Len(log') = Len(log) + 1 /\ Len(log) \in Nat
  BY <1>1, <1>2, LogGrows
<1>4. ASSUME NEW p \in 0..Len(log), \A i \in DOMAIN queue : p < queue[i]
      PROVE  \A i \in DOMAIN queue' : p < queue'[i]
  <2>1. queue \in Seq(Nat) /\ p < Len(log')
    BY <1>1, <1>3 DEF Numbers
  <2>2. CASE queue' = Append(queue, Len(log'))
    <3>1. PICK q, m : q = queue /\ m = Len(log')
      OBVIOUS
    <3>2. q \in Seq(Nat) /\ m \in Nat /\ p < m /\ \A i \in DOMAIN q : p < q[i]
      BY <1>3, <1>4, <2>1, <3>1
    <3>3. \A i \in DOMAIN Append(q, m) : p < Append(q, m)[i]
      BY <3>2
    <3>4. QED
      BY <2>2, <3>1, <3>3
  <2>3. QED
    BY <1>2, <1>4, <2>2
<1>5. QED
  BY <1>1, <1>2, <1>3, <1>4, SentKept

\* A message of the snapshot is written.
LEMMA SentHistory ==
  ASSUME ChatInv, SentInv, WriteHistory
  PROVE  SentInv'
<1>1. PICK h, es, ms : h = Head(hist) /\ es = sent /\ ms = view
  OBVIOUS
<1>2. /\ pc = "history" /\ pc' = "history" /\ sent' = Append(es, Event("chat", h)) /\ view' = Append(ms, h)
      /\ AsHistory(es, ms) /\ ms \in Seq(Upto(Len(log))) /\ hist # <<>> /\ hist \in Seq(Upto(Len(log)))
  BY <1>1 DEF WriteHistory, SentInv, ChatInv, TypeInv
<1>3. Len(ms) \in Nat /\ DOMAIN ms = 1..Len(ms) /\ DOMAIN Append(ms, h) = 1..(Len(ms) + 1)
  BY <1>2
<1>4. PICK S : S = {Event("chat", m) : m \in Upto(Len(log))}
  OBVIOUS
<1>5. es = [i \in 1..Len(ms) |-> Event("chat", ms[i])] /\ es \in Seq(S) /\ Len(es) = Len(ms)
  <2>1. es = [i \in 1..Len(ms) |-> Event("chat", ms[i])]
    BY <1>2, <1>3 DEF AsHistory
  <2>2. \A i \in 1..Len(ms) : Event("chat", ms[i]) \in S
    BY <1>2, <1>3, <1>4
  <2>3. QED
    BY <1>3, <2>1, <2>2
<1>6. \A i \in 1..(Len(ms) + 1) : Append(es, Event("chat", h))[i] = Event("chat", Append(ms, h)[i])
  BY <1>2, <1>3, <1>5
<1>7. DOMAIN Append(es, Event("chat", h)) = 1..(Len(ms) + 1)
  BY <1>5
<1>8. Append(es, Event("chat", h)) = [i \in DOMAIN Append(ms, h) |-> Event("chat", Append(ms, h)[i])]
  <2>1. PICK x, y : x = Append(es, Event("chat", h)) /\ y = Append(ms, h)
    OBVIOUS
  <2>2. PICK T : T = S \cup {Event("chat", h)}
    OBVIOUS
  <2>3. x \in Seq(T)
    <3>1. es \in Seq(T) /\ Event("chat", h) \in T
      BY <1>5, <2>2
    <3>2. QED
      BY <2>1, <3>1
  <2>4. DOMAIN x = 1..(Len(ms) + 1) /\ x = [i \in DOMAIN x |-> x[i]]
    <3>1. DOMAIN x = 1..(Len(ms) + 1)
      BY <1>7, <2>1
    <3>2. x = [i \in DOMAIN x |-> x[i]]
      <4>1. PICK m \in Nat : x \in [1..m -> T]
        BY <2>3
      <4>2. QED
        BY <4>1, Zenon
    <3>3. QED
      BY <3>1, <3>2
  <2>5. \A i \in 1..(Len(ms) + 1) : x[i] = Event("chat", y[i])
    BY <1>6, <2>1
  <2>6. DOMAIN y = 1..(Len(ms) + 1)
    BY <1>3, <2>1
  <2>7. x = [i \in DOMAIN y |-> Event("chat", y[i])]
    BY <2>4, <2>5, <2>6
  <2>8. QED
    BY <2>1, <2>7
<1>9. AsHistory(sent, view)'
  BY <1>2, <1>8 DEF AsHistory, Event
<1>10. QED
  BY <1>2, <1>9 DEF SentInv

\* The stream goes on with its history as the warm-up left it.
LEMMA SentSubscribe ==
  ASSUME ChatInv, SentInv, Subscribe
  PROVE  SentInv'
<1>1. /\ pc = "history" /\ hist = <<>> /\ pc' = "live" /\ agg' = Warm(snap)
      /\ UNCHANGED <<log, snap, sent, view>>
      /\ queue' = SubSeq(Newer(StartsFrom), 1,
                         IF Len(Newer(StartsFrom)) < ChanCap THEN Len(Newer(StartsFrom)) ELSE ChanCap)
  BY DEF Subscribe, Register, StartsFrom
<1>2. PICK n0, new, size, ms, es :
        /\ n0 = StartsFrom /\ new = Newer(n0) /\ size = (IF Len(new) < ChanCap THEN Len(new) ELSE ChanCap)
        /\ ms = view /\ es = sent
  OBVIOUS
<1>3. /\ log \in Seq(Frames) /\ Len(log) \in Nat /\ Numbers(snap) /\ HistoryInv /\ AsHistory(es, ms)
      /\ view \in Seq(Upto(Len(log))) /\ TypeInv
  BY <1>1, <1>2 DEF ChatInv, TypeInv, SentInv
<1>4. n0 \in 0..Len(log) /\ ms \in Seq(Upto(n0)) /\ queue' = SubSeq(new, 1, size)
  BY <1>1, <1>2, StartReaches
<1>5. Pending = ms
  BY <1>1, <1>2, <1>3 DEF Pending
<1>6. PICK w : WarmBy(w, snap) /\ Seen(ms, w[Len(snap)].open, ~StopIn(snap))
  BY <1>1, <1>3, <1>5 DEF HistoryInv
<1>7. agg' = w[Len(snap)]
  BY <1>1, <1>3, <1>6, WarmIs
<1>8. Tidy(ms)
  BY <1>1, <1>3, <1>5 DEF HistoryInv
<1>9. es \in Seq(Events(n0)) /\ Clean(es) /\ Chained(es)
  BY <1>3, <1>4, <1>8, WroteHistory
<1>10. ~StopIn(snap) => Leads(es, w[Len(snap)].open)
  <2>1. SUFFICES ASSUME ~StopIn(snap) PROVE Leads(es, w[Len(snap)].open)
    OBVIOUS
  <2>2. Seen(ms, w[Len(snap)].open, TRUE)
    BY <1>6, <2>1 DEF Seen
  <2>3. PICK o : o = w[Len(snap)].open
    OBVIOUS
  <2>4. Seen(ms, o, TRUE)
    BY <2>2, <2>3, Zenon
  <2>5. n0 \in Nat /\ ms \in Seq(Upto(n0)) /\ AsHistory(es, ms)
    BY <1>3, <1>4
  <2>6. Leads(es, o)
    BY <1>8, <2>4, <2>5, OpenLeads, Zenon
  <2>7. QED
    BY <2>3, <2>6
<1>11. \A i \in DOMAIN queue' : n0 < queue'[i]
  <2>1. Numbers(new) /\ \A i \in DOMAIN new : n0 < new[i]
    BY <1>2, <1>3, <1>4, NewerKind
  <2>2. Len(new) \in Nat /\ DOMAIN new = 1..Len(new) /\ size \in 0..Len(new)
    BY <1>2, <1>3, <2>1, EndsKind, Sizes
  <2>3. Numbers(SubSeq(new, 1, size)) /\ Len(SubSeq(new, 1, size)) = size
        /\ \A i \in 1..size : SubSeq(new, 1, size)[i] = new[i]
    BY <1>3, <2>1, <2>2, NumbersCut
  <2>4. DOMAIN SubSeq(new, 1, size) = 1..size
    BY <1>3, <2>3, EndsKind
  <2>5. QED
    BY <1>4, <2>1, <2>2, <2>3, <2>4
<1>12. (StopIn(snap)' <=> StopIn(snap)) /\ Clean(sent)' = Clean(sent) /\ Chained(sent)' = Chained(sent)
  BY <1>1 DEF StopIn, Clean, Neat, Chained, GoesOnWith, Tells, Words, Texts
<1>13. ~StopIn(snap) => Leads(sent, agg.open)'
  <2>1. PICK o : o = w[Len(snap)].open
    OBVIOUS
  <2>2. ~StopIn(snap) => Leads(es, o)
    BY <1>10, <2>1
  <2>3. Leads(es, o)' = Leads(es, o)
    BY DEF Leads, Before, GoesOnWith, Tells, Words, Texts, None
  <2>4. (es = sent)' /\ (o = agg.open)'
    BY <1>1, <1>2, <1>7, <2>1
  <2>5. QED
    BY <2>2, <2>3, <2>4
<1>14. \E p \in 0..Len(log') : sent' \in Seq(Events(p)) /\ \A i \in DOMAIN queue' : p < queue'[i]
  BY <1>1, <1>2, <1>4, <1>9, <1>11
<1>15. QED
  BY <1>1, <1>2, <1>9, <1>12, <1>13, <1>14 DEF SentInv

\* A frame of the channel is after all that was written.
LEMMA SentLive ==
  ASSUME ChatInv, SentInv, WriteLive
  PROVE  SentInv'
<1>1. PICK n, a, es, nq, whole : n = Head(queue) /\ a = agg /\ es = sent /\ nq = queue /\ whole = ~StopIn(snap)
  OBVIOUS
<1>2. /\ pc = "live" /\ pc' = "live" /\ nq # <<>> /\ agg' = Step(a, n).agg /\ sent' = es \o Step(a, n).out
      /\ queue' = Tail(nq) /\ UNCHANGED <<log, snap>>
  BY <1>1 DEF WriteLive
<1>3. log \in Seq(Frames) /\ Len(log) \in Nat /\ Numbers(nq) /\ LiveInv
  BY <1>1 DEF ChatInv, TypeInv
<1>4. /\ n \in 1..Len(log) /\ 1 \in DOMAIN nq /\ nq[1] = n
      /\ \A i \in DOMAIN Tail(nq) : n < Tail(nq)[i]
  BY <1>1, <1>2, <1>3, FirstNumber
<1>5. PICK p \in 0..Len(log) : a \in Aggs(p) /\ \A i \in DOMAIN nq : p < nq[i]
  BY <1>1, <1>2, <1>3 DEF LiveInv
<1>6. PICK q \in 0..Len(log) : es \in Seq(Events(q)) /\ \A i \in DOMAIN nq : q < nq[i]
  BY <1>1, <1>2 DEF SentInv
<1>7. p \in Nat /\ q \in Nat /\ p < n /\ q < n
  BY <1>3, <1>4, <1>5, <1>6
<1>8. OpenNeat(a.open)
  BY <1>1, <1>2, <1>3 DEF LiveInv, Seen
<1>9. Clean(es) /\ (whole => Chained(es) /\ Leads(es, a.open))
  BY <1>1, <1>2 DEF SentInv
<1>10. Wrote(es, es \o Step(a, n).out, Step(a, n).agg.open, n, whole)
  BY <1>3, <1>4, <1>5, <1>6, <1>7, <1>8, <1>9, WroteMore
<1>11. PICK x, o : x = es \o Step(a, n).out /\ o = Step(a, n).agg.open
  OBVIOUS
<1>12. x \in Seq(Events(n)) /\ Clean(x) /\ (whole => Chained(x) /\ Leads(x, o))
  BY <1>10, <1>11 DEF Wrote
<1>13. Clean(x)' = Clean(x) /\ Chained(x)' = Chained(x) /\ Leads(x, o)' = Leads(x, o)
       /\ (StopIn(snap)' <=> StopIn(snap))
  BY <1>2 DEF Clean, Neat, Chained, Leads, Before, GoesOnWith, Tells, Words, Texts, None, StopIn
<1>14. (x = sent)' /\ (o = agg.open)'
  BY <1>2, <1>11
<1>15. Clean(sent)' /\ (~StopIn(snap)' => Chained(sent)' /\ Leads(sent, agg.open)')
  BY <1>1, <1>12, <1>13, <1>14
<1>16. \E m \in 0..Len(log') : sent' \in Seq(Events(m)) /\ \A i \in DOMAIN queue' : m < queue'[i]
  <2>1. n \in 0..Len(log')
    BY <1>2, <1>4
  <2>2. QED
    BY <1>2, <1>4, <1>11, <1>12, <2>1
<1>17. QED
  BY <1>2, <1>15, <1>16 DEF SentInv

LEMMA SentInit == Init => SentInv
BY DEF Init, SentInv

LEMMA SentNext == ChatInv /\ SentInv /\ [Next]_vars => SentInv'
<1> SUFFICES ASSUME ChatInv, SentInv, [Next]_vars
             PROVE  SentInv'
  OBVIOUS
<1>1. CASE \E f \in Frames : Publish(f)
  BY <1>1, SentPublish
<1>2. CASE Poll \/ PollEnds
  <2>1. sent' = <<>> /\ pc' \in {"idle", "polled"}
    BY <1>2 DEF Poll, PollEnds, SentInv
  <2>2. QED
    BY <2>1 DEF SentInv
<1>3. CASE SeesClosed \/ Cut
  <2>1. sent' = <<>> /\ pc' = "idle"
    BY <1>3 DEF SeesClosed, Cut, Leave
  <2>2. QED
    BY <2>1 DEF SentInv
<1>4. CASE Connect
  <2>1. sent' = <<>> /\ view' = <<>> /\ pc' = "history"
    BY <1>4 DEF Connect
  <2>2. AsHistory(<<>>, <<>>)
    BY DEF AsHistory
  <2>3. AsHistory(sent, view)'
    BY <2>1, <2>2 DEF AsHistory, Event
  <2>4. QED
    BY <2>1, <2>3 DEF SentInv
<1>5. CASE WriteHistory
  BY <1>5, SentHistory
<1>6. CASE Subscribe
  BY <1>6, SentSubscribe
<1>7. CASE WriteLive
  BY <1>7, SentLive
<1>8. CASE UNCHANGED vars
  <2>1. UNCHANGED <<log, pc, snap, agg, queue, sent, view>>
    BY <1>8 DEF vars, subVars
  <2>2. LogStays /\ Numbers(snap)
    BY <2>1, LogSame DEF ChatInv, TypeInv
  <2>3. QED
    BY <2>1, <2>2, SentKept
<1>9. QED
  BY <1>1, <1>2, <1>3, <1>4, <1>5, <1>6, <1>7, <1>8 DEF Next

\* What a stream has written is neat, and each text goes on with the ones before.
LEMMA InvOnceEach == ChatInv /\ SentInv => OnceEach
<1> SUFFICES ASSUME ChatInv, SentInv PROVE OnceEach
  OBVIOUS
<1>1. TypeInv /\ HistoryInv /\ log \in Seq(Frames) /\ Len(log) \in Nat
  BY DEF ChatInv, TypeInv
<1>2. PICK p \in Nat : sent \in Seq(Events(p)) /\ Clean(sent) /\ (~StopIn(snap) => Chained(sent))
  <2>1. CASE pc \in {"idle", "polled"}
    <3>1. sent = <<>>
      BY <2>1 DEF SentInv
    <3>2. QED
      BY <3>1 DEF Clean, Chained
  <2>2. CASE pc = "history"
    <3>1. view \in Seq(Upto(Len(log))) /\ hist \in Seq(Upto(Len(log))) /\ Tidy(view \o hist)
      BY <1>1, <2>2 DEF TypeInv, HistoryInv, Pending
    <3>2. Tidy(view)
      BY <3>1, PrefixTidy
    <3>3. AsHistory(sent, view)
      BY <2>2 DEF SentInv
    <3>4. QED
      BY <1>1, <3>1, <3>2, <3>3, WroteHistory
  <2>3. CASE pc = "live"
    BY <1>1, <2>3 DEF SentInv
  <2>4. QED
    BY <1>1, <2>1, <2>2, <2>3 DEF TypeInv
<1>3. ASSUME NEW i \in DOMAIN sent, Tells(sent[i])
      PROVE  /\ sent[i].msg.text \in Seq(Nat)
             /\ \A k, j \in DOMAIN sent[i].msg.text : j < k => sent[i].msg.text[j] < sent[i].msg.text[k]
             /\ \A k \in DOMAIN sent[i].msg.text :
                  /\ log[sent[i].msg.text[k]].of = sent[i].msg.role
                  /\ k > 1 => sent[i].msg.text[k - 1] < sent[i].msg.text[k]
  <2>1. sent[i].msg.text \in Seq(Nat)
    BY <1>2, <1>3, EventKind
  <2>2. Neat(sent[i].msg)
    BY <1>2, <1>3 DEF Clean
  <2>3. ASSUME NEW k \in DOMAIN sent[i].msg.text, k > 1
        PROVE  k - 1 \in DOMAIN sent[i].msg.text /\ k - 1 < k
    BY <2>1, <2>3
  <2>4. QED
    BY <2>1, <2>2, <2>3 DEF Neat
<1>4. ASSUME ~StopIn(snap), NEW i \in DOMAIN sent, NEW j \in DOMAIN sent, i < j, Tells(sent[i]), Tells(sent[j]),
             ToSet(sent[i].msg.text) \cap ToSet(sent[j].msg.text) # {}
      PROVE  IsPrefix(sent[i].msg.text, sent[j].msg.text)
  <2>1. GoesOnWith(ToSet(sent[i].msg.text), ToSet(sent[j].msg.text))
    BY <1>2, <1>4 DEF Chained, Words
  <2>2. PICK s, t : s = sent[i].msg.text /\ t = sent[j].msg.text
    OBVIOUS
  <2>3. /\ s \in Seq(Nat) /\ t \in Seq(Nat)
        /\ (\A k, l \in DOMAIN s : l < k => s[l] < s[k]) /\ (\A k, l \in DOMAIN t : l < k => t[l] < t[k])
    BY <1>3, <1>4, <2>2
  <2>4. IsPrefix(s, t)
    BY <1>4, <2>1, <2>2, <2>3, PrefixOf
  <2>5. QED
    BY <2>2, <2>4
<1>5. QED
  BY <1>3, <1>4 DEF OnceEach, Tells

----------------------------------------------------------------------------
(* The texts of a list *)

\* Every message has some texts, or none.
Worded(ms) == \A i \in 1..Len(ms) : ms[i].text \in Seq(Nat)

\* t has the texts of each of the first messages of ms.
TextsBy(t, ms) == t[0] = <<>> /\ \A k \in 1..Len(ms) : t[k] = t[k - 1] \o ms[k].text

\* A list has its texts.
LEMMA TextsFollows ==
  ASSUME NEW S, NEW ms \in Seq(S), Worded(ms)
  PROVE  \E t : /\ TextsBy(t, ms) /\ TextsOf(ms) = t[Len(ms)]
                /\ \A k \in 0..Len(ms) : t[k] \in Seq(Nat)
<1> DEFINE n == Len(ms)
           A == Seq(Nat)
           T == [k \in 0..n |-> A]
           F == [p \in (1..n) \X A |-> p[2] \o ms[p[1]].text]
<1>1. n \in Nat /\ \A k \in 1..n : k - 1 \in 0..n /\ k \in 0..n /\ k # 0 /\ ms[k].text \in A
  BY DEF Worded
<1>2. 0 \in 0..n /\ n \in 0..n
  BY <1>1
<1>3. <<>> \in T[0]
  BY <1>2
<1>4. ASSUME NEW k \in 1..n, NEW a \in A
      PROVE  F[<<k, a>>] = a \o ms[k].text /\ F[<<k, a>>] \in A
  <2>1. F[<<k, a>>] = a \o ms[k].text
    OBVIOUS
  <2>2. ms[k].text \in Seq(Nat)
    BY <1>1
  <2> HIDE DEF F
  <2>3. a \o ms[k].text \in Seq(Nat)
    BY <2>2
  <2>4. QED
    BY <2>1, <2>3
<1>5. (\A k \in 1..n : T[k] = A /\ T[k - 1] = A) /\ \A k \in 0..n : T[k] = A
  BY <1>1
<1> HIDE DEF T, F, A
<1>6. PICK f : Follows(f, <<>>, F, n) /\ \A k \in 0..n : f[k] \in T[k]
  <2>1. \A k \in 1..n : \A a \in T[k - 1] : F[<<k, a>>] \in T[k]
    BY <1>4, <1>5, Zenon
  <2> HIDE DEF n
  <2>2. QED
    BY <1>1, <1>3, <2>1, FollowsThrough
<1>7. f = [k \in 0..n |-> IF k = 0 THEN <<>> ELSE f[k - 1] \o ms[k].text]
  <2>1. f = [k \in 0..n |-> IF k = 0 THEN <<>> ELSE F[<<k, f[k - 1]>>]]
    BY <1>6 DEF Follows
  <2>2. \A k \in 1..n : F[<<k, f[k - 1]>>] = f[k - 1] \o ms[k].text
    BY <1>1, <1>4, <1>5, <1>6
  <2>3. \A k \in 0..n : k # 0 => k \in 1..n
    BY <1>1
  <2>4. \A k \in 0..n : (IF k = 0 THEN <<>> ELSE F[<<k, f[k - 1]>>])
                      = (IF k = 0 THEN <<>> ELSE f[k - 1] \o ms[k].text)
    BY <2>2, <2>3
  <2>5. QED
    BY <2>1, <2>4
<1> DEFINE G(g) == g = [k \in 0..Len(ms) |-> IF k = 0 THEN <<>> ELSE g[k - 1] \o ms[k].text]
           c == CHOOSE g : G(g)
<1>8. G(c) /\ TextsOf(ms) = c[Len(ms)]
  <2>1. \E g : G(g)
    BY <1>7
  <2>2. TextsOf(ms) = c[Len(ms)]
    BY DEF TextsOf
  <2> HIDE DEF G
  <2>3. QED
    BY <2>1, <2>2
<1>9. c[0] = <<>> /\ \A k \in 1..n : c[k] = c[k - 1] \o ms[k].text
  <2> HIDE DEF c
  <2>1. c = [k \in 0..n |-> IF k = 0 THEN <<>> ELSE c[k - 1] \o ms[k].text]
    BY <1>8
  <2> HIDE DEF G, n
  <2>2. c[0] = <<>>
    BY <1>2, <2>1
  <2>3. ASSUME NEW k \in 1..n
        PROVE  c[k] = c[k - 1] \o ms[k].text
    <3>1. k \in 0..n /\ k # 0
      BY <1>1
    <3>2. c[k] = IF k = 0 THEN <<>> ELSE c[k - 1] \o ms[k].text
      BY <2>1, <3>1
    <3>3. QED
      BY <3>1, <3>2
  <2>4. QED
    BY <2>2, <2>3
<1> HIDE DEF c, G
<1>10. \A k \in 0..n : c[k] \in T[k]
  <2>1. c[0] \in T[0]
    BY <1>3, <1>9
  <2> HIDE DEF n
  <2>2. ASSUME NEW k \in 1..n, c[k - 1] \in T[k - 1]
        PROVE  c[k] \in T[k]
    <3>1. T[k] = A /\ T[k - 1] = A
      BY <1>5
    <3>2. F[<<k, c[k - 1]>>] = c[k - 1] \o ms[k].text /\ F[<<k, c[k - 1]>>] \in A
      BY <1>4, <2>2, <3>1
    <3>3. c[k] = c[k - 1] \o ms[k].text
      BY <1>9
    <3>4. QED
      BY <3>1, <3>2, <3>3
  <2>3. QED
    BY <1>1, <2>1, <2>2, GoesThrough
<1>11. \A k \in 0..n : c[k] \in Seq(Nat)
  BY <1>5, <1>10 DEF A
<1>12. TextsBy(c, ms)
  BY <1>9 DEF TextsBy
<1>13. QED
  BY <1>8, <1>11, <1>12

\* The first n messages of xs have the texts of those of ms.
SameTexts(ms, xs, n) == n <= Len(xs) /\ n <= Len(ms) /\ \A i \in 1..n : xs[i].text = ms[i].text

\* Two lists with the same first texts have them alike.
LEMMA TextsAgree ==
  ASSUME NEW S, NEW ms \in Seq(S), NEW xs \in Seq(S), NEW n \in Nat, SameTexts(ms, xs, n),
         NEW t, TextsBy(t, ms), NEW u, TextsBy(u, xs)
  PROVE  u[n] = t[n]
<1> DEFINE P == {k \in 0..n : u[k] = t[k]}
<1>1. /\ n \in 0..n /\ \A k \in 1..n : k - 1 \in 0..n /\ k \in 0..n /\ k \in 1..Len(xs) /\ k \in 1..Len(ms)
  BY DEF SameTexts
<1>2. 0 \in P
  BY DEF TextsBy
<1>3. ASSUME NEW k \in 1..n, k - 1 \in P
      PROVE  k \in P
  <2>1. u[k] = u[k - 1] \o xs[k].text /\ t[k] = t[k - 1] \o ms[k].text
    BY <1>1 DEF TextsBy
  <2>2. u[k - 1] = t[k - 1] /\ xs[k].text = ms[k].text
    BY <1>3 DEF SameTexts
  <2>3. QED
    BY <1>1, <2>1, <2>2
<1> HIDE DEF P
<1>4. \A k \in 0..n : k \in P
  BY <1>2, <1>3, UpTo
<1>5. QED
  BY <1>1, <1>4 DEF P

\* A message at the end of a list adds its texts,
LEMMA TextsAppended ==
  ASSUME NEW S, NEW ms \in Seq(S), Worded(ms), NEW g, g.text \in Seq(Nat), NEW x \in Seq(S), Appended(ms, g, x)
  PROVE  Worded(x) /\ TextsOf(ms) \in Seq(Nat) /\ TextsOf(x) = TextsOf(ms) \o g.text
<1> DEFINE n == Len(ms)
<1>1. n \in Nat /\ Len(x) = n + 1 /\ n <= Len(x) /\ n + 1 \in 1..Len(x) /\ (n + 1) - 1 = n
  <2>1. DOMAIN x = 1..(n + 1) /\ n \in Nat
    BY DEF Appended
  <2>2. Len(x) = n + 1
    BY <2>1, LengthOf
  <2>3. QED
    BY <2>1, <2>2
<1>2. (\A i \in 1..n : x[i] = ms[i]) /\ x[n + 1] = g
  BY DEF Appended
<1>3. \A i \in 1..(n + 1) : i \in 1..n \/ i = n + 1
  BY <1>1
<1>4. Worded(x)
  BY <1>1, <1>2, <1>3 DEF Worded
<1>5. PICK t : TextsBy(t, ms) /\ TextsOf(ms) = t[n] /\ \A k \in 0..n : t[k] \in Seq(Nat)
  BY TextsFollows
<1>6. PICK u : TextsBy(u, x) /\ TextsOf(x) = u[Len(x)]
  BY <1>4, TextsFollows
<1> HIDE DEF n
<1>7. u[n] = t[n]
  <2>1. SameTexts(ms, x, n)
    BY <1>1, <1>2 DEF n, SameTexts
  <2>2. QED
    BY <1>1, <1>5, <1>6, <2>1, TextsAgree
<1>8. u[n + 1] = u[n] \o g.text
  BY <1>1, <1>2, <1>6 DEF TextsBy
<1>9. t[n] \in Seq(Nat)
  BY <1>1, <1>5
<1>10. QED
  BY <1>1, <1>4, <1>5, <1>6, <1>7, <1>8, <1>9

\* ... one replaced by one with the same texts changes nothing,
LEMMA TextsSame ==
  ASSUME NEW S, NEW ms \in Seq(S), Worded(ms), NEW k, NEW g, g.text = ms[k].text, NEW x \in Seq(S),
         Exchanged(ms, k, g, x)
  PROVE  Worded(x) /\ TextsOf(x) = TextsOf(ms)
<1> DEFINE n == Len(ms)
<1>1. n \in Nat /\ Len(x) = n
  <2>1. DOMAIN x = 1..n /\ n \in Nat
    BY DEF Exchanged
  <2>2. QED
    BY <2>1, LengthOf
<1>2. \A i \in 1..n : x[i].text = ms[i].text
  BY DEF Exchanged
<1>3. Worded(x)
  BY <1>1, <1>2 DEF Worded
<1>4. PICK t : TextsBy(t, ms) /\ TextsOf(ms) = t[n]
  BY TextsFollows
<1>5. PICK u : TextsBy(u, x) /\ TextsOf(x) = u[Len(x)]
  BY <1>3, TextsFollows
<1> HIDE DEF n
<1>6. u[n] = t[n]
  <2>1. SameTexts(ms, x, n)
    BY <1>1, <1>2 DEF n, SameTexts
  <2>2. QED
    BY <1>1, <1>4, <1>5, <2>1, TextsAgree
<1>7. QED
  BY <1>1, <1>3, <1>4, <1>5, <1>6

\* A number at the end of the second of two sequences is at the end of both.
LEMMA OneWord ==
  ASSUME NEW t \in Seq(Nat), NEW s \in Seq(Nat), NEW m \in Nat
  PROVE  Append(s, m) \in Seq(Nat) /\ t \o Append(s, m) = (t \o s) \o <<m>>
<1>1. <<m>> \in Seq(Nat) /\ Append(s, m) \in Seq(Nat)
  OBVIOUS
<1>2. Append(s, m) = s \o <<m>>
  BY AppendIsConcat
<1>3. (t \o s) \o <<m>> = t \o (s \o <<m>>)
  BY <1>1, ConcatAssociative
<1>4. QED
  BY <1>1, <1>2, <1>3

\* g's text is the last message's with one more number.
GoesOn(ms, g, m) == g.text = Append(ms[Len(ms)].text, m)

\* ... and one more in the last of its messages is one more at the end.
LEMMA TextsGrown ==
  ASSUME NEW S, NEW ms \in Seq(S), Worded(ms), NEW g, NEW m \in Nat, GoesOn(ms, g, m),
         NEW x \in Seq(S), Exchanged(ms, Len(ms), g, x)
  PROVE  Worded(x) /\ TextsOf(ms) \in Seq(Nat) /\ TextsOf(x) = TextsOf(ms) \o <<m>>
<1> DEFINE n == Len(ms)
<1>1. n \in Nat /\ Len(x) = n /\ n \in 1..n
  <2>1. DOMAIN x = 1..n /\ n \in Nat /\ n \in 1..n
    BY DEF Exchanged
  <2>2. QED
    BY <2>1, LengthOf
<1>2. (\A i \in 1..n : i # n => x[i] = ms[i]) /\ x[n] = g
  BY DEF Exchanged
<1>3. ms[n].text \in Seq(Nat) /\ g.text = Append(ms[n].text, m)
  BY <1>1 DEF Worded, GoesOn
<1>4. Worded(x)
  <2>1. ASSUME NEW i \in 1..n
        PROVE  x[i].text \in Seq(Nat)
    <3>1. CASE i = n
      BY <1>2, <1>3, <3>1, OneWord
    <3>2. CASE i # n
      BY <1>2, <3>2 DEF Worded
    <3>3. QED
      BY <3>1, <3>2
  <2>2. QED
    BY <1>1, <2>1 DEF Worded
<1>5. PICK t : TextsBy(t, ms) /\ TextsOf(ms) = t[n] /\ \A k \in 0..n : t[k] \in Seq(Nat)
  BY TextsFollows
<1>6. PICK u : TextsBy(u, x) /\ TextsOf(x) = u[Len(x)]
  BY <1>4, TextsFollows
<1> DEFINE p == n - 1
<1>7. p \in Nat /\ p <= Len(ms) /\ p <= Len(x) /\ p \in 0..n /\ n \in 0..n /\ \A i \in 1..p : i \in 1..n /\ i # n
  BY <1>1
<1> HIDE DEF n, p
<1>8. u[p] = t[p]
  <2>1. SameTexts(ms, x, p)
    BY <1>2, <1>7 DEF SameTexts
  <2>2. QED
    BY <1>5, <1>6, <1>7, <2>1, TextsAgree
<1>9. u[n] = u[p] \o g.text /\ t[n] = t[p] \o ms[n].text
  <2>1. n \in 1..Len(x) /\ n \in 1..Len(ms) /\ n - 1 = p
    BY <1>1 DEF n, p
  <2>2. QED
    BY <1>2, <1>5, <1>6, <2>1 DEF TextsBy
<1>10. t[p] \in Seq(Nat) /\ t[n] \in Seq(Nat)
  BY <1>5, <1>7
<1>11. u[n] = t[n] \o <<m>>
  <2>1. PICK a, b : a = t[p] /\ b = ms[n].text
    OBVIOUS
  <2>2. a \in Seq(Nat) /\ b \in Seq(Nat)
    BY <1>3, <1>10, <2>1
  <2>3. a \o Append(b, m) = (a \o b) \o <<m>>
    BY <2>2, OneWord
  <2>4. u[n] = a \o Append(b, m) /\ t[n] = a \o b
    BY <1>3, <1>8, <1>9, <2>1
  <2>5. QED
    BY <2>3, <2>4
<1>12. QED
  BY <1>1, <1>4, <1>5, <1>6, <1>10, <1>11

----------------------------------------------------------------------------
(* The full projection *)

\* The messages of aggregateMessages, and its lists of them.
Cards == [first : Nat, seq : Nat, role : Roles \cup Tools \cup {"session"}, text : Seq(Nat), summary : Summaries]
Fulls == {a \in [out : Seq(Cards), tools : [Tools -> Nat]] : \A t \in Tools : a.tools[t] <= Len(a.out)}

\* What a frame is of.
LEMMA FrameOf ==
  ASSUME log \in Seq(Frames), NEW n \in 1..Len(log)
  PROVE  log[n].of \in Roles \cup Tools \cup {"session"}
<1>1. log[n] \in Frames
  OBVIOUS
<1>2. QED
  BY <1>1 DEF Frames, Roles

\* A record of such fields is a message.
LEMMA CardIn ==
  ASSUME NEW n \in Nat, NEW r \in Roles \cup Tools \cup {"session"}, NEW x \in Seq(Nat), NEW u \in Summaries,
         NEW m, m = [first |-> n, seq |-> n, role |-> r, text |-> x, summary |-> u]
  PROVE  m \in Cards /\ m.first = n /\ m.text = x /\ m.summary = u
BY DEF Cards

\* Every message it makes of a frame is one,
LEMMA CardKind ==
  ASSUME log \in Seq(Frames), NEW n \in 1..Len(log)
  PROVE  /\ Bubble(n) \in Cards /\ Card(n) \in Cards /\ Tool(n) \in Cards
         /\ Bubble(n).first = n /\ Bubble(n).text = <<n>> /\ Bubble(n).summary = ""
         /\ Card(n).first = n /\ Card(n).text = <<>> /\ Card(n).summary = ""
         /\ Tool(n).first = n /\ Tool(n).text = <<>> /\ Tool(n).summary = "running"
<1>1. log[n].of \in Roles \cup Tools \cup {"session"} /\ "tool" \in Roles \cup Tools \cup {"session"} /\ n \in Nat
  BY FrameOf DEF Roles
<1>2. <<n>> \in Seq(Nat) /\ <<>> \in Seq(Nat) /\ "" \in Summaries /\ "running" \in Summaries
  BY <1>1 DEF Summaries
<1>3. PICK one, none, r, tool, no, running : /\ one = <<n>> /\ none = <<>> /\ r = log[n].of /\ tool = "tool"
                                            /\ no = "" /\ running = "running"
  BY Zenon
<1>4. /\ n \in Nat /\ r \in Roles \cup Tools \cup {"session"} /\ tool \in Roles \cup Tools \cup {"session"}
      /\ one \in Seq(Nat) /\ none \in Seq(Nat) /\ no \in Summaries /\ running \in Summaries
  BY <1>1, <1>2, <1>3, Zenon
<1>5. Bubble(n) \in Cards /\ Bubble(n).first = n /\ Bubble(n).text = one /\ Bubble(n).summary = ""
  <2>1. PICK m : m = [first |-> n, seq |-> n, role |-> r, text |-> one, summary |-> no]
    OBVIOUS
  <2>2. Bubble(n) = m
    BY <1>3, <2>1, Zenon DEF Bubble
  <2>3. m \in Cards /\ m.first = n /\ m.text = one /\ m.summary = no
    BY <1>4, <2>1, CardIn
  <2>4. QED
    BY <1>3, <2>2, <2>3, Zenon
<1>6. Card(n) \in Cards /\ Card(n).first = n /\ Card(n).text = none /\ Card(n).summary = ""
  <2>1. PICK m : m = [first |-> n, seq |-> n, role |-> r, text |-> none, summary |-> no]
    OBVIOUS
  <2>2. Card(n) = m
    BY <1>3, <2>1, Zenon DEF Card
  <2>3. m \in Cards /\ m.first = n /\ m.text = none /\ m.summary = no
    BY <1>4, <2>1, CardIn
  <2>4. QED
    BY <1>3, <2>2, <2>3, Zenon
<1>7. Tool(n) \in Cards /\ Tool(n).first = n /\ Tool(n).text = none /\ Tool(n).summary = "running"
  <2>1. PICK m : m = [first |-> n, seq |-> n, role |-> tool, text |-> none, summary |-> running]
    OBVIOUS
  <2>2. Tool(n) = m
    BY <1>3, <2>1, Zenon DEF Tool
  <2>3. m \in Cards /\ m.first = n /\ m.text = none /\ m.summary = running
    BY <1>4, <2>1, CardIn
  <2>4. QED
    BY <1>3, <2>2, <2>3, Zenon
<1>8. QED
  BY <1>3, <1>5, <1>6, <1>7, Zenon

\* ... and every one it changes stays one.
LEMMA CardChanged ==
  ASSUME NEW m \in Cards, NEW n \in Nat
  PROVE  /\ Widened(m, n) \in Cards /\ WithResult(m) \in Cards
         /\ Widened(m, n).first = m.first /\ Widened(m, n).text = Append(m.text, n)
         /\ Widened(m, n).summary = m.summary
         /\ WithResult(m).first = m.first /\ WithResult(m).text = m.text /\ WithResult(m).summary = "ok"
<1>1. m.text \in Seq(Nat)
  BY DEF Cards
<1>2. Append(m.text, n) \in Seq(Nat)
  BY <1>1, OneWord
<1>3. "ok" \in Summaries
  BY DEF Summaries
<1>4. Widened(m, n) \in Cards
  BY <1>2 DEF Widened, Cards
<1>5. /\ Widened(m, n).first = m.first /\ Widened(m, n).text = Append(m.text, n)
      /\ Widened(m, n).summary = m.summary
  BY DEF Widened, Cards
<1>6. WithResult(m) \in Cards
  BY <1>3 DEF WithResult, Cards
<1>7. WithResult(m).first = m.first /\ WithResult(m).text = m.text /\ WithResult(m).summary = "ok"
  BY DEF WithResult, Cards
<1>8. QED
  BY <1>4, <1>5, <1>6, <1>7

\* What a step of the full projection does, place by place.
Asks(n) == log[n].of \in Questions
Alone(tools, n) == log[n].kind = "result" /\ tools[log[n].of] = 0
FullShape(out, tools, x, t, n) ==
  /\ Merges(out, n) => Exchanged(out, Len(out), Widened(out[Len(out)], n), x) /\ t = tools
  /\ Begins(out, n) => Appended(out, Bubble(n), x) /\ t = tools
  /\ log[n].kind = "start" =>
       /\ Appended(out, IF Asks(n) THEN Card(n) ELSE Tool(n), x)
       /\ log[n].of \in Tools /\ t = [tools EXCEPT ![log[n].of] = Len(out) + 1]
  /\ Ends(tools, n) => log[n].of \in Tools /\ t = tools
  /\ Ends(tools, n) /\ ~Asks(n) => Exchanged(out, tools[log[n].of], WithResult(out[tools[log[n].of]]), x)
  /\ Ends(tools, n) /\ Asks(n) => x = out
  /\ ~IsText(n) /\ log[n].kind # "start" /\ ~Ends(tools, n) =>
       /\ t = tools
       /\ Alone(tools, n) => Appended(out, WithResult(Tool(n)), x)
       /\ ~Alone(tools, n) => Appended(out, Card(n), x) \/ x = out

\* Each step of aggregateMessages is of one of those shapes.
LEMMA MessageStepShape ==
  ASSUME log \in Seq(Frames), NEW n \in 1..Len(log), NEW m \in Fulls
  PROVE  /\ MessageStep(m, n) \in Fulls
         /\ FullShape(m.out, m.tools, MessageStep(m, n).out, MessageStep(m, n).tools, n)
<1> SUFFICES ASSUME NEW out, NEW tools, NEW x, NEW t, NEW len, out = m.out, tools = m.tools,
                    x = MessageStep(m, n).out, t = MessageStep(m, n).tools, len = Len(out)
             PROVE  MessageStep(m, n) \in Fulls /\ FullShape(out, tools, x, t, n)
  OBVIOUS
<1> DEFINE f == log[n]
           s == MessageStep(m, n)
<1>1. /\ n \in Nat /\ out \in Seq(Cards) /\ tools \in [Tools -> Nat]
      /\ m = [out |-> out, tools |-> tools] /\ \A y \in Tools : tools[y] <= len
  BY DEF Fulls
<1>2. len \in Nat /\ DOMAIN out = 1..len
  BY <1>1
<1>3. ASSUME NEW y \in Seq(Cards), NEW w \in [Tools -> Nat], s = [out |-> y, tools |-> w],
             \A z \in Tools : w[z] <= Len(y)
      PROVE  x = y /\ t = w /\ s \in Fulls
  BY <1>3 DEF Fulls
<1>4. ASSUME NEW g \in Cards
      PROVE  /\ Append(out, g) \in Seq(Cards) /\ Len(Append(out, g)) = len + 1 /\ Appended(out, g, Append(out, g))
             /\ \A z \in Tools : tools[z] <= len + 1
  <2>1. PICK S : S = Cards
    OBVIOUS
  <2>2. /\ Append(out, g) \in Seq(S) /\ Len(Append(out, g)) = len + 1
        /\ (\A i \in 1..len : Append(out, g)[i] = out[i]) /\ Append(out, g)[len + 1] = g
    BY <1>1, <2>1, AppendSet
  <2>3. DOMAIN Append(out, g) = 1..(len + 1)
    BY <2>2
  <2>4. \A z \in Tools : tools[z] <= len + 1
    BY <1>1, <1>2
  <2>5. QED
    BY <2>1, <2>2, <2>3, <2>4 DEF Appended
<1>5. ASSUME NEW k \in 1..len, NEW g \in Cards, NEW y \in Seq(Cards), Exchanged(out, k, g, y)
      PROVE  \A z \in Tools : tools[z] <= Len(y)
  <2>1. DOMAIN y = 1..len
    BY <1>5 DEF Exchanged
  <2>2. Len(y) = len
    BY <1>2, <2>1, LengthOf
  <2>3. QED
    BY <1>1, <2>2
<1>6. CASE IsText(n) /\ out # <<>> /\ Last(out).role = f.of
  <2> DEFINE g == Widened(Last(out), n)
             y == Append(Front(out), g)
  <2>1. s = [m EXCEPT !.out = y]
    BY <1>6, Sizes DEF MessageStep, IsText
  <2>2. Last(out) = out[len] /\ len \in 1..len
    BY <1>1, <1>2, <1>6 DEF Last
  <2>3. s = [out |-> y, tools |-> tools]
    BY <1>1, <2>1
  <2>4. g \in Cards
    <3>1. Last(out) \in Cards
      BY <1>1, <1>2, <2>2
    <3>2. QED
      BY <1>1, <3>1, CardChanged
  <2> HIDE DEF g
  <2>5. y \in Seq(Cards) /\ Exchanged(out, len, g, y)
    <3>1. PICK S : S = Cards
      OBVIOUS
    <3>2. out \in Seq(S) /\ out # <<>> /\ g \in S
      BY <1>1, <1>6, <2>4, <3>1
    <3>3. y \in Seq(S)
      BY <3>2, LastExchanged
    <3>4. Exchanged(out, len, g, y)
      BY <3>2, LastPlace
    <3>5. QED
      BY <3>1, <3>3, <3>4
  <2> HIDE DEF y, s
  <2>6. \A z \in Tools : tools[z] <= Len(y)
    BY <1>5, <2>2, <2>4, <2>5
  <2>7. x = y /\ t = tools /\ s \in Fulls
    BY <1>1, <1>3, <2>3, <2>5, <2>6
  <2>8. Exchanged(out, len, Widened(out[len], n), x)
    BY <2>2, <2>5, <2>7 DEF g
  <2>9. QED
    BY <1>6, <2>7, <2>8 DEF FullShape, Begins, Ends, IsText, s
<1>7. CASE IsText(n) /\ ~(out # <<>> /\ Last(out).role = f.of)
  <2> DEFINE y == Append(out, Bubble(n))
  <2>1. s = [m EXCEPT !.out = y]
    BY <1>7, Sizes DEF MessageStep, IsText
  <2>2. s = [out |-> y, tools |-> tools]
    BY <1>1, <2>1
  <2>3. y \in Seq(Cards) /\ Appended(out, Bubble(n), y) /\ \A z \in Tools : tools[z] <= Len(y)
    BY <1>4, CardKind, Zenon
  <2> HIDE DEF y, s
  <2>4. x = y /\ t = tools /\ s \in Fulls
    BY <1>1, <1>3, <2>2, <2>3
  <2>5. QED
    BY <1>7, <2>3, <2>4 DEF FullShape, Merges, Ends, IsText, s
<1>8. CASE f.kind = "start"
  <2> DEFINE g == IF Asks(n) THEN Card(n) ELSE Tool(n)
             y == Append(out, g)
             w == [tools EXCEPT ![f.of] = len + 1]
  <2>1. s = [out |-> y, tools |-> w]
    BY <1>8, Sizes DEF MessageStep, IsText, Asks
  <2>2. f.of \in Tools
    BY <1>8, FrameKind
  <2>3. g \in Cards
    BY CardKind, Zenon
  <2>4. w \in [Tools -> Nat] /\ \A z \in Tools : w[z] = tools[z] \/ w[z] = len + 1
    BY <1>1, <1>2, <2>2
  <2>5. w = [tools EXCEPT ![log[n].of] = Len(out) + 1]
    OBVIOUS
  <2> HIDE DEF g
  <2>6. y \in Seq(Cards) /\ Appended(out, g, y) /\ Len(y) = len + 1 /\ \A z \in Tools : tools[z] <= len + 1
    BY <1>4, <2>3, Zenon
  <2> HIDE DEF y, w, s
  <2>7. \A z \in Tools : w[z] <= Len(y)
    <3>1. \A z \in Tools : tools[z] <= len + 1 /\ (w[z] = tools[z] \/ w[z] = len + 1)
      BY <2>4, <2>6
    <3>2. \A z \in Tools : w[z] <= len + 1
      BY <1>2, <3>1
    <3>3. QED
      BY <2>6, <3>2
  <2>8. x = y /\ t = w /\ s \in Fulls
    BY <1>3, <2>1, <2>4, <2>6, <2>7
  <2>9. QED
    BY <1>8, <2>2, <2>5, <2>6, <2>8 DEF FullShape, Merges, Begins, Ends, IsText, s, g
<1>9. CASE f.kind = "result" /\ tools[f.of] > 0 /\ ~Asks(n)
  <2> DEFINE k == tools[f.of]
             g == WithResult(out[k])
             y == [out EXCEPT ![k] = g]
  <2>1. s = [m EXCEPT !.out = y]
    BY <1>9, Sizes DEF MessageStep, AtTool, IsText, Asks
  <2>2. f.of \in Tools
    BY <1>9, FrameKind
  <2>3. k \in 1..len /\ out[k] \in Cards
    BY <1>1, <1>2, <1>9, <2>2
  <2> HIDE DEF k
  <2>4. g \in Cards
    BY <1>1, <2>3, CardChanged
  <2>5. s = [out |-> y, tools |-> tools]
    BY <1>1, <2>1
  <2> HIDE DEF g
  <2>6. DOMAIN y = 1..len /\ (\A i \in 1..len : i # k => y[i] = out[i]) /\ y[k] = g /\ y \in Seq(Cards)
    BY <1>1, <1>2, <2>3, <2>4
  <2> HIDE DEF y, s
  <2>7. Exchanged(out, k, g, y)
    BY <2>3, <2>6 DEF Exchanged
  <2>8. \A z \in Tools : tools[z] <= Len(y)
    BY <1>5, <2>3, <2>4, <2>6, <2>7
  <2>9. x = y /\ t = tools /\ s \in Fulls
    BY <1>1, <1>3, <2>5, <2>6, <2>8
  <2>10. QED
    BY <1>9, <2>2, <2>7, <2>9 DEF FullShape, Merges, Begins, Ends, IsText, s, g, k
<1>10. CASE f.kind = "result" /\ tools[f.of] = 0
  <2> DEFINE g == WithResult(Tool(n))
             y == Append(out, g)
  <2>1. s = [m EXCEPT !.out = y]
    BY <1>10, Sizes DEF MessageStep, IsText
  <2>2. s = [out |-> y, tools |-> tools]
    BY <1>1, <2>1
  <2>3. g \in Cards
    <3>1. Tool(n) \in Cards
      BY CardKind, Zenon
    <3>2. QED
      BY <1>1, <3>1, CardChanged, Zenon
  <2> HIDE DEF g
  <2>4. y \in Seq(Cards) /\ Appended(out, g, y) /\ \A z \in Tools : tools[z] <= Len(y)
    BY <1>4, <2>3, Zenon
  <2> HIDE DEF y, s
  <2>5. x = y /\ t = tools /\ s \in Fulls
    BY <1>1, <1>3, <2>2, <2>4
  <2>6. /\ ~IsText(n) /\ log[n].kind # "start" /\ Alone(tools, n) /\ ~Ends(tools, n)
        /\ ~Merges(out, n) /\ ~Begins(out, n)
    BY <1>10 DEF Merges, Begins, Ends, Alone, IsText
  <2>7. Appended(out, WithResult(Tool(n)), x) /\ t = tools
    BY <2>4, <2>5 DEF g
  <2>8. FullShape(out, tools, x, t, n)
    BY <2>6, <2>7, Zenon DEF FullShape
  <2>9. QED
    BY <2>5, <2>8 DEF s
<1>11. CASE f.kind \in Other \cup {"stop"}
  <2> DEFINE y == Append(out, Card(n))
  <2>1. f.kind \notin {"text", "start", "result"}
    BY <1>11, Sizes
  <2>2. s = [m EXCEPT !.out = y]
    BY <1>11, <2>1 DEF MessageStep, IsText
  <2>3. s = [out |-> y, tools |-> tools]
    BY <1>1, <2>2
  <2>4. y \in Seq(Cards) /\ Appended(out, Card(n), y) /\ \A z \in Tools : tools[z] <= Len(y)
    BY <1>4, CardKind, Zenon
  <2> HIDE DEF y, s
  <2>5. x = y /\ t = tools /\ s \in Fulls
    BY <1>1, <1>3, <2>3, <2>4
  <2>6. QED
    BY <2>1, <2>4, <2>5 DEF FullShape, Merges, Begins, Ends, Alone, IsText, s
<1>12. CASE /\ ~IsText(n) /\ f.kind # "start" /\ ~(f.kind = "result" /\ tools[f.of] > 0 /\ ~Asks(n))
            /\ ~(f.kind = "result" /\ tools[f.of] = 0) /\ f.kind \notin Other \cup {"stop"}
  <2>1. s = m
    BY <1>12 DEF MessageStep, IsText, Asks
  <2> HIDE DEF s
  <2>2. x = out /\ t = tools /\ s \in Fulls
    BY <1>1, <2>1 DEF s
  <2>3. f.kind = "result" => f.of \in Tools
    BY FrameKind
  <2>4. QED
    BY <1>12, <2>2, <2>3 DEF FullShape, Merges, Begins, Ends, Alone, IsText, s
<1>13. QED
  BY <1>6, <1>7, <1>8, <1>9, <1>10, <1>11, <1>12

----------------------------------------------------------------------------
(* What a frame does to a list of messages *)

\* The first frames of the messages with a result, but for those in u.
EndedOf(ms, u) == {ms[i].first : i \in {k \in DOMAIN ms : ms[k].summary = "ok"}} \ u

\* The messages of ms are still in x, and those with a result have it.
Stands(ms, x) ==
  \A i \in DOMAIN ms : i \in DOMAIN x /\ x[i].first = ms[i].first /\ (ms[i].summary = "ok" => x[i].summary = "ok")

\* x has n's text more than ms, nothing more, or a result more, of the k-th.
Spoke(ms, x, n, u) == TextsOf(x) = TextsOf(ms) \o <<n>> /\ EndedOf(x, u) = EndedOf(ms, u) /\ Stands(ms, x)
Mute(ms, x, u) == TextsOf(x) = TextsOf(ms) /\ EndedOf(x, u) = EndedOf(ms, u) /\ Stands(ms, x)
Finishes(ms, x, k, u) ==
  /\ TextsOf(x) = TextsOf(ms) /\ EndedOf(x, u) = EndedOf(ms, u) \cup ({ms[k].first} \ u) /\ Stands(ms, x)
  /\ k \in DOMAIN x /\ x[k].summary = "ok"

\* A message without a result adds none,
LEMMA EndedAppended ==
  ASSUME NEW S, NEW ms \in Seq(S), NEW u, NEW g, g.summary = "ok" => g.first \in u, NEW x, Appended(ms, g, x)
  PROVE  EndedOf(x, u) = EndedOf(ms, u) /\ Stands(ms, x)
<1> DEFINE n == Len(ms)
<1>1. DOMAIN ms = 1..n /\ DOMAIN x = 1..(n + 1) /\ n \in Nat /\ (\A i \in 1..n : x[i] = ms[i]) /\ x[n + 1] = g
  BY DEF Appended
<1>2. (\A i \in 1..(n + 1) : i \in 1..n \/ i = n + 1) /\ \A i \in 1..n : i \in 1..(n + 1)
  BY <1>1
<1> HIDE DEF n
<1>3. ASSUME NEW f, f \notin u
      PROVE  f \in EndedOf(x, u) <=> f \in EndedOf(ms, u)
  <2>1. f \in EndedOf(x, u) <=> \E i \in DOMAIN x : x[i].summary = "ok" /\ f = x[i].first
    BY <1>3 DEF EndedOf
  <2>2. f \in EndedOf(ms, u) <=> \E i \in DOMAIN ms : ms[i].summary = "ok" /\ f = ms[i].first
    BY <1>3 DEF EndedOf
  <2>3. \A i \in DOMAIN x : x[i].summary = "ok" /\ f = x[i].first => i \in 1..n /\ x[i] = ms[i]
    BY <1>1, <1>2, <1>3
  <2>4. QED
    BY <1>1, <1>2, <2>1, <2>2, <2>3
<1>4. EndedOf(x, u) = EndedOf(ms, u)
  BY <1>3 DEF EndedOf
<1>5. QED
  BY <1>1, <1>2, <1>4 DEF Stands

\* ... one replaced by one of its frame and summary none either,
LEMMA EndedSame ==
  ASSUME NEW S, NEW ms \in Seq(S), NEW u, NEW k, NEW g, g.first = ms[k].first, g.summary = ms[k].summary,
         NEW x, Exchanged(ms, k, g, x)
  PROVE  EndedOf(x, u) = EndedOf(ms, u) /\ Stands(ms, x)
<1>1. DOMAIN ms = 1..Len(ms) /\ DOMAIN x = 1..Len(ms)
  BY DEF Exchanged
<1>2. \A i \in DOMAIN ms : x[i].first = ms[i].first /\ x[i].summary = ms[i].summary
  BY DEF Exchanged
<1>3. {i \in DOMAIN x : x[i].summary = "ok"} = {i \in DOMAIN ms : ms[i].summary = "ok"}
  BY <1>1, <1>2
<1>4. EndedOf(x, u) = EndedOf(ms, u)
  BY <1>1, <1>2, <1>3 DEF EndedOf
<1>5. QED
  BY <1>1, <1>2, <1>4 DEF Stands

\* ... and one that is given its result adds that.
LEMMA EndedMore ==
  ASSUME NEW S, NEW ms \in Seq(S), NEW u, NEW k, NEW g, g.first = ms[k].first, g.summary = "ok",
         NEW x, Exchanged(ms, k, g, x)
  PROVE  /\ EndedOf(x, u) = EndedOf(ms, u) \cup ({ms[k].first} \ u) /\ Stands(ms, x)
         /\ k \in DOMAIN x /\ x[k].summary = "ok"
<1>1. DOMAIN ms = 1..Len(ms) /\ DOMAIN x = DOMAIN ms /\ k \in DOMAIN ms /\ x[k].summary = "ok"
  BY DEF Exchanged
<1>2. \A i \in DOMAIN ms : x[i].first = ms[i].first /\ (i # k => x[i].summary = ms[i].summary)
  BY DEF Exchanged
<1>3. ASSUME NEW f, f \notin u
      PROVE  f \in EndedOf(x, u) <=> f \in EndedOf(ms, u) \/ f = ms[k].first
  <2>1. f \in EndedOf(x, u) <=> \E i \in DOMAIN ms : x[i].summary = "ok" /\ f = ms[i].first
    BY <1>1, <1>2, <1>3 DEF EndedOf
  <2>2. f \in EndedOf(ms, u) <=> \E i \in DOMAIN ms : ms[i].summary = "ok" /\ f = ms[i].first
    BY <1>3 DEF EndedOf
  <2>3. \A i \in DOMAIN ms : x[i].summary = "ok" <=> ms[i].summary = "ok" \/ i = k
    BY <1>1, <1>2
  <2>4. QED
    BY <1>1, <2>1, <2>2, <2>3
<1>4. \A f : f \in EndedOf(x, u) \/ f \in EndedOf(ms, u) => f \notin u
  BY DEF EndedOf
<1>5. EndedOf(x, u) = EndedOf(ms, u) \cup ({ms[k].first} \ u)
  BY <1>3, <1>4
<1>6. Stands(ms, x)
  BY <1>1, <1>2 DEF Stands
<1>7. QED
  BY <1>1, <1>5, <1>6

\* One number is a list of numbers.
LEMMA OneNumber ==
  ASSUME NEW n \in Nat
  PROVE  <<n>> \in Seq(Nat)
OBVIOUS

\* A bubble is a text more,
LEMMA SpokeBegun ==
  ASSUME NEW S, NEW ms \in Seq(S), NEW u, Worded(ms), NEW n \in Nat, NEW g, g.text = <<n>>, g.summary = "",
         NEW x \in Seq(S), Appended(ms, g, x)
  PROVE  Spoke(ms, x, n, u)
<1>1. g.text \in Seq(Nat) /\ g.summary # "ok"
  <2>1. <<n>> \in Seq(Nat)
    BY OneNumber, Zenon
  <2>2. g.text \in Seq(Nat)
    BY <2>1, Zenon
  <2>3. g.summary # "ok"
    BY Zenon
  <2>4. QED
    BY <2>2, <2>3, Zenon
<1>2. TextsOf(x) = TextsOf(ms) \o g.text
  BY <1>1, TextsAppended, Zenon
<1>3. EndedOf(x, u) = EndedOf(ms, u) /\ Stands(ms, x)
  BY <1>1, EndedAppended, Zenon
<1>4. QED
  BY <1>2, <1>3, Zenon DEF Spoke

\* ... and so is a bubble that grows.
LEMMA SpokeGrown ==
  ASSUME NEW S, NEW ms \in Seq(S), NEW u, Worded(ms), NEW n \in Nat, NEW g, g.text = Append(ms[Len(ms)].text, n),
         g.first = ms[Len(ms)].first, g.summary = ms[Len(ms)].summary,
         NEW x \in Seq(S), Exchanged(ms, Len(ms), g, x)
  PROVE  Spoke(ms, x, n, u)
<1>1. TextsOf(x) = TextsOf(ms) \o <<n>>
  <2>1. GoesOn(ms, g, n)
    BY DEF GoesOn
  <2>2. QED
    BY <2>1, TextsGrown
<1>2. EndedOf(x, u) = EndedOf(ms, u) /\ Stands(ms, x)
  BY EndedSame
<1>3. QED
  BY <1>1, <1>2 DEF Spoke

\* A message without a text is nothing more,
LEMMA MuteBegun ==
  ASSUME NEW S, NEW ms \in Seq(S), NEW u, Worded(ms), NEW g, g.text = <<>>, g.summary = "ok" => g.first \in u,
         NEW x \in Seq(S), Appended(ms, g, x)
  PROVE  Mute(ms, x, u) /\ Len(ms) + 1 \in DOMAIN x /\ x[Len(ms) + 1].first = g.first
<1>1. g.text \in Seq(Nat)
  OBVIOUS
<1>2. TextsOf(ms) \in Seq(Nat) /\ TextsOf(x) = TextsOf(ms) \o g.text
  BY <1>1, TextsAppended
<1>3. PICK s : s = TextsOf(ms)
  OBVIOUS
<1>4. s \o <<>> = s
  BY <1>2, <1>3
<1>5. EndedOf(x, u) = EndedOf(ms, u) /\ Stands(ms, x)
  BY EndedAppended
<1>6. Len(ms) + 1 \in DOMAIN x /\ x[Len(ms) + 1].first = g.first
  BY DEF Appended
<1>7. QED
  BY <1>2, <1>3, <1>4, <1>5, <1>6 DEF Mute

\* ... as is no change at all.
LEMMA MuteSame ==
  ASSUME NEW ms, NEW u
  PROVE  Mute(ms, ms, u)
BY DEF Mute, Stands

\* A result is a result more.
LEMMA FinishesOne ==
  ASSUME NEW S, NEW ms \in Seq(S), NEW u, Worded(ms), NEW k, NEW g, g.text = ms[k].text,
         g.first = ms[k].first, g.summary = "ok", NEW x \in Seq(S), Exchanged(ms, k, g, x)
  PROVE  Finishes(ms, x, k, u)
<1>1. TextsOf(x) = TextsOf(ms)
  BY TextsSame
<1>2. EndedOf(x, u) = EndedOf(ms, u) \cup ({ms[k].first} \ u) /\ Stands(ms, x) /\ k \in DOMAIN x /\ x[k].summary = "ok"
  BY EndedMore
<1>3. QED
  BY <1>1, <1>2 DEF Finishes

\* What a frame does to a list and to the places of its tools, those of ts given
\* their results; u is not counted.
Changed(out, tools, x, t, n, u, ts) ==
  /\ IsText(n) => Spoke(out, x, n, u) /\ t = tools
  /\ log[n].kind = "start" =>
       /\ Mute(out, x, u) /\ Len(out) + 1 \in DOMAIN x /\ x[Len(out) + 1].first = n
       /\ log[n].of \in Tools /\ t = [tools EXCEPT ![log[n].of] = Len(out) + 1]
  /\ Ends(tools, n) =>
       /\ log[n].of \in ts => Finishes(out, x, tools[log[n].of], u)
       /\ log[n].of \notin ts => Mute(out, x, u)
       /\ log[n].of \in Tools /\ \A z \in Tools : z # log[n].of => t[z] = tools[z]
  /\ ~IsText(n) /\ log[n].kind # "start" /\ ~Ends(tools, n) => Mute(out, x, u) /\ t = tools

\* The lists of both projections have their texts.
LEMMA BothWorded ==
  /\ \A ms \in Seq(Cards) : Worded(ms)
  /\ \A ms \in Seq(Messages) : Worded(ms)
<1>1. ASSUME NEW ms \in Seq(Cards)
      PROVE  Worded(ms)
  <2>1. ASSUME NEW i \in 1..Len(ms)
        PROVE  ms[i].text \in Seq(Nat)
    <3>1. ms[i] \in Cards
      OBVIOUS
    <3>2. QED
      BY <3>1 DEF Cards
  <2>2. QED
    BY <2>1 DEF Worded
<1>2. ASSUME NEW ms \in Seq(Messages)
      PROVE  Worded(ms)
  <2>1. ASSUME NEW i \in 1..Len(ms)
        PROVE  ms[i].text \in Seq(Nat)
    <3>1. ms[i] \in Messages
      OBVIOUS
    <3>2. QED
      BY <3>1 DEF Messages
  <2>2. QED
    BY <2>1 DEF Worded
<1>3. QED
  BY <1>1, <1>2

\* A frame does it to the full projection, where a tool keeps its place,
LEMMA FullChanged ==
  ASSUME log \in Seq(Frames), NEW n \in 1..Len(log), NEW m \in Fulls
  PROVE  /\ Changed(m.out, m.tools, MessageStep(m, n).out, MessageStep(m, n).tools, n, Results, Tools \ Questions)
         /\ Ends(m.tools, n) => MessageStep(m, n).tools = m.tools
<1>1. PICK out, tools, x, t : /\ out = m.out /\ tools = m.tools
                              /\ x = MessageStep(m, n).out /\ t = MessageStep(m, n).tools
  OBVIOUS
<1>2. out \in Seq(Cards) /\ x \in Seq(Cards) /\ n \in Nat
  BY <1>1, MessageStepShape DEF Fulls
<1>3. FullShape(out, tools, x, t, n)
  BY <1>1, MessageStepShape
<1>4. Worded(out)
  BY <1>2, BothWorded
<1>5. \A i \in DOMAIN out : out[i] \in Cards
  BY <1>2
<1>6. IsText(n) => Spoke(out, x, n, Results) /\ t = tools
  <2>1. CASE Merges(out, n)
    <3>1. Exchanged(out, Len(out), Widened(out[Len(out)], n), x) /\ t = tools
      BY <1>3, <2>1 DEF FullShape
    <3>2. out[Len(out)] \in Cards
      BY <1>5, <3>1 DEF Exchanged
    <3>3. QED
      BY <1>2, <1>4, <3>1, <3>2, CardChanged, SpokeGrown
  <2>2. CASE Begins(out, n)
    <3>1. Appended(out, Bubble(n), x) /\ t = tools
      BY <1>3, <2>2 DEF FullShape
    <3>2. QED
      BY <1>2, <1>4, <3>1, CardKind, SpokeBegun, Zenon
  <2>3. QED
    BY <2>1, <2>2 DEF Merges, Begins
<1>7. log[n].kind = "start" =>
        /\ Mute(out, x, Results) /\ Len(out) + 1 \in DOMAIN x /\ x[Len(out) + 1].first = n
        /\ log[n].of \in Tools /\ t = [tools EXCEPT ![log[n].of] = Len(out) + 1]
  <2>1. CASE log[n].kind = "start"
    <3>1. PICK g : g = IF Asks(n) THEN Card(n) ELSE Tool(n)
      OBVIOUS
    <3>2. Appended(out, g, x) /\ log[n].of \in Tools /\ t = [tools EXCEPT ![log[n].of] = Len(out) + 1]
      BY <1>3, <2>1, <3>1 DEF FullShape
    <3>3. g.first = n /\ g.text = <<>> /\ (g.summary = "ok" => g.first \in Results)
      BY <3>1, CardKind, Zenon
    <3>4. Appended(out, g, x)
      BY <3>2
    <3>5. Mute(out, x, Results)
      BY <1>2, <1>4, <3>3, <3>4, MuteBegun
    <3>6. Len(out) + 1 \in DOMAIN x /\ x[Len(out) + 1].first = g.first
      BY <1>2, <3>4 DEF Appended
    <3>7. QED
      BY <3>2, <3>3, <3>5, <3>6
  <2>2. QED
    BY <2>1
<1>8. Ends(tools, n) =>
        /\ log[n].of \in Tools \ Questions => Finishes(out, x, tools[log[n].of], Results)
        /\ log[n].of \notin Tools \ Questions => Mute(out, x, Results)
        /\ log[n].of \in Tools /\ t = tools
  <2>1. CASE Ends(tools, n) /\ ~Asks(n)
    <3>1. PICK k : k = tools[log[n].of]
      OBVIOUS
    <3>2. Exchanged(out, k, WithResult(out[k]), x) /\ log[n].of \in Tools /\ t = tools
      BY <1>3, <2>1, <3>1 DEF FullShape
    <3>3. out[k] \in Cards
      BY <1>5, <3>2 DEF Exchanged
    <3>4. /\ WithResult(out[k]).first = out[k].first /\ WithResult(out[k]).text = out[k].text
          /\ WithResult(out[k]).summary = "ok"
      BY <1>2, <3>3, CardChanged
    <3>5. Finishes(out, x, k, Results)
      BY <1>2, <1>4, <3>2, <3>4, FinishesOne
    <3>6. QED
      BY <2>1, <3>1, <3>2, <3>5 DEF Asks
  <2>2. CASE Ends(tools, n) /\ Asks(n)
    <3>1. x = out /\ log[n].of \in Tools /\ t = tools
      BY <1>3, <2>2 DEF FullShape
    <3>2. QED
      BY <2>2, <3>1, MuteSame DEF Asks
  <2>3. QED
    BY <2>1, <2>2
<1>9. ~IsText(n) /\ log[n].kind # "start" /\ ~Ends(tools, n) => Mute(out, x, Results) /\ t = tools
  <2> SUFFICES ASSUME ~IsText(n), log[n].kind # "start", ~Ends(tools, n)
               PROVE  Mute(out, x, Results) /\ t = tools
    OBVIOUS
  <2>1. t = tools
    BY <1>3 DEF FullShape
  <2>2. CASE Alone(tools, n)
    <3>1. PICK g : g = WithResult(Tool(n))
      OBVIOUS
    <3>2. Appended(out, g, x)
      BY <1>3, <2>2, <3>1, Zenon DEF FullShape
    <3>3. Tool(n) \in Cards /\ Tool(n).first = n /\ Tool(n).text = <<>>
      BY CardKind, Zenon
    <3>4. g.first = n /\ g.text = <<>>
      BY <1>2, <3>1, <3>3, CardChanged, Zenon
    <3>5. n \in Results
      BY <2>2 DEF Alone, Results
    <3>6. Mute(out, x, Results)
      BY <1>2, <1>4, <3>2, <3>4, <3>5, MuteBegun
    <3>7. QED
      BY <2>1, <3>6
  <2>3. CASE ~Alone(tools, n) /\ Appended(out, Card(n), x)
    <3>1. Card(n).text = <<>> /\ Card(n).summary # "ok"
      BY CardKind, Zenon
    <3>2. Mute(out, x, Results)
      BY <1>2, <1>4, <2>3, <3>1, MuteBegun
    <3>3. QED
      BY <2>1, <3>2
  <2>4. CASE ~Alone(tools, n) /\ x = out
    BY <2>1, <2>4, MuteSame
  <2>5. QED
    BY <1>3, <2>2, <2>3, <2>4, Zenon DEF FullShape
<1>10. Changed(out, tools, x, t, n, Results, Tools \ Questions)
  BY <1>6, <1>7, <1>8, <1>9 DEF Changed
<1>11. QED
  BY <1>1, <1>8, <1>10

\* ... and to the slim one, where a tool with a result has none.
LEMMA SlimChanged ==
  ASSUME log \in Seq(Frames), NEW n \in 1..Len(log), NEW p \in Nat, p < n, NEW c \in Chats(p)
  PROVE  /\ Changed(c.out, c.tools, ChatStep(c, n).out, ChatStep(c, n).tools, n, Asked, Tools)
         /\ Ends(c.tools, n) => ChatStep(c, n).tools[log[n].of] = 0
<1>1. PICK out, tools, x, t : /\ out = c.out /\ tools = c.tools
                              /\ x = ChatStep(c, n).out /\ t = ChatStep(c, n).tools
  OBVIOUS
<1>2. out \in Seq(Messages) /\ x \in Seq(Messages) /\ tools \in [Tools -> Nat] /\ n \in Nat
  <2>1. out \in Seq(Upto(p)) /\ tools \in [Tools -> Nat] /\ n \in Nat
    BY <1>1 DEF Chats
  <2>2. ChatStep(c, n) \in Chats(n)
    BY ChatStepKind
  <2>3. x \in Seq(Upto(n))
    BY <1>1, <2>2 DEF Chats
  <2>4. QED
    BY <2>1, <2>3, UptoMessages
<1>3. ChatShape(out, tools, x, t, n)
  BY <1>1, ChatStepShape
<1>4. Worded(out)
  BY <1>2, BothWorded
<1>5. \A i \in DOMAIN out : out[i] \in Messages
  BY <1>2
<1>6. IsText(n) => Spoke(out, x, n, Asked) /\ t = tools
  <2>1. CASE Merges(out, n)
    <3>1. Exchanged(out, Len(out), Grown(out[Len(out)], n), x) /\ t = tools
      BY <1>3, <2>1 DEF ChatShape
    <3>2. out[Len(out)] \in Messages
      BY <1>5, <3>1 DEF Exchanged
    <3>3. PICK l : l = out[Len(out)]
      OBVIOUS
    <3>4. Grown(l, n).text = Append(l.text, n) /\ Grown(l, n).first = l.first /\ Grown(l, n).summary = l.summary
      BY <3>2, <3>3 DEF Grown, Messages
    <3>5. QED
      BY <1>2, <1>4, <3>1, <3>3, <3>4, SpokeGrown
  <2>2. CASE Begins(out, n)
    <3>1. Appended(out, Bubble(n), x) /\ t = tools
      BY <1>3, <2>2 DEF ChatShape
    <3>2. QED
      BY <1>2, <1>4, <3>1, CardKind, SpokeBegun, Zenon
  <2>3. QED
    BY <2>1, <2>2 DEF Merges, Begins
<1>7. log[n].kind = "start" =>
        /\ Mute(out, x, Asked) /\ Len(out) + 1 \in DOMAIN x /\ x[Len(out) + 1].first = n
        /\ log[n].of \in Tools /\ t = [tools EXCEPT ![log[n].of] = Len(out) + 1]
  <2>1. CASE log[n].kind = "start"
    <3>1. Appended(out, Tool(n), x) /\ log[n].of \in Tools /\ t = [tools EXCEPT ![log[n].of] = Len(out) + 1]
      BY <1>3, <2>1 DEF ChatShape
    <3>2. PICK g : g = Tool(n)
      OBVIOUS
    <3>3. g.first = n /\ g.text = <<>> /\ (g.summary = "ok" => g.first \in Asked)
      BY <3>2, CardKind, Zenon
    <3>4. Appended(out, g, x)
      BY <3>1, <3>2
    <3>5. Mute(out, x, Asked)
      BY <1>2, <1>4, <3>3, <3>4, MuteBegun
    <3>6. Len(out) + 1 \in DOMAIN x /\ x[Len(out) + 1].first = g.first
      BY <1>2, <3>4 DEF Appended
    <3>7. QED
      BY <3>1, <3>3, <3>5, <3>6
  <2>2. QED
    BY <2>1
<1>8. Ends(tools, n) =>
        /\ Finishes(out, x, tools[log[n].of], Asked) /\ log[n].of \in Tools /\ t[log[n].of] = 0
        /\ \A z \in Tools : z # log[n].of => t[z] = tools[z]
  <2>1. CASE Ends(tools, n)
    <3>1. PICK k : k = tools[log[n].of]
      OBVIOUS
    <3>2. Exchanged(out, k, Ended(out[k], n, "ok"), x) /\ log[n].of \in Tools /\ t = [tools EXCEPT ![log[n].of] = 0]
      BY <1>3, <2>1, <3>1 DEF ChatShape
    <3>3. out[k] \in Messages
      BY <1>5, <3>2 DEF Exchanged
    <3>4. PICK l : l = out[k]
      OBVIOUS
    <3>5. Ended(l, n, "ok").first = l.first /\ Ended(l, n, "ok").text = l.text /\ Ended(l, n, "ok").summary = "ok"
      BY <3>3, <3>4 DEF Ended, Messages
    <3>6. Finishes(out, x, k, Asked)
      BY <1>2, <1>4, <3>2, <3>4, <3>5, FinishesOne
    <3>7. t[log[n].of] = 0 /\ \A z \in Tools : z # log[n].of => t[z] = tools[z]
      BY <1>2, <3>2
    <3>8. QED
      BY <3>1, <3>2, <3>6, <3>7
  <2>2. QED
    BY <2>1
<1>9. ~IsText(n) /\ log[n].kind # "start" /\ ~Ends(tools, n) => Mute(out, x, Asked) /\ t = tools
  BY <1>3, MuteSame DEF ChatShape
<1>10. Changed(out, tools, x, t, n, Asked, Tools)
  BY <1>6, <1>7, <1>8, <1>9 DEF Changed
<1>11. QED
  BY <1>1, <1>8, <1>10

----------------------------------------------------------------------------
(* The two projections of a snapshot agree *)

\* A tool that waits in the slim list does in the full one, with the same
\* frame, unless it is a question; one that waits in the full list alone has its
\* result.
Calls(z) == {n \in 1..Len(log) : log[n].kind = "start" /\ log[n].of = z}
Paired(out, tools, o, s, z) ==
  /\ s[z] > 0 => o[s[z]].first \in Calls(z)
  /\ s[z] > 0 /\ z \notin Questions => tools[z] > 0 /\ out[tools[z]].first = o[s[z]].first
  /\ s[z] = 0 /\ tools[z] > 0 /\ z \notin Questions => out[tools[z]].summary = "ok"
ShowSame(out, tools, o, s) ==
  /\ TextsOf(out) = TextsOf(o) /\ EndedOf(out, Results) = EndedOf(o, Asked)
  /\ \A z \in Tools : Paired(out, tools, o, s, z)

\* A place that is not 0 is one of the list's.
PlacesIn(out, tools) == \A z \in Tools : tools[z] \in Nat /\ (tools[z] > 0 => tools[z] \in DOMAIN out)

\* A tool that stays in its places stays paired,
LEMMA PairedKept ==
  ASSUME NEW out, NEW tools, NEW o, NEW s, PlacesIn(out, tools), PlacesIn(o, s), NEW x, NEW y, NEW t, NEW w,
         NEW z \in Tools, Paired(out, tools, o, s, z), Stands(out, x), Stands(o, y), t[z] = tools[z], w[z] = s[z]
  PROVE  Paired(x, t, y, w, z)
<1>1. /\ tools[z] > 0 => /\ tools[z] \in DOMAIN out /\ x[tools[z]].first = out[tools[z]].first
                         /\ out[tools[z]].summary = "ok" => x[tools[z]].summary = "ok"
      /\ s[z] > 0 => y[s[z]].first = o[s[z]].first
  BY DEF PlacesIn, Stands
<1>2. QED
  BY <1>1 DEF Paired

\* ... through the same change of both lists.
LEMMA SameChange ==
  ASSUME NEW n \in 1..Len(log), NEW out, NEW tools, NEW o, NEW s, PlacesIn(out, tools), PlacesIn(o, s),
         NEW x, NEW y, NEW t, NEW w,
         Changed(out, tools, x, t, n, Results, Tools \ Questions), Changed(o, s, y, w, n, Asked, Tools),
         Ends(tools, n) => t = tools, Ends(s, n) => w[log[n].of] = 0, ShowSame(out, tools, o, s),
         tools \in [Tools -> Nat], s \in [Tools -> Nat], Len(out) \in Nat, Len(o) \in Nat
  PROVE  ShowSame(x, t, y, w)
<1>1. /\ TextsOf(out) = TextsOf(o) /\ EndedOf(out, Results) = EndedOf(o, Asked)
      /\ \A z \in Tools : Paired(out, tools, o, s, z)
  BY DEF ShowSame
<1>2. ASSUME Stands(out, x), Stands(o, y), NEW z \in Tools, t[z] = tools[z], w[z] = s[z]
      PROVE  Paired(x, t, y, w, z)
  BY <1>1, <1>2, PairedKept
<1>3. CASE IsText(n)
  <2>1. Spoke(out, x, n, Results) /\ t = tools /\ Spoke(o, y, n, Asked) /\ w = s
    BY <1>3 DEF Changed
  <2>2. TextsOf(x) = TextsOf(y) /\ EndedOf(x, Results) = EndedOf(y, Asked) /\ Stands(out, x) /\ Stands(o, y)
    BY <1>1, <2>1 DEF Spoke
  <2>3. QED
    BY <1>2, <2>1, <2>2 DEF ShowSame
<1>4. CASE log[n].kind = "start"
  <2>1. /\ Mute(out, x, Results) /\ x[Len(out) + 1].first = n /\ t = [tools EXCEPT ![log[n].of] = Len(out) + 1]
        /\ Mute(o, y, Asked) /\ y[Len(o) + 1].first = n /\ w = [s EXCEPT ![log[n].of] = Len(o) + 1]
        /\ log[n].of \in Tools
    BY <1>4 DEF Changed
  <2>2. TextsOf(x) = TextsOf(y) /\ EndedOf(x, Results) = EndedOf(y, Asked) /\ Stands(out, x) /\ Stands(o, y)
    BY <1>1, <2>1 DEF Mute
  <2>3. ASSUME NEW z \in Tools
        PROVE  Paired(x, t, y, w, z)
    <3>1. CASE z = log[n].of
      <4>1. t[z] = Len(out) + 1 /\ w[z] = Len(o) + 1
        BY <2>1, <3>1
      <4>2. t[z] > 0 /\ w[z] > 0
        BY <4>1
      <4>3. n \in Calls(z)
        BY <1>4, <3>1 DEF Calls
      <4>4. QED
        BY <2>1, <4>1, <4>2, <4>3 DEF Paired
    <3>2. CASE z # log[n].of
      <4>1. t[z] = tools[z] /\ w[z] = s[z]
        BY <2>1, <3>2
      <4>2. QED
        BY <1>2, <2>2, <4>1
    <3>3. QED
      BY <3>1, <3>2
  <2>4. QED
    BY <2>2, <2>3 DEF ShowSame
<1>5. CASE log[n].kind = "result" /\ log[n].of \in Tools
  <2> DEFINE r == log[n].of
  <2>1. ~IsText(n) /\ log[n].kind # "start" /\ (Ends(tools, n) <=> tools[r] > 0) /\ (Ends(s, n) <=> s[r] > 0)
    BY <1>5 DEF IsText, Ends
  <2>2. Paired(out, tools, o, s, r) /\ tools[r] \in Nat /\ s[r] \in Nat /\ r \in Tools
    BY <1>1, <1>5
  <2>3. ~(tools[r] > 0) \/ r \in Questions => Mute(out, x, Results) /\ t = tools
    BY <2>1 DEF Changed
  <2>4. tools[r] > 0 /\ r \notin Questions => Finishes(out, x, tools[r], Results) /\ t = tools
    BY <2>1, <2>2 DEF Changed
  <2>5. ~(s[r] > 0) => Mute(o, y, Asked) /\ w = s
    BY <2>1 DEF Changed
  <2>6. s[r] > 0 => Finishes(o, y, s[r], Asked) /\ w[r] = 0 /\ \A z \in Tools : z # r => w[z] = s[z]
    BY <2>1, <2>2 DEF Changed
  <2>7. s[r] > 0 => /\ o[s[r]].first \notin Results /\ (o[s[r]].first \in Asked <=> r \in Questions)
    BY <2>2 DEF Paired, Calls, Results, Asked
  <2>8. t = tools /\ Stands(out, x) /\ Stands(o, y) /\ TextsOf(x) = TextsOf(y)
    BY <1>1, <2>3, <2>4, <2>5, <2>6 DEF Mute, Finishes
  <2> HIDE DEF r
  <2>9. \A z \in Tools : w[z] = s[z] => Paired(x, t, y, w, z)
    BY <1>2, <2>8
  <2>10. \A z \in Tools : z # r => w[z] = s[z]
    BY <2>5, <2>6
  <2>11. CASE s[r] > 0
    <3>1. EndedOf(y, Asked) = EndedOf(o, Asked) \cup ({o[s[r]].first} \ Asked) /\ w[r] = 0
      BY <2>6, <2>11 DEF Finishes
    <3>2. EndedOf(x, Results) = EndedOf(y, Asked) /\ Paired(x, t, y, w, r)
      <4>1. CASE r \in Questions
        <5>1. EndedOf(x, Results) = EndedOf(out, Results)
          BY <2>3, <4>1 DEF Mute
        <5>2. EndedOf(y, Asked) = EndedOf(o, Asked)
          BY <2>7, <2>11, <3>1, <4>1
        <5>3. QED
          BY <1>1, <3>1, <4>1, <5>1, <5>2 DEF Paired
      <4>2. CASE r \notin Questions
        <5>1. tools[r] > 0 /\ out[tools[r]].first = o[s[r]].first
          BY <2>2, <2>11, <4>2 DEF Paired
        <5>2. EndedOf(x, Results) = EndedOf(out, Results) \cup ({o[s[r]].first} \ Results) /\ x[tools[r]].summary = "ok"
          BY <2>4, <4>2, <5>1 DEF Finishes
        <5>3. EndedOf(x, Results) = EndedOf(y, Asked)
          BY <1>1, <2>7, <2>11, <3>1, <4>2, <5>2
        <5>4. Paired(x, t, y, w, r)
          BY <2>8, <3>1, <5>2 DEF Paired
        <5>5. QED
          BY <5>3, <5>4
      <4>3. QED
        BY <4>1, <4>2
    <3>3. \A z \in Tools : Paired(x, t, y, w, z)
      BY <2>9, <2>10, <3>2
    <3>4. QED
      BY <2>8, <3>2, <3>3 DEF ShowSame
  <2>12. CASE ~(s[r] > 0)
    <3>1. w = s /\ EndedOf(y, Asked) = EndedOf(o, Asked)
      BY <2>5, <2>12 DEF Mute
    <3>2. EndedOf(x, Results) = EndedOf(out, Results)
      <4>1. CASE tools[r] > 0 /\ r \notin Questions
        <5>1. s[r] = 0
          BY <2>2, <2>12
        <5>2. out[tools[r]].summary = "ok" /\ tools[r] \in DOMAIN out
          BY <2>2, <4>1, <5>1 DEF Paired, PlacesIn
        <5>3. {out[tools[r]].first} \ Results \subseteq EndedOf(out, Results)
          BY <5>2 DEF EndedOf
        <5>4. EndedOf(x, Results) = EndedOf(out, Results) \cup ({out[tools[r]].first} \ Results)
          BY <2>4, <4>1 DEF Finishes
        <5>5. QED
          BY <5>3, <5>4
      <4>2. CASE ~(tools[r] > 0) \/ r \in Questions
        BY <2>3, <4>2 DEF Mute
      <4>3. QED
        BY <4>1, <4>2
    <3>3. \A z \in Tools : Paired(x, t, y, w, z)
      BY <2>9, <3>1
    <3>4. QED
      BY <1>1, <2>8, <3>1, <3>2, <3>3 DEF ShowSame
  <2>13. QED
    BY <2>11, <2>12
<1>6. CASE ~IsText(n) /\ log[n].kind # "start" /\ ~(log[n].kind = "result" /\ log[n].of \in Tools)
  <2>1. ~Ends(tools, n) /\ ~Ends(s, n)
    BY <1>6 DEF Ends, Changed
  <2>2. Mute(out, x, Results) /\ t = tools /\ Mute(o, y, Asked) /\ w = s
    BY <1>6, <2>1 DEF Changed
  <2>3. TextsOf(x) = TextsOf(y) /\ EndedOf(x, Results) = EndedOf(y, Asked) /\ Stands(out, x) /\ Stands(o, y)
    BY <1>1, <2>2 DEF Mute
  <2>4. QED
    BY <1>2, <2>2, <2>3 DEF ShowSame
<1>7. QED
  BY <1>3, <1>4, <1>5, <1>6

\* The full list after each frame follows from the one before.
LEMMA MessagesFollow ==
  ASSUME log \in Seq(Frames), NEW ns, Numbers(ns)
  PROVE  /\ MessagesOf(ns)[0] = NoChat
         /\ \A k \in 1..Len(ns) : MessagesOf(ns)[k] = MessageStep(MessagesOf(ns)[k - 1], ns[k])
         /\ \A k \in 0..Len(ns) : MessagesOf(ns)[k] \in Fulls
<1> DEFINE n == Len(ns)
           T == [k \in 0..n |-> Fulls]
           F == [p \in (1..n) \X Fulls |-> MessageStep(p[2], ns[p[1]])]
<1>1. n \in Nat /\ \A k \in 1..n : k - 1 \in 0..n /\ k \in 0..n /\ k # 0 /\ ns[k] \in 1..Len(log)
  BY EndsKind
<1>2. 0 \in 0..n /\ n \in 0..n
  BY <1>1
<1>3. NoChat \in T[0]
  <2>1. NoChat \in Fulls
    BY DEF NoChat, Fulls
  <2>2. QED
    BY <1>2, <2>1
<1>4. ASSUME NEW k \in 1..n, NEW a \in Fulls
      PROVE  F[<<k, a>>] = MessageStep(a, ns[k]) /\ F[<<k, a>>] \in Fulls
  <2>1. F[<<k, a>>] = MessageStep(a, ns[k])
    OBVIOUS
  <2>2. ns[k] \in 1..Len(log)
    BY <1>1
  <2> HIDE DEF F
  <2>3. MessageStep(a, ns[k]) \in Fulls
    BY <2>2, MessageStepShape
  <2>4. QED
    BY <2>1, <2>3
<1>5. (\A k \in 1..n : T[k] = Fulls /\ T[k - 1] = Fulls) /\ \A k \in 0..n : T[k] = Fulls
  BY <1>1
<1> HIDE DEF T, F
<1>6. PICK f : Follows(f, NoChat, F, n) /\ \A k \in 0..n : f[k] \in T[k]
  <2>1. \A k \in 1..n : \A a \in T[k - 1] : F[<<k, a>>] \in T[k]
    BY <1>4, <1>5, Zenon
  <2> HIDE DEF n
  <2>2. QED
    BY <1>1, <1>3, <2>1, FollowsThrough
<1>7. f = [k \in 0..n |-> IF k = 0 THEN NoChat ELSE MessageStep(f[k - 1], ns[k])]
  <2>1. f = [k \in 0..n |-> IF k = 0 THEN NoChat ELSE F[<<k, f[k - 1]>>]]
    BY <1>6 DEF Follows
  <2>2. \A k \in 1..n : F[<<k, f[k - 1]>>] = MessageStep(f[k - 1], ns[k])
    BY <1>1, <1>4, <1>5, <1>6
  <2>3. \A k \in 0..n : k # 0 => k \in 1..n
    BY <1>1
  <2>4. \A k \in 0..n : (IF k = 0 THEN NoChat ELSE F[<<k, f[k - 1]>>])
                      = (IF k = 0 THEN NoChat ELSE MessageStep(f[k - 1], ns[k]))
    BY <2>2, <2>3
  <2>5. QED
    BY <2>1, <2>4
<1> DEFINE G(g) == g = [k \in 0..n |-> IF k = 0 THEN NoChat ELSE MessageStep(g[k - 1], ns[k])]
<1>8. G(MessagesOf(ns))
  <2>1. \E g : G(g)
    BY <1>7
  <2>2. MessagesOf(ns) = CHOOSE g : G(g)
    BY DEF MessagesOf
  <2> HIDE DEF G
  <2>3. QED
    BY <2>1, <2>2
<1> DEFINE c == MessagesOf(ns)
<1>9. c[0] = NoChat /\ \A k \in 1..n : c[k] = MessageStep(c[k - 1], ns[k])
  BY <1>1, <1>8
<1> HIDE DEF c, G
<1>10. \A k \in 1..n : c[k - 1] \in T[k - 1] => c[k] \in T[k]
  <2>1. ASSUME NEW k \in 1..n, c[k - 1] \in T[k - 1]
        PROVE  c[k] \in T[k]
    <3>1. T[k] = Fulls /\ T[k - 1] = Fulls
      BY <1>5
    <3>2. F[<<k, c[k - 1]>>] = MessageStep(c[k - 1], ns[k]) /\ F[<<k, c[k - 1]>>] \in Fulls
      BY <1>4, <2>1, <3>1
    <3>3. QED
      BY <1>9, <3>1, <3>2
  <2>2. QED
    BY <2>1
<1>11. \A k \in 0..n : c[k] \in T[k]
  <2>1. c[0] \in T[0]
    BY <1>3, <1>9
  <2> HIDE DEF n
  <2>2. QED
    BY <1>1, <1>10, <2>1, GoesThrough
<1>12. \A k \in 0..n : c[k] \in Fulls
  BY <1>5, <1>11
<1>13. QED
  BY <1>9, <1>12 DEF c

\* Whatever the frames, both projections of them show the same.
LEMMA ProjectionsSame ==
  ASSUME log \in Seq(Frames), NEW ns, Numbers(ns)
  PROVE  /\ TextsOf(aggregateMessages(ns)) = TextsOf(aggregateChat(ns))
         /\ EndedOf(aggregateMessages(ns), Results) = EndedOf(aggregateChat(ns), Asked)
<1> DEFINE n == Len(ns)
<1>1. PICK m, c : m = MessagesOf(ns) /\ c = ChatOf(ns)
  OBVIOUS
<1>2. /\ m[0] = NoChat /\ \A k \in 1..n : m[k] = MessageStep(m[k - 1], ns[k])
      /\ \A k \in 0..n : m[k] \in Fulls
  BY <1>1, MessagesFollow
<1>3. /\ c[0] = NoChat /\ \A k \in 1..n : c[k] = ChatStep(c[k - 1], ns[k])
      /\ \A k \in 0..n : c[k] \in Chats(EndsAt(ns, k))
  BY <1>1, ChatOfFollows DEF ChatsTold
<1>4. /\ n \in Nat /\ \A k \in 0..n : EndsAt(ns, k) \in Nat
      /\ \A k \in 1..n : /\ ns[k] \in 1..Len(log) /\ EndsAt(ns, k - 1) < ns[k]
                         /\ k \in 0..n /\ k - 1 \in 0..n
  BY EndsKind
<1> DEFINE P == {k \in 0..n : ShowSame(m[k].out, m[k].tools, c[k].out, c[k].tools)}
<1>5. 0 \in P
  <2>1. ShowSame(NoChat.out, NoChat.tools, NoChat.out, NoChat.tools)
    BY DEF NoChat, ShowSame, Paired, EndedOf
  <2>2. QED
    BY <1>2, <1>3, <1>4, <2>1
<1> HIDE DEF n
<1>6. ASSUME NEW k \in 1..n, k - 1 \in P
      PROVE  k \in P
  <2>1. PICK a, b, i, p : a = m[k - 1] /\ b = c[k - 1] /\ i = ns[k] /\ p = EndsAt(ns, k - 1)
    OBVIOUS
  <2>2. a \in Fulls /\ b \in Chats(p) /\ p \in Nat /\ i \in 1..Len(log) /\ p < i
    BY <1>2, <1>3, <1>4, <2>1
  <2>3. ShowSame(a.out, a.tools, b.out, b.tools)
    BY <1>6, <2>1
  <2>4. m[k] = MessageStep(a, i) /\ c[k] = ChatStep(b, i)
    BY <1>2, <1>3, <2>1
  <2>5. PICK out, tools, o, s : out = a.out /\ tools = a.tools /\ o = b.out /\ s = b.tools
    OBVIOUS
  <2>6. PICK x, t, y, w : /\ x = MessageStep(a, i).out /\ t = MessageStep(a, i).tools
                          /\ y = ChatStep(b, i).out /\ w = ChatStep(b, i).tools
    OBVIOUS
  <2>7. Changed(out, tools, x, t, i, Results, Tools \ Questions) /\ (Ends(tools, i) => t = tools)
    BY <2>2, <2>5, <2>6, FullChanged
  <2>8. Changed(o, s, y, w, i, Asked, Tools) /\ (Ends(s, i) => w[log[i].of] = 0)
    BY <2>2, <2>5, <2>6, SlimChanged
  <2>9. tools \in [Tools -> Nat] /\ Len(out) \in Nat /\ PlacesIn(out, tools)
    <3>1. out \in Seq(Cards) /\ tools \in [Tools -> Nat] /\ \A z \in Tools : tools[z] <= Len(out)
      BY <2>2, <2>5 DEF Fulls
    <3>2. Len(out) \in Nat /\ DOMAIN out = 1..Len(out)
      BY <3>1
    <3>3. QED
      BY <3>1, <3>2 DEF PlacesIn
  <2>10. s \in [Tools -> Nat] /\ Len(o) \in Nat /\ PlacesIn(o, s)
    <3>1. o \in Seq(Upto(p)) /\ s \in [Tools -> Nat] /\ \A z \in Tools : s[z] <= Len(o)
      BY <2>2, <2>5 DEF Chats
    <3>2. Len(o) \in Nat /\ DOMAIN o = 1..Len(o)
      BY <3>1
    <3>3. QED
      BY <3>1, <3>2 DEF PlacesIn
  <2>11. ShowSame(out, tools, o, s)
    BY <2>3, <2>5
  <2>12. ShowSame(x, t, y, w)
    BY <2>2, <2>7, <2>8, <2>9, <2>10, <2>11, SameChange
  <2>13. QED
    BY <1>4, <2>4, <2>6, <2>12
<1> HIDE DEF P
<1>7. \A k \in 0..n : k \in P
  BY <1>4, <1>5, <1>6, UpTo
<1>8. ShowSame(m[n].out, m[n].tools, c[n].out, c[n].tools)
  BY <1>4, <1>7 DEF P
<1>9. aggregateMessages(ns) = m[n].out /\ aggregateChat(ns) = c[n].out
  BY <1>1 DEF aggregateMessages, aggregateChat, n
<1>10. QED
  BY <1>8, <1>9 DEF ShowSame

\* ... of a snapshot too.
LEMMA InvProjections == ChatInv => ProjectionsAgree
<1> SUFFICES ASSUME ChatInv PROVE ProjectionsAgree
  OBVIOUS
<1>1. log \in Seq(Frames) /\ 0 \in 0..Len(log)
  BY DEF ChatInv, TypeInv
<1>2. Numbers(Snapshot)
  BY <1>1, NewerKind DEF Snapshot
<1>3. PICK full, slim : full = aggregateMessages(Snapshot) /\ slim = aggregateChat(Snapshot)
  OBVIOUS
<1>4. TextsOf(full) = TextsOf(slim) /\ EndedOf(full, Results) = EndedOf(slim, Asked)
  BY <1>1, <1>2, <1>3, ProjectionsSame
<1>5. QED
  BY <1>3, <1>4 DEF ProjectionsAgree, EndedOf

----------------------------------------------------------------------------
(* The theorems *)

\* The invariant holds at the start,
LEMMA ChatInit == Init => ChatInv
<1> SUFFICES ASSUME Init PROVE ChatInv
  OBVIOUS
<1>1. /\ log = <<>> /\ pc = "idle" /\ last = 0 /\ since = 0 /\ snap = <<>> /\ hist = <<>> /\ agg = NoAgg
      /\ registered = FALSE /\ queue = <<>> /\ closed = FALSE /\ view = <<>> /\ rendered = {}
      /\ gone = {} /\ overrun = {} /\ between = {} /\ unwritten = {}
  BY DEF Init
<1>2. Len(log) = 0 /\ log \in Seq(Frames) /\ Len(queue) = 0
  BY <1>1
<1>3. TypeInv
  <2>1. Numbers(snap) /\ Numbers(queue)
    BY <1>1 DEF Numbers
  <2>2. agg \in Aggs(0)
    BY <1>1, NoAggKind
  <2>3. view \in Seq(Upto(0)) /\ hist \in Seq(Upto(0)) /\ Safe = {}
    BY <1>1 DEF Safe
  <2>4. /\ Len(log) <= MaxFrames /\ Len(queue) <= ChanCap
        /\ last \in 0..Len(log) /\ since \in 0..Len(log) /\ Safe \subseteq 1..Len(log)
    BY <1>1, <1>2, <2>3, Sizes
  <2>5. view \in Seq(Upto(Len(log))) /\ hist \in Seq(Upto(Len(log))) /\ agg \in Aggs(Len(log))
    BY <1>2, <2>2, <2>3
  <2>6. QED
    BY <1>1, <1>2, <2>1, <2>4, <2>5 DEF TypeInv
<1>4. HistoryInv /\ LiveInv
  BY <1>1 DEF HistoryInv, LiveInv
<1>5. MissInv
  BY <1>2 DEF MissInv
<1>6. CompleteInv
  BY <1>1, <1>2 DEF CompleteInv, TextOf
<1>7. QED
  BY <1>3, <1>4, <1>5, <1>6 DEF ChatInv

\* ... is kept by every step,
LEMMA ChatStepInv == ChatInv /\ [Next]_vars => ChatInv'
BY PublishStep, PollStep, PollEndsStep, ConnectStep, WriteHistoryStep, SubscribeStep, WriteLiveStep,
   SeesClosedStep, CutStep, StutterStep DEF Next

\* ... and so holds always.
LEMMA ChatAlways == Spec => []ChatInv
BY ChatInit, ChatStepInv, PTL DEF Spec

\* The stream follows the chat, always.
LEMMA FollowAlways == Spec => [](ChatInv /\ FollowInv)
BY ChatInit, ChatStepInv, FollowInit, FollowNext, PTL DEF Spec

\* What the stream has written goes on with what it wrote before, always.
LEMMA SentAlways == Spec => [](ChatInv /\ SentInv)
BY ChatInit, ChatStepInv, SentInit, SentNext, PTL DEF Spec

\* A client's request, its stream and its history stay within the shapes of
\* messages.go and chat_stream.go, and no client without a request has a
\* subscription.
THEOREM TypeCorrect == Spec => []TypeOK
BY ChatAlways, InvType, PTL

\* However the frames of two texts, the tools and the stops fall into the
\* snapshot, the warm-up and the subscription, a message that a stream writes has
\* its texts once and in order, and of two that it writes the later goes on with
\* the earlier or has no text of it.
THEOREM EachTextOnce == Spec => []OnceEach
BY SentAlways, InvOnceEach, PTL

\* A client that resumes after the last number it was given, by polls and
\* streams in any order, has missed only what the ring, a replay, a poll's
\* window or a cut stream has lost.
THEOREM NothingElseMissed == Spec => []MissedOnlyThere
BY ChatAlways, InvMissed, PTL

\* A stream that has read all there is shows every text after its resume point,
\* but for what was lost and what a snapshot with a stop takes away.
THEOREM StreamShowsAll == Spec => []StreamComplete
BY ChatAlways, InvComplete, PTL

\* The three programs that make messages of frames follow the same rules,
\* whatever the frames, the ring and the channel: the two projections of a
\* snapshot show the same texts and results, and a stream that was warmed up
\* with one and lost nothing is what aggregateChat makes of the whole log.
THEOREM OneSetOfRules == Spec => []SameRules
<1>1. ChatInv /\ FollowInv => SameRules
  BY InvFollows, InvProjections DEF SameRules
<1>2. QED
  BY <1>1, FollowAlways, PTL
=============================================================================
