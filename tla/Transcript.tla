----------------------------- MODULE Transcript -----------------------------
(***************************************************************************)
(* The tail of one transcript file (internal/cctranscript/watcher.go): the  *)
(* passes of Watcher.run over a file that claude appends to, and the frames *)
(* emit makes of its lines.                                                 *)
(*                                                                         *)
(* The file is its bytes: <<k, i>> is byte i of line k, and Newline ends a  *)
(* line.  A line parses only when it is whole.  claude appends a line with  *)
(* its newline at once, or in parts.                                        *)
(***************************************************************************)
EXTENDS Naturals, Sequences, SequencesExt

CONSTANTS Kinds,     \* the line types that are written, of those FramesOf knows
          MaxLines,  \* bound on the lines
          LineLen,   \* the bytes of a line
          LongLines, \* the lines beyond the scanner's maxLine
          Parts      \* lines may be written in parts

ASSUME TranscriptAssumption ==
  /\ MaxLines \in Nat /\ LineLen \in Nat \ {0}
  /\ LongLines \subseteq Nat /\ Parts \in BOOLEAN
  /\ Kinds \subseteq {"init", "assistant", "user", "result", "other"}

VARIABLES
  exists,    \* the file is there
  file,      \* its bytes
  kind,      \* the types of the lines begun
  pc,        \* the watcher: wait, stat, scan, done
  off,       \* Watcher.off
  at,        \* where the pass's next line starts: off + read
  cancelled, \* its context
  out,       \* history: the frames published, until a line was torn
  ever,      \* history: the lines that were published
  torn       \* history: the lines a pass saw without their newline

writerVars == <<exists, file, kind>>
vars == <<writerVars, pc, off, at, cancelled, out, ever, torn>>

Newline == <<0, 0>>
Line(k) == [i \in 1..LineLen |-> <<k, i>>]
Size == Len(file)

Init ==
  /\ exists = FALSE /\ file = <<>> /\ kind = <<>>
  /\ pc = "wait" /\ off = 0 /\ at = 0 /\ cancelled = FALSE
  /\ out = <<>> /\ ever = {} /\ torn = {}

----------------------------------------------------------------------------
(* claude *)

Creates ==
  /\ ~exists
  /\ exists' = TRUE
  /\ UNCHANGED <<file, kind, pc, off, at, cancelled, out, ever, torn>>

LineOpen == file # <<>> /\ Last(file) # Newline

\* Begins a line, whole or with its first byte.
Begins(t) ==
  /\ exists /\ ~LineOpen /\ Len(kind) < MaxLines
  /\ kind' = Append(kind, t)
  /\ \/ file' = file \o Line(Len(kind')) \o <<Newline>>
     \/ Parts /\ file' = Append(file, <<Len(kind'), 1>>)
  /\ UNCHANGED <<exists, pc, off, at, cancelled, out, ever, torn>>

\* The next byte of the line it is at, or the rest.
Goes ==
  /\ LineOpen
  /\ LET i == Last(file)[2]
         rest == [j \in 1..(LineLen - i) |-> <<Len(kind), i + j>>] \o <<Newline>>
     IN  file' = Append(file, Head(rest)) \/ file' = file \o rest
  /\ UNCHANGED <<exists, kind, pc, off, at, cancelled, out, ever, torn>>

----------------------------------------------------------------------------
(* Translation *)

\* The frames of a line, with one content block of each type.
FramesOf(t) ==
  CASE t = "init"      -> <<"meta">>
    [] t = "assistant" -> <<"thinking", "text.delta", "todo.update", "tool.use.start", "usage">>
    [] t = "user"      -> <<"tool.use.result", "text.delta">>
    [] t = "result"    -> <<"usage", "stop">>
    [] t = "other"     -> <<>>

Frames(k) == [i \in DOMAIN FramesOf(kind[k]) |-> <<k, FramesOf(kind[k])[i]>>]

\* emit: nothing comes of a part of a line.
emit(line) ==
  LET whole == {k \in DOMAIN kind : line = Line(k)}
  IN  /\ ever' = ever \cup whole
      /\ out' = IF whole = {} \/ torn # {} THEN out ELSE out \o Frames(CHOOSE k \in whole : TRUE)

----------------------------------------------------------------------------
(* The watcher *)

Cancel ==
  /\ ~cancelled
  /\ cancelled' = TRUE
  /\ UNCHANGED <<writerVars, pc, off, at, out, ever, torn>>

\* Mutant: only a watcher that sleeps looks at its context.
QuitsAsleep ==
  /\ cancelled /\ pc \in {"wait", "stat"} /\ (pc = "stat" => off = Size)
  /\ pc' = "done"
  /\ UNCHANGED <<writerVars, off, at, cancelled, out, ever, torn>>

Quits ==
  /\ cancelled /\ pc \in {"wait", "stat"}
  /\ pc' = "done"
  /\ UNCHANGED <<writerVars, off, at, cancelled, out, ever, torn>>

Finds ==
  /\ pc = "wait" /\ exists
  /\ pc' = "stat"
  /\ UNCHANGED <<writerVars, off, at, cancelled, out, ever, torn>>

\* A pass begins when the size is not the offset; an offset beyond it is reset.
Stats ==
  /\ pc = "stat" /\ ~cancelled
  /\ off' = IF Size < off THEN 0 ELSE off
  /\ Size # off'
  /\ pc' = "scan" /\ at' = off'
  /\ UNCHANGED <<writerVars, cancelled, out, ever, torn>>

Rest == SubSeq(file, at + 1, Size)
Complete == \E i \in DOMAIN Rest : Rest[i] = Newline
FirstLine == IF Complete THEN SubSeq(Rest, 1, SelectInSeq(Rest, LAMBDA b : b = Newline) - 1) ELSE Rest
TooLong == \E k \in LongLines : FirstLine = Line(k)

\* Mutant: the newline is not counted.
AfterUncounted == at + Len(FirstLine)

\* A line and its newline, also where there is none.
After == at + Len(FirstLine) + 1

Scans ==
  /\ pc = "scan" /\ Complete /\ ~TooLong
  /\ emit(FirstLine)
  /\ at' = After
  /\ UNCHANGED <<writerVars, pc, off, cancelled, torn>>

\* The scanner gives what is left at the end of the file as a line.
ScansTorn ==
  /\ pc = "scan" /\ Rest # <<>> /\ ~Complete /\ ~TooLong
  /\ emit(FirstLine)
  /\ torn' = torn \cup {Len(kind)}
  /\ off' = After
  /\ pc' = "stat"
  /\ UNCHANGED <<writerVars, at, cancelled>>

\* Mutant: the offset is what this pass has read.
EndsPassRead ==
  /\ pc = "scan" /\ (Rest = <<>> \/ TooLong)
  /\ off' = at - off
  /\ pc' = "stat"
  /\ UNCHANGED <<writerVars, at, cancelled, out, ever, torn>>

\* At the end of the file, or at a line beyond the scanner's buffer, which the
\* next pass will meet again.
EndsPass ==
  /\ pc = "scan" /\ (Rest = <<>> \/ TooLong)
  /\ off' = at
  /\ pc' = "stat"
  /\ UNCHANGED <<writerVars, at, cancelled, out, ever, torn>>

Watch == Quits \/ Finds \/ Stats \/ Scans \/ ScansTorn \/ EndsPass

Next ==
  \/ Creates \/ (\E t \in Kinds : Begins(t)) \/ Goes
  \/ Cancel \/ Watch

Spec == Init /\ [][Next]_vars

\* The watcher's goroutine runs, and a line that was begun gets written.
FairSpec == Spec /\ WF_vars(Watch) /\ WF_vars(Goes)

----------------------------------------------------------------------------
(* Properties *)

Written == {k \in DOMAIN kind : k < Len(kind) \/ ~LineOpen}

\* The shapes of watcher.go; an offset is beyond the end by the newline of a
\* torn line only.
TypeOK ==
  /\ exists \in BOOLEAN /\ cancelled \in BOOLEAN
  /\ kind \in Seq(Kinds) /\ Len(kind) <= MaxLines
  /\ file \in Seq({Newline} \cup (1..MaxLines) \X (1..LineLen))
  /\ pc \in {"wait", "stat", "scan", "done"}
  /\ off \in 0..(Size + 1) /\ at \in 0..Size
  /\ off = Size + 1 => torn # {}
  /\ ever \subseteq DOMAIN kind /\ torn \subseteq DOMAIN kind

\* While claude's lines are only ever seen whole, the frames published are
\* those of the first lines of the file, each once, in order.
LinesOnce ==
  torn = {} => \E n \in 0..Len(kind) :
    out = FlattenSeq([k \in 1..n |-> Frames(k)])

\* Every line that is written is published, unless a pass has seen it torn or
\* it comes after a line the scanner cannot take, whatever was torn before it.
AllPublished ==
  \A k \in 1..MaxLines :
    k \in Written /\ (\A l \in LongLines : k < l) ~> k \in ever \cup torn \/ cancelled

\* A cancelled watcher ends, also one that goes round without sleeping because
\* the last line is torn or too long.
CancelEnds == cancelled ~> pc = "done"
=============================================================================
