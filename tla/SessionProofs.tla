--------------------------- MODULE SessionProofs ---------------------------
(***************************************************************************)
(* Proofs about Session, for every set of hook callbacks and every         *)
(* transcript length.                                                      *)
(***************************************************************************)
EXTENDS Session, TLAPS

USE SessionAssumption

----------------------------------------------------------------------------
(* Types *)

\* What Spawn, the reaper and the discovery keep.
LEMMA ControlKeeps == ControlTypes /\ [Next]_vars => ControlTypes'
<1> SUFFICES ASSUME ControlTypes, [Next]_vars
             PROVE  ControlTypes'
  OBVIOUS
<1> USE DEF ControlTypes, Terminal
<1>1. CASE ChildExits
  BY <1>1 DEF ChildExits, stateVars, reapVars
<1>2. CASE SpawnFails \/ SpawnStarts \/ SpawnRegisters \/ SpawnLaunches
  BY <1>2 DEF SpawnFails, SpawnStarts, SpawnRegisters, SpawnLaunches, stateVars, reapVars
<1>3. CASE Reap
  <2>1. CASE ReapCollects \/ ReapCancels
    BY <2>1 DEF ReapCollects, ReapCancels, spawnVars, stateVars
  <2>2. CASE ReapPublishesStop \/ ReapStores \/ ReapTells
    BY <2>2 DEF ReapPublishesStop, ReapStores, ReapTells, ExitState, spawnVars, stateVars
  <2>3. CASE ReapClosesBus \/ ReapClosesPty \/ ReapSignals
    BY <2>3 DEF ReapClosesBus, ReapClosesPty, ReapSignals, spawnVars, stateVars
  <2>4. QED
    BY <1>3, <2>1, <2>2, <2>3 DEF Reap
<1>4. CASE FinderSeesDone \/ FinderGivesUp \/ FinderFinds \/ FinderStarts
  BY <1>4 DEF FinderSeesDone, FinderGivesUp, FinderFinds, FinderStarts, spawnVars, stateVars, reapVars
<1>5. ASSUME NEW h \in Hooks, HookRuns(h)
      PROVE  ControlTypes'
  <2>1. CASE HookWatches(h) \/ HookEndsTurn(h)
    BY <2>1 DEF HookWatches, HookEndsTurn, spawnVars, stateVars, reapVars
  <2>2. CASE HookStores(h) \/ HookTells(h)
    BY <2>2 DEF HookStores, HookTells, HookState, spawnVars, reapVars
  <2>3. QED
    BY <1>5, <2>1, <2>2 DEF HookRuns
<1>6. CASE UNCHANGED <<spawnVars, stateVars, reapVars, finder>>
  BY <1>6 DEF spawnVars, stateVars, reapVars
<1>7. QED
  <2>1. CASE ChildWrites \/ UNCHANGED vars
    BY <1>6, <2>1 DEF ChildWrites, vars
  <2>2. CASE \E w \in Watchers : Watcher(w)
    BY <1>6, <2>2 DEF Watcher, WatcherScans, WatcherStartsAgain, WatcherEmits, WatcherReachesEnd,
                      WatcherExits
  <2>3. CASE \E h \in Hooks, e \in Events, p \in BOOLEAN : HookArrives(h, e, p)
    BY <1>6, <2>3 DEF HookArrives
  <2>4. QED
    BY <1>1, <1>2, <1>3, <1>4, <1>5, <2>1, <2>2, <2>3 DEF Next

\* The hook callbacks keep their types.
LEMMA HookKeeps == HookTypes /\ [Next]_vars => HookTypes'
<1> SUFFICES ASSUME HookTypes, [Next]_vars
             PROVE  HookTypes'
  OBVIOUS
<1>1. ASSUME NEW h \in Hooks, NEW e \in Events, NEW p \in BOOLEAN, HookArrives(h, e, p)
      PROVE  HookTypes'
  BY <1>1 DEF HookArrives, HookTypes
<1>2. ASSUME NEW h \in Hooks, HookRuns(h)
      PROVE  HookTypes'
  <2>1. CASE HookWatches(h)
    BY <2>1 DEF HookWatches, AfterWatch, Proceeds, HookTypes, Events
  <2>2. CASE HookStores(h)
    BY <2>2 DEF HookStores, Proceeds, HookTypes, Events
  <2>3. CASE HookTells(h)
    BY <2>3 DEF HookTells, Proceeds, HookTypes, Events
  <2>4. CASE HookEndsTurn(h)
    <3>1. turns' \in Nat
      BY <2>4 DEF HookEndsTurn, HookTypes
    <3>2. Proceeds(h, "over")
      BY <2>4 DEF HookEndsTurn
    <3>3. QED
      BY <3>1, <3>2 DEF Proceeds, HookTypes, Events
  <2>5. QED
    BY <1>2, <2>1, <2>2, <2>3, <2>4 DEF HookRuns
<1>3. CASE UNCHANGED hookVars
  BY <1>3 DEF HookTypes, hookVars
<1>4. QED
  <2>1. CASE \/ ChildExits \/ ChildWrites \/ SpawnFails \/ SpawnStarts \/ SpawnRegisters \/ SpawnLaunches
             \/ FinderSeesDone \/ FinderGivesUp \/ FinderFinds \/ FinderStarts
             \/ UNCHANGED vars
    BY <1>3, <2>1 DEF ChildExits, ChildWrites, SpawnFails, SpawnStarts, SpawnRegisters, SpawnLaunches,
                      FinderSeesDone, FinderGivesUp, FinderFinds, FinderStarts, vars
  <2>2. CASE Reap
    BY <1>3, <2>2 DEF Reap, ReapCollects, ReapCancels, ReapPublishesStop, ReapStores, ReapTells,
                      ReapClosesBus, ReapClosesPty, ReapSignals
  <2>3. CASE \E w \in Watchers : Watcher(w)
    BY <1>3, <2>3 DEF Watcher, WatcherScans, WatcherStartsAgain, WatcherEmits, WatcherReachesEnd,
                      WatcherExits
  <2>4. QED
    BY <1>1, <1>2, <2>1, <2>2, <2>3 DEF Next

\* Only running watchers are within a pass.
LEMMA WatchKeeps == WatchTypes /\ [Next]_vars => WatchTypes'
<1> SUFFICES ASSUME WatchTypes, [Next]_vars
             PROVE  WatchTypes'
  OBVIOUS
<1>1. ASSUME NEW w \in Watchers, StartWatcher(w), UNCHANGED <<held, scanning, past>>
      PROVE  WatchTypes'
  BY <1>1 DEF StartWatcher, WatchTypes, watchVars
<1>2. CASE FinderStarts
  BY <1>1, <1>2 DEF FinderStarts, Watchers, reapVars, scanVars
<1>3. ASSUME NEW h \in Hooks, HookWatches(h)
      PROVE  WatchTypes'
  <2>1. CASE hasPath[h]
    BY <1>1, <1>3, <2>1 DEF HookWatches, Watchers, reapVars, scanVars
  <2>2. CASE ~hasPath[h]
    BY <1>3, <2>2 DEF HookWatches, WatchTypes, watchVars, reapVars, scanVars
  <2>3. QED
    BY <2>1, <2>2
<1>4. ASSUME NEW w \in Watchers, Watcher(w)
      PROVE  WatchTypes'
  <2>1. CASE WatcherScans(w) \/ WatcherStartsAgain(w) \/ WatcherEmits(w)
    BY <2>1 DEF WatcherScans, WatcherStartsAgain, WatcherEmits, WatchTypes, watchVars, reapVars
  <2>2. CASE WatcherReachesEnd(w)
    BY <2>2 DEF WatcherReachesEnd, WatchTypes, watchVars, reapVars
  <2>3. CASE WatcherExits(w)
    BY <2>3 DEF WatcherExits, WatchTypes, scanVars, reapVars
  <2>4. QED
    BY <1>4, <2>1, <2>2, <2>3 DEF Watcher
<1>5. CASE Reap
  <2>1. CASE ReapCollects \/ ReapCancels
    BY <2>1 DEF ReapCollects, ReapCancels, WatchTypes, scanVars
  <2>2. CASE \/ ReapPublishesStop \/ ReapStores \/ ReapTells
             \/ ReapClosesBus \/ ReapClosesPty \/ ReapSignals
    BY <2>2 DEF ReapPublishesStop, ReapStores, ReapTells, ReapClosesBus, ReapClosesPty,
                ReapSignals, WatchTypes, watchVars, scanVars
  <2>3. QED
    BY <1>5, <2>1, <2>2 DEF Reap
<1>6. CASE ChildWrites
  BY <1>6 DEF ChildWrites, WatchTypes, watchVars, reapVars
<1>7. CASE UNCHANGED <<watchVars, held, scanning, past>>
  BY <1>7 DEF WatchTypes, watchVars
<1>8. QED
  <2>1. CASE \/ ChildExits \/ SpawnFails \/ SpawnStarts \/ SpawnRegisters \/ SpawnLaunches
             \/ FinderSeesDone \/ FinderGivesUp \/ FinderFinds
             \/ UNCHANGED vars
    BY <1>7, <2>1 DEF ChildExits, SpawnFails, SpawnStarts, SpawnRegisters, SpawnLaunches,
                      FinderSeesDone, FinderGivesUp, FinderFinds, vars, reapVars, scanVars
  <2>2. CASE \/ \E h \in Hooks, e \in Events, p \in BOOLEAN : HookArrives(h, e, p)
             \/ \E h \in Hooks : HookStores(h) \/ HookTells(h) \/ HookEndsTurn(h)
    BY <1>7, <2>2 DEF HookArrives, HookStores, HookTells, HookEndsTurn, reapVars, scanVars
  <2>3. QED
    BY <1>2, <1>3, <1>4, <1>5, <1>6, <2>1, <2>2 DEF Next, HookRuns

\* The count of what was published keeps its type.
LEMMA PublishedType ==
  ASSUME FileTypes, NEW n \in 1..MaxLines
  PROVE  Published(n) \in [1..MaxLines -> Nat]
  BY DEF FileTypes, Published

\* No watcher reads past the end of the transcript's last line.
LEMMA FileKeeps == WatchTypes /\ FileTypes /\ [Next]_vars => FileTypes'
<1> SUFFICES ASSUME WatchTypes, FileTypes, [Next]_vars
             PROVE  FileTypes'
  OBVIOUS
<1>1. CASE ChildWrites
  <2>1. lines' \in 0..MaxLines /\ part' \in {"none", "torn", "unended"}
    BY <1>1 DEF ChildWrites, FileTypes
  <2>2. part' # "none" => lines' < MaxLines
    BY <1>1 DEF ChildWrites, FileTypes
  <2>3. UNCHANGED <<off, copies, again>>
    BY <1>1 DEF ChildWrites
  <2>4. ASSUME NEW w \in Watchers
        PROVE  off'[w] <= IF part' = "none" THEN lines' ELSE lines' + 1
    <3>1. off[w] \in Nat /\ lines \in Nat /\ off[w] <= IF part = "none" THEN lines ELSE lines + 1
      BY DEF FileTypes
    <3>2. \/ lines' = lines + 1
          \/ lines' = lines /\ part' # "none"
      BY <1>1 DEF ChildWrites
    <3>3. QED
      BY <2>3, <3>1, <3>2
  <2>5. QED
    BY <2>1, <2>2, <2>3, <2>4 DEF FileTypes
<1>2. ASSUME NEW w \in Watchers, Watcher(w)
      PROVE  FileTypes'
  <2>1. CASE WatcherEmits(w)
    <3>1. off[w] + 1 \in 1..MaxLines
      BY <2>1 DEF WatcherEmits, FileTypes
    <3>2. copies' \in [1..MaxLines -> Nat]
      BY <2>1, <3>1, PublishedType DEF WatcherEmits
    <3>3. off' \in [Watchers -> 0..MaxLines]
      BY <2>1, <3>1 DEF WatcherEmits, FileTypes
    <3>4. UNCHANGED <<lines, part, again>>
      BY <2>1 DEF WatcherEmits, fileVars
    <3>5. \A v \in Watchers : off'[v] <= IF part = "none" THEN lines ELSE lines + 1
      BY <2>1 DEF WatcherEmits, FileTypes
    <3>6. QED
      BY <3>2, <3>3, <3>4, <3>5 DEF FileTypes
  <2>2. CASE WatcherReachesEnd(w) /\ part = "none"
    <3>1. UNCHANGED <<off, lines, part, copies, again>>
      BY <2>2 DEF WatcherReachesEnd, fileVars
    <3>2. QED
      BY <3>1 DEF FileTypes
  <2>3. CASE WatcherReachesEnd(w) /\ part # "none"
    <3>1. lines + 1 \in 1..MaxLines
      BY <2>3 DEF FileTypes
    <3>2. off' \in [Watchers -> 0..MaxLines]
      BY <2>3, <3>1 DEF WatcherReachesEnd, FileTypes
    <3>3. copies' \in [1..MaxLines -> Nat]
      BY <2>3, <3>1, PublishedType DEF WatcherReachesEnd, FileTypes
    <3>4. UNCHANGED <<lines, part, again>>
      BY <2>3 DEF WatcherReachesEnd, fileVars
    <3>5. \A v \in Watchers : off'[v] <= lines + 1
      BY <2>3 DEF WatcherReachesEnd, FileTypes
    <3>6. QED
      BY <2>3, <3>2, <3>3, <3>4, <3>5 DEF FileTypes
  <2>4. CASE WatcherStartsAgain(w)
    <3>1. off' \in [Watchers -> 0..MaxLines]
      BY <2>4 DEF WatcherStartsAgain, FileTypes
    <3>2. again' \in BOOLEAN /\ UNCHANGED <<lines, part, copies>>
      BY <2>4 DEF WatcherStartsAgain, fileVars
    <3>3. \A v \in Watchers : off'[v] <= IF part = "none" THEN lines ELSE lines + 1
      BY <2>4 DEF WatcherStartsAgain, FileTypes
    <3>4. QED
      BY <3>1, <3>2, <3>3 DEF FileTypes
  <2>5. CASE WatcherScans(w) \/ WatcherExits(w)
    <3>1. UNCHANGED <<off, lines, part, copies, again>>
      BY <2>5 DEF WatcherScans, WatcherExits, scanVars, fileVars
    <3>2. QED
      BY <3>1 DEF FileTypes
  <2>6. QED
    BY <1>2, <2>1, <2>2, <2>3, <2>4, <2>5 DEF Watcher
<1>3. CASE UNCHANGED scanVars
  BY <1>3 DEF FileTypes, scanVars
<1>4. QED
  <2>1. CASE \/ ChildExits \/ SpawnFails \/ SpawnStarts \/ SpawnRegisters \/ SpawnLaunches
             \/ FinderSeesDone \/ FinderGivesUp \/ FinderFinds \/ FinderStarts
             \/ UNCHANGED vars
    BY <1>3, <2>1 DEF ChildExits, SpawnFails, SpawnStarts, SpawnRegisters, SpawnLaunches,
                      FinderSeesDone, FinderGivesUp, FinderFinds, FinderStarts, vars
  <2>2. CASE Reap
    BY <1>3, <2>2 DEF Reap, ReapCollects, ReapCancels, ReapPublishesStop, ReapStores, ReapTells,
                      ReapClosesBus, ReapClosesPty, ReapSignals
  <2>3. CASE \/ \E h \in Hooks, e \in Events, p \in BOOLEAN : HookArrives(h, e, p)
             \/ \E h \in Hooks : HookRuns(h)
    BY <1>3, <2>3 DEF HookArrives, HookRuns, HookWatches, HookStores, HookTells, HookEndsTurn
  <2>4. QED
    BY <1>1, <1>2, <2>1, <2>2, <2>3 DEF Next

\* Session keeps its types; in particular no watcher reads past the end of
\* the transcript, and only running watchers are within a pass.
THEOREM TypeCorrect == Spec => []TypeOK
<1>1. Init => TypeOK
  <2> SUFFICES ASSUME Init
               PROVE  TypeOK
    OBVIOUS
  <2>1. ControlTypes
    BY DEF Init, ControlTypes, Terminal
  <2>2. HookTypes
    BY DEF Init, HookTypes, Events
  <2>3. WatchTypes
    BY DEF Init, WatchTypes
  <2>4. FileTypes
    <3>1. off \in [Watchers -> 0..MaxLines] /\ copies \in [1..MaxLines -> Nat]
      BY DEF Init
    <3>2. lines = 0 /\ part = "none" /\ again = FALSE
      BY DEF Init
    <3>3. \A w \in Watchers : off[w] = 0
      BY DEF Init
    <3>4. lines \in 0..MaxLines /\ \A w \in Watchers : off[w] <= lines
      BY <3>2, <3>3
    <3>5. QED
      BY <3>1, <3>2, <3>4 DEF FileTypes
  <2>5. QED
    BY <2>1, <2>2, <2>3, <2>4 DEF TypeOK
<1>2. TypeOK /\ [Next]_vars => TypeOK'
  BY ControlKeeps, HookKeeps, WatchKeeps, FileKeeps DEF TypeOK
<1>3. QED
  BY <1>1, <1>2, PTL DEF Spec

----------------------------------------------------------------------------
(* The reaper: what is done at each of its steps *)

\* The exit has been recorded and the watcher's handle dealt with.
Stopping == {"stop", "store", "tell", "close", "pty", "signal", "over"}

\* What is done at each of the steps of the reaper.
ReapInv ==
  /\ reap # "off" => spawn = "returned"
  /\ stopped <=> reap \in Stopping \cup {"cancel"}
  /\ exits = IF reap \in Stopping \ {"stop"} THEN 1 ELSE 0
  /\ busClosed <=> spawn = "failed" \/ reap \in {"pty", "signal", "over"}
  /\ reap \in {"signal", "over"} => ~ptyOpen
  /\ done <=> reap = "over"

\* Every step keeps the reaper's invariant.
LEMMA ReapStep == TypeOK /\ ReapInv /\ [Next]_vars => ReapInv'
<1> SUFFICES ASSUME TypeOK, ReapInv, [Next]_vars
             PROVE  ReapInv'
  OBVIOUS
<1> USE DEF ReapInv, Stopping
<1>1. CASE SpawnFails \/ SpawnStarts \/ SpawnRegisters \/ SpawnLaunches
  BY <1>1 DEF SpawnFails, SpawnStarts, SpawnRegisters, SpawnLaunches, reapVars
<1>2. CASE Reap
  <2>1. CASE ReapCollects \/ ReapCancels
    BY <2>1 DEF ReapCollects, ReapCancels, spawnVars
  <2>2. CASE ReapPublishesStop \/ ReapStores \/ ReapTells
    BY <2>2 DEF ReapPublishesStop, ReapStores, ReapTells, spawnVars
  <2>3. CASE ReapClosesBus \/ ReapClosesPty \/ ReapSignals
    BY <2>3 DEF ReapClosesBus, ReapClosesPty, ReapSignals, spawnVars
  <2>4. QED
    BY <1>2, <2>1, <2>2, <2>3 DEF Reap
<1>3. CASE UNCHANGED <<spawn, reapVars>>
  BY <1>3 DEF reapVars
<1>4. QED
  <2>1. CASE \/ ChildExits \/ ChildWrites
             \/ FinderSeesDone \/ FinderGivesUp \/ FinderFinds \/ FinderStarts
             \/ UNCHANGED vars
    BY <1>3, <2>1 DEF ChildExits, ChildWrites, FinderSeesDone, FinderGivesUp, FinderFinds,
                      FinderStarts, vars, spawnVars
  <2>2. CASE \E w \in Watchers : Watcher(w)
    BY <1>3, <2>2 DEF Watcher, WatcherScans, WatcherStartsAgain, WatcherEmits,
                      WatcherReachesEnd, WatcherExits, spawnVars
  <2>3. CASE \E h \in Hooks, e \in Events, p \in BOOLEAN : HookArrives(h, e, p)
    BY <1>3, <2>3 DEF HookArrives, spawnVars
  <2>4. CASE \E h \in Hooks : HookRuns(h)
    BY <1>3, <2>4 DEF HookRuns, HookWatches, HookStores, HookTells, HookEndsTurn, spawnVars
  <2>5. QED
    BY <1>1, <1>2, <2>1, <2>2, <2>3, <2>4 DEF Next

\* The reaper's invariant holds in every reachable state.
THEOREM ReapCorrect == Spec => []ReapInv
<1>1. Init => ReapInv
  BY DEF Init, ReapInv, Stopping
<1>2. QED
  BY <1>1, TypeCorrect, ReapStep, PTL DEF Spec

\* Whoever waits for Done finds the exit recorded and announced once, the
\* streams and the PTY closed.
THEOREM DoneCorrect == Spec => []DoneMeansOver
<1>1. ReapInv => DoneMeansOver
  BY DEF ReapInv, Stopping, DoneMeansOver
<1>2. QED
  BY <1>1, ReapCorrect, PTL

\* No subscriber's channel is closed before the stop frame was published.
THEOREM CloseCorrect == Spec => []StopFrameBeforeClose
<1>1. ReapInv => StopFrameBeforeClose
  BY DEF ReapInv, Stopping, StopFrameBeforeClose
<1>2. QED
  BY <1>1, ReapCorrect, PTL

\* The ending is told in the order its readers rely on.
THEOREM EndCorrect == Spec => []EndsInOrder
<1>1. StopFrameBeforeClose /\ DoneMeansOver => EndsInOrder
  BY DEF EndsInOrder
<1>2. QED
  BY <1>1, DoneCorrect, CloseCorrect, PTL

----------------------------------------------------------------------------
(* The watchers *)

\* The watchers somebody is still going to cancel.
InCharge == {handle} \cup (IF reap = "cancel" THEN {held} ELSE {})

\* A watcher that runs, or was started before the exit, is cancelled or somebody
\* still holds the handle that cancels it.
WatchInv ==
  /\ live \subseteq cancelled \cup InCharge
  /\ early \subseteq cancelled \cup (IF stopped THEN {} ELSE {handle})
                               \cup (IF reap = "cancel" THEN {held} ELSE {})
  /\ NoWatcher \notin live \cup early

\* Starting a watcher keeps the invariant: it takes the free handle.
LEMMA StartStep ==
  ASSUME TypeOK, WatchInv, NEW w \in Watchers, StartWatcher(w), UNCHANGED <<reap, held, stopped>>
  PROVE  WatchInv'
<1>1. w # NoWatcher
  BY DEF Watchers
<1>2. CASE handle = NoWatcher
  BY <1>1, <1>2 DEF StartWatcher, WatchInv, InCharge
<1>3. CASE handle # NoWatcher
  BY <1>3 DEF StartWatcher, WatchInv, InCharge, watchVars
<1>4. QED
  BY <1>2, <1>3

\* Every step keeps the watchers' invariant.
LEMMA WatchStep == TypeOK /\ ReapInv /\ WatchInv /\ [Next]_vars => WatchInv'
<1> SUFFICES ASSUME TypeOK, ReapInv, WatchInv, [Next]_vars
             PROVE  WatchInv'
  OBVIOUS
<1>1. CASE SpawnLaunches
  BY <1>1 DEF SpawnLaunches, WatchInv, InCharge, watchVars, ReapInv, Stopping
<1>2. CASE ReapCollects
  BY <1>2 DEF ReapCollects, WatchInv, InCharge, ReapInv, Stopping
<1>3. CASE ReapCancels
  BY <1>3 DEF ReapCancels, WatchInv, InCharge, ReapInv, Stopping
<1>4. CASE ReapPublishesStop \/ ReapStores \/ ReapTells
  BY <1>4 DEF ReapPublishesStop, ReapStores, ReapTells, WatchInv, InCharge, watchVars
<1>5. CASE ReapClosesBus \/ ReapClosesPty \/ ReapSignals
  BY <1>5 DEF ReapClosesBus, ReapClosesPty, ReapSignals, WatchInv, InCharge, watchVars
<1>6. CASE FinderStarts
  BY <1>6, StartStep DEF FinderStarts, Watchers, reapVars
<1>7. ASSUME NEW h \in Hooks, HookWatches(h)
      PROVE  WatchInv'
  <2>1. CASE hasPath[h]
    BY <1>7, <2>1, StartStep DEF HookWatches, Watchers, reapVars
  <2>2. CASE ~hasPath[h]
    BY <1>7, <2>2 DEF HookWatches, WatchInv, InCharge, watchVars, reapVars
  <2>3. QED
    BY <2>1, <2>2
<1>8. ASSUME NEW w \in Watchers, WatcherExits(w)
      PROVE  WatchInv'
  BY <1>8 DEF WatcherExits, WatchInv, InCharge, reapVars
<1>9. CASE UNCHANGED <<watchVars, reap, held, stopped>>
  BY <1>9 DEF WatchInv, InCharge, watchVars
<1>10. QED
  <2>1. CASE \/ ChildExits \/ ChildWrites \/ SpawnFails \/ SpawnStarts \/ SpawnRegisters
             \/ FinderSeesDone \/ FinderGivesUp \/ FinderFinds
             \/ UNCHANGED vars
    BY <1>9, <2>1 DEF ChildExits, ChildWrites, SpawnFails, SpawnStarts, SpawnRegisters,
                      FinderSeesDone, FinderGivesUp, FinderFinds, vars, reapVars
  <2>2. CASE \E w \in Watchers : \/ WatcherScans(w) \/ WatcherStartsAgain(w)
                                \/ WatcherEmits(w) \/ WatcherReachesEnd(w)
    BY <1>9, <2>2 DEF WatcherScans, WatcherStartsAgain, WatcherEmits, WatcherReachesEnd, reapVars
  <2>3. CASE \E h \in Hooks, e \in Events, p \in BOOLEAN : HookArrives(h, e, p)
    BY <1>9, <2>3 DEF HookArrives, reapVars
  <2>4. CASE \E h \in Hooks : HookStores(h) \/ HookTells(h) \/ HookEndsTurn(h)
    BY <1>9, <2>4 DEF HookStores, HookTells, HookEndsTurn, reapVars
  <2>5. QED
    BY <1>1, <1>2, <1>3, <1>4, <1>5, <1>6, <1>7, <1>8, <2>1, <2>2, <2>3, <2>4
       DEF Next, Reap, Watcher, HookRuns

\* The watchers' invariant holds in every reachable state.
THEOREM WatchCorrect == Spec => []WatchInv
<1>1. Init => WatchInv
  BY DEF Init, WatchInv
<1>2. QED
  BY <1>1, TypeCorrect, ReapCorrect, WatchStep, PTL DEF Spec

\* At any time at most one watcher is in charge of the transcript.
THEOREM OneWatcherCorrect == Spec => []OneWatcher
<1>1. WatchInv => OneWatcher
  BY DEF WatchInv, InCharge, OneWatcher
<1>2. QED
  BY <1>1, WatchCorrect, PTL

\* Every watcher started before the exit was recorded is cancelled by Done.
THEOREM EarlyCorrect == Spec => []EarlyWatchersReleased
<1>1. ReapInv /\ WatchInv => EarlyWatchersReleased
  BY DEF ReapInv, Stopping, WatchInv, EarlyWatchersReleased
<1>2. QED
  BY <1>1, ReapCorrect, WatchCorrect, PTL

----------------------------------------------------------------------------
(* The transcript's lines *)

\* Until the exit is recorded the one watcher that ever ran is the one whose
\* handle is kept, and while it has not gone back to the start of the file what
\* is published is of what it has read.
LineInv ==
  ~stopped =>
    /\ cancelled = {}
    /\ live = {handle} \ {NoWatcher}
    /\ \A w \in Watchers \ live : off[w] = 0
    /\ past \subseteq live
    /\ ~again => \A n \in 1..MaxLines :
         copies[n] <= IF handle # NoWatcher /\ n <= off[handle] THEN 1 ELSE 0

\* A watcher starts from the beginning and only where there is none.
LEMMA StartLines ==
  ASSUME TypeOK, LineInv, NEW w \in Watchers, StartWatcher(w),
         UNCHANGED <<stopped, off, past, again, copies>>
  PROVE  LineInv'
<1> SUFFICES ASSUME ~stopped
             PROVE  LineInv'
  BY DEF LineInv
<1>1. CASE handle # NoWatcher
  BY <1>1 DEF StartWatcher, LineInv, watchVars
<1>2. CASE handle = NoWatcher
  <2>1. /\ live' = live \cup {w} /\ handle' = w /\ cancelled' = cancelled /\ w # NoWatcher
        /\ live = {} /\ cancelled = {}
    BY <1>2 DEF StartWatcher, LineInv, Watchers
  <2>2. off[w] = 0 /\ \A n \in 1..MaxLines : ~(n <= off[w])
    BY <2>1 DEF LineInv
  <2>3. QED
    BY <1>2, <2>1, <2>2 DEF LineInv
<1>3. QED
  BY <1>1, <1>2

\* A watcher that reads on publishes at most the line it reads, once.
LEMMA ReadsOn ==
  ASSUME TypeOK, LineInv, ~stopped, ~again, NEW w \in live, NEW k \in 1..MaxLines, off[w] < k,
         off' = [off EXCEPT ![w] = k],
         copies' = copies \/ (copies' = Published(k)),
         UNCHANGED <<handle>>
  PROVE  \A n \in 1..MaxLines :
           copies'[n] <= IF handle' # NoWatcher /\ n <= off'[handle'] THEN 1 ELSE 0
<1>1. w = handle /\ w # NoWatcher /\ w \in Watchers
  BY DEF TypeOK, WatchTypes, FileTypes, LineInv
<1>2. off \in [Watchers -> 0..MaxLines] /\ copies \in [1..MaxLines -> Nat]
  BY DEF TypeOK, WatchTypes, FileTypes
<1>3. off'[handle'] = k /\ handle' # NoWatcher
  BY <1>1, <1>2
<1>4. ASSUME NEW n \in 1..MaxLines
      PROVE  copies'[n] <= IF n <= k THEN 1 ELSE 0
  <2>1. copies[n] <= IF n <= off[w] THEN 1 ELSE 0
    BY <1>1 DEF LineInv
  <2>2. off[w] \in Nat /\ copies[n] \in Nat /\ k \in Nat /\ n \in Nat
    BY <1>1, <1>2
  <2>3. CASE copies'[n] = copies[n]
    BY <2>1, <2>2, <2>3
  <2>4. CASE copies'[n] # copies[n]
    <3>1. n = k /\ copies'[n] = copies[n] + 1
      BY <1>2, <2>4 DEF Published
    <3>2. QED
      BY <2>1, <2>2, <3>1
  <2>5. QED
    BY <2>3, <2>4
<1>5. QED
  BY <1>3, <1>4

\* Reading a whole line keeps the invariant.
LEMMA EmitLines ==
  ASSUME TypeOK, LineInv, NEW w \in Watchers, WatcherEmits(w)
  PROVE  LineInv'
<1>1. UNCHANGED <<stopped, handle, live, cancelled, past, again>>
  BY DEF WatcherEmits, reapVars, watchVars
<1> SUFFICES ASSUME ~stopped
             PROVE  LineInv'
  BY <1>1 DEF LineInv
<1>2. w \in live /\ w \in scanning
  BY DEF WatcherEmits, TypeOK, WatchTypes, FileTypes
<1>3. off[w] + 1 \in 1..MaxLines /\ off[w] < off[w] + 1 /\ off \in [Watchers -> 0..MaxLines]
  BY DEF WatcherEmits, TypeOK, WatchTypes, FileTypes
<1>4. \A v \in Watchers \ live : off'[v] = 0
  BY <1>2, <1>3 DEF WatcherEmits, LineInv
<1>5. ~again => \A n \in 1..MaxLines :
                  copies'[n] <= IF handle' # NoWatcher /\ n <= off'[handle'] THEN 1 ELSE 0
  BY <1>1, <1>2, <1>3, ReadsOn DEF WatcherEmits
<1>6. QED
  BY <1>1, <1>4, <1>5 DEF LineInv

\* The end of a pass keeps the invariant, also where the last line is torn.
LEMMA EndLines ==
  ASSUME TypeOK, LineInv, NEW w \in Watchers, WatcherReachesEnd(w)
  PROVE  LineInv'
<1>1. UNCHANGED <<stopped, handle, live, cancelled, again>>
  BY DEF WatcherReachesEnd, reapVars, watchVars
<1> SUFFICES ASSUME ~stopped
             PROVE  LineInv'
  BY <1>1 DEF LineInv
<1>2. w \in live
  BY DEF WatcherReachesEnd, TypeOK, WatchTypes, FileTypes
<1>3. CASE part = "none"
  BY <1>1, <1>3 DEF WatcherReachesEnd, LineInv
<1>4. CASE part # "none"
  <2>1. /\ lines + 1 \in 1..MaxLines /\ off \in [Watchers -> 0..MaxLines]
        /\ off[w] = lines \/ off[w] > lines
    BY <1>4 DEF WatcherReachesEnd, TypeOK, WatchTypes, FileTypes
  <2>2. off' = [off EXCEPT ![w] = lines + 1] /\ past' = past \cup {w}
    BY <1>4 DEF WatcherReachesEnd
  <2>3. /\ \A v \in Watchers \ live : off'[v] = 0
        /\ past' \subseteq live
    BY <1>2, <2>1, <2>2 DEF LineInv
  <2>4. ASSUME ~again
        PROVE  \A n \in 1..MaxLines :
                 copies'[n] <= IF handle' # NoWatcher /\ n <= off'[handle'] THEN 1 ELSE 0
    <3>1. CASE off[w] = lines
      <4>1. off[w] < lines + 1
        BY <2>1, <3>1
      <4>2. copies' = copies \/ copies' = Published(lines + 1)
        BY <1>4 DEF WatcherReachesEnd
      <4>3. QED
        BY <1>1, <1>2, <2>1, <2>2, <2>4, <4>1, <4>2, ReadsOn
    <3>2. CASE off[w] > lines
      <4>1. copies' = copies /\ w = handle
        BY <1>2, <1>4, <2>1, <3>2 DEF WatcherReachesEnd, LineInv, TypeOK, WatchTypes, FileTypes
      <4>2. off'[w] = lines + 1
        BY <2>1, <2>2
      <4>3. QED
        <5>1. handle' = handle /\ handle # NoWatcher /\ off'[handle'] = lines + 1
          BY <1>1, <1>2, <4>1, <4>2 DEF LineInv
        <5>2. ASSUME NEW n \in 1..MaxLines
              PROVE  copies'[n] <= IF n <= lines + 1 THEN 1 ELSE 0
          <6>1. copies[n] <= IF n <= off[handle] THEN 1 ELSE 0
            BY <2>4, <5>1 DEF LineInv
          <6>2. copies'[n] = copies[n] /\ copies[n] \in Nat /\ off[handle] \in Nat /\ lines \in Nat
            BY <1>2, <4>1 DEF TypeOK, WatchTypes, FileTypes
          <6>3. off[handle] <= lines + 1
            BY <1>2, <1>4, <4>1 DEF TypeOK, WatchTypes, FileTypes
          <6>4. QED
            BY <6>1, <6>2, <6>3
        <5>3. QED
          BY <5>1, <5>2
    <3>3. QED
      BY <2>1, <3>1, <3>2
  <2>5. QED
    BY <1>1, <2>3, <2>4 DEF LineInv
<1>5. QED
  BY <1>3, <1>4

\* Going back to the start of the file gives up the count of what is published.
LEMMA AgainLines ==
  ASSUME TypeOK, LineInv, NEW w \in Watchers, WatcherStartsAgain(w)
  PROVE  LineInv'
<1>1. UNCHANGED <<stopped, handle, live, cancelled>> /\ (~stopped => again')
  BY DEF WatcherStartsAgain, reapVars, watchVars
<1>2. w \in live /\ past' \subseteq past
  BY DEF WatcherStartsAgain
<1>3. ~stopped => \A v \in Watchers \ live : off'[v] = 0
  BY <1>2 DEF WatcherStartsAgain, LineInv, TypeOK, WatchTypes, FileTypes
<1>4. QED
  BY <1>1, <1>2, <1>3 DEF LineInv

\* Every step keeps the lines' invariant.
LEMMA LineStep == TypeOK /\ ReapInv /\ LineInv /\ [Next]_vars => LineInv'
<1> SUFFICES ASSUME TypeOK, ReapInv, LineInv, [Next]_vars
             PROVE  LineInv'
  OBVIOUS
<1>1. CASE SpawnFails \/ SpawnStarts \/ SpawnRegisters \/ SpawnLaunches
  BY <1>1 DEF SpawnFails, SpawnStarts, SpawnRegisters, SpawnLaunches, LineInv, watchVars,
              scanVars, reapVars
<1>2. CASE ReapCollects
  BY <1>2 DEF ReapCollects, LineInv
<1>3. CASE ReapCancels
  BY <1>3 DEF ReapCancels, LineInv, ReapInv
<1>4. CASE \/ ReapPublishesStop \/ ReapStores \/ ReapTells
           \/ ReapClosesBus \/ ReapClosesPty \/ ReapSignals
  BY <1>4 DEF ReapPublishesStop, ReapStores, ReapTells, ReapClosesBus, ReapClosesPty,
              ReapSignals, LineInv, watchVars, scanVars
<1>5. CASE FinderStarts
  BY <1>5, StartLines DEF FinderStarts, Watchers, reapVars, scanVars
<1>6. ASSUME NEW h \in Hooks, HookWatches(h)
      PROVE  LineInv'
  <2>1. CASE hasPath[h]
    BY <1>6, <2>1, StartLines DEF HookWatches, Watchers, reapVars, scanVars
  <2>2. CASE ~hasPath[h]
    BY <1>6, <2>2 DEF HookWatches, LineInv, watchVars, reapVars, scanVars
  <2>3. QED
    BY <2>1, <2>2
<1>7. ASSUME NEW w \in Watchers, Watcher(w)
      PROVE  LineInv'
  <2>1. CASE WatcherEmits(w) \/ WatcherReachesEnd(w) \/ WatcherStartsAgain(w)
    BY <2>1, EmitLines, EndLines, AgainLines
  <2>2. CASE WatcherExits(w)
    BY <2>2 DEF WatcherExits, LineInv, reapVars, scanVars
  <2>3. CASE WatcherScans(w)
    BY <2>3 DEF WatcherScans, LineInv, reapVars, watchVars
  <2>4. QED
    BY <1>7, <2>1, <2>2, <2>3 DEF Watcher
<1>8. CASE UNCHANGED <<watchVars, stopped, off, past, again, copies>>
  BY <1>8 DEF LineInv, watchVars
<1>9. CASE ChildWrites
  BY <1>9 DEF ChildWrites, LineInv, reapVars, watchVars
<1>10. QED
  <2>1. CASE \/ ChildExits \/ FinderSeesDone \/ FinderGivesUp \/ FinderFinds
             \/ UNCHANGED vars
    BY <1>8, <2>1 DEF ChildExits, FinderSeesDone, FinderGivesUp, FinderFinds, vars,
                      reapVars, scanVars
  <2>2. CASE \E h \in Hooks, e \in Events, p \in BOOLEAN : HookArrives(h, e, p)
    BY <1>8, <2>2 DEF HookArrives, reapVars, scanVars
  <2>3. CASE \E h \in Hooks : HookStores(h) \/ HookTells(h) \/ HookEndsTurn(h)
    BY <1>8, <2>3 DEF HookStores, HookTells, HookEndsTurn, reapVars, scanVars
  <2>4. QED
    BY <1>1, <1>2, <1>3, <1>4, <1>5, <1>6, <1>7, <1>9, <2>1, <2>2, <2>3 DEF Next, Reap, HookRuns

\* Until the reaper takes the handle no line is published twice, unless the
\* watcher went back to the start of the file over a torn last line.
THEOREM LinesCorrect == Spec => []LinesOnce
<1>1. Init => LineInv
  BY DEF Init, LineInv
<1>2. Spec => []LineInv
  BY <1>1, TypeCorrect, ReapCorrect, LineStep, PTL DEF Spec
<1>3. TypeOK /\ LineInv => LinesOnce
  <2> SUFFICES ASSUME TypeOK, LineInv, ~stopped, ~again, NEW n \in 1..MaxLines
               PROVE  copies[n] <= 1
    BY DEF LinesOnce
  <2>1. copies[n] <= (IF handle # NoWatcher /\ n <= off[handle] THEN 1 ELSE 0)
    BY DEF LineInv
  <2>2. copies[n] \in Nat
    BY DEF TypeOK, FileTypes
  <2>3. QED
    BY <2>1, <2>2
<1>4. QED
  BY <1>2, <1>3, TypeCorrect, PTL
=============================================================================
