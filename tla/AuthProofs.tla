----------------------------- MODULE AuthProofs -----------------------------
(***************************************************************************)
(* Proofs about how claude is authenticated: the login flow (ClaudeLogin),  *)
(* for every number of flows, code submissions and rejections; what is      *)
(* kept of it and of the providers (Credentials): types, what survives      *)
(* failed saves and restarts, the exclusion of subscription and providers,  *)
(* and the host of a session; and about how clients are (Access): for all   *)
(* sets of devices, secrets, envelopes and handlers, and every window.      *)
(***************************************************************************)
EXTENDS ClaudeLogin, Credentials, Access, TLAPS

----------------------------------------------------------------------------
(* The login flow *)

USE LoginAssumption

\* Every step keeps the types of ClaudeLogin.
LEMMA LoginTypeStep == LoginTypeOK /\ [LoginNext]_allLoginVars => LoginTypeOK'
<1> SUFFICES ASSUME LoginTypeOK, [LoginNext]_allLoginVars
             PROVE  LoginTypeOK'
  OBVIOUS
<1> USE DEF LoginTypeOK, flowVars, outVars, submitVars, Store, Kill, States, Terminal, Exited
<1>1. ASSUME NEW f \in Flows, ClaudeExits(f)
      PROVE  LoginTypeOK'
  BY <1>1 DEF ClaudeExits
<1>2. ASSUME NEW f \in Flows, ClaudeRejects(f)
      PROVE  LoginTypeOK'
  BY <1>2 DEF ClaudeRejects
<1>3. ASSUME NEW f \in Flows, StartChecks(f)
      PROVE  LoginTypeOK'
  BY <1>3 DEF StartChecks
<1>4. ASSUME NEW f \in Flows, StartFails(f) \/ StartRecords(f)
      PROVE  LoginTypeOK'
  BY <1>4 DEF StartFails, StartRecords
<1>5. ASSUME NEW f \in Flows, StartSpawns(f)
      PROVE  LoginTypeOK'
  BY <1>5 DEF StartSpawns
<1>6. ASSUME NEW f \in Flows, StartReady(f) \/ StartSeesExit(f)
      PROVE  LoginTypeOK'
  BY <1>6 DEF StartReady, StartSeesExit
<1>7. ASSUME NEW f \in Flows, StartTimesOut(f)
      PROVE  LoginTypeOK'
  BY <1>7 DEF StartTimesOut
<1>8. ASSUME NEW f \in Flows, StartKills(f)
      PROVE  LoginTypeOK'
  BY <1>8 DEF StartKills
<1>9. ASSUME NEW f \in Flows,
             ReaderFindsURL(f) \/ ReaderEnds(f) \/ ReaderStores(f) \/ ReaderSignals(f)
      PROVE  LoginTypeOK'
  BY <1>9 DEF ReaderFindsURL, ReaderEnds, ReaderStores, ReaderSignals
<1>9a. ASSUME NEW f \in Flows, ReaderReads(f)
       PROVE  LoginTypeOK'
  <2>1. PICK n \in (rejects[f] + 1)..printed[f] : rejects' = [rejects EXCEPT ![f] = n]
    BY <1>9a DEF ReaderReads
  <2>2. n \in 0..MaxRejects
    OBVIOUS
  <2>3. rejects' \in [Flows -> 0..MaxRejects]
    BY <2>1, <2>2
  <2>4. QED
    BY <1>9a, <2>3 DEF ReaderReads
<1>10. ASSUME NEW f \in Flows, ReapEnds(f) \/ ReapLooks(f)
      PROVE  LoginTypeOK'
  <2>1. CASE ReapEnds(f)
    BY <2>1 DEF ReapEnds
  <2>2. CASE ReapLooks(f)
    BY <2>2 DEF ReapLooks
  <2>3. QED
    BY <1>10, <2>1, <2>2
<1>11. ASSUME NEW f \in Flows, ReapStores(f)
      PROVE  LoginTypeOK'
  <2>1. state' \in [Flows -> States]
    BY <1>11 DEF ReapStores
  <2>2. QED
    BY <1>11, <2>1 DEF ReapStores
<1>12. ASSUME NEW f \in Flows, IdleEnds(f) \/ IdleFires(f)
      PROVE  LoginTypeOK'
  BY <1>12 DEF IdleEnds, IdleFires
<1>13. ASSUME NEW f \in Flows, IdleFails(f)
      PROVE  LoginTypeOK'
  BY <1>13 DEF IdleFails
<1>14. ASSUME NEW f \in Flows, IdleKills(f)
      PROVE  LoginTypeOK'
  BY <1>14 DEF IdleKills
<1>15. ASSUME NEW f \in Flows, CancelArrives(f) \/ CancelStores(f)
      PROVE  LoginTypeOK'
  BY <1>15 DEF CancelArrives, CancelStores
<1>16. ASSUME NEW f \in Flows, CancelEnds(f)
      PROVE  LoginTypeOK'
  BY <1>16 DEF CancelEnds
<1>17. ASSUME NEW s \in Submits, NEW f \in Flows, SubmitArrives(s, f)
      PROVE  LoginTypeOK'
  BY <1>17 DEF SubmitArrives
<1>18. ASSUME NEW s \in Submits, SubmitStores(s) \/ SubmitMarks(s)
      PROVE  LoginTypeOK'
  BY <1>18 DEF SubmitStores, SubmitMarks
<1>19. ASSUME NEW s \in Submits, SubmitWrites(s)
      PROVE  LoginTypeOK'
  BY <1>19 DEF SubmitWrites
<1>20. ASSUME NEW s \in Submits, SubmitSeesExit(s)
      PROVE  LoginTypeOK'
  BY <1>20 DEF SubmitSeesExit
<1>21. ASSUME NEW s \in Submits, SubmitTimesOut(s)
      PROVE  LoginTypeOK'
  BY <1>21 DEF SubmitTimesOut
<1>22. ASSUME NEW s \in Submits, SubmitKills(s)
      PROVE  LoginTypeOK'
  BY <1>22 DEF SubmitKills
<1>23. ASSUME NEW s \in Submits,
             SubmitSeesRejection(s) \/ SubmitResets(s) \/ SubmitGivesUp(s)
      PROVE  LoginTypeOK'
  BY <1>23 DEF SubmitSeesRejection, SubmitResets, SubmitGivesUp
<1>24. CASE UNCHANGED allLoginVars
  BY <1>24 DEF allLoginVars
<1> HIDE DEF LoginTypeOK, flowVars, outVars, submitVars, Store, Kill, States, Terminal, Exited
<1>25. QED
  BY <1>1, <1>2, <1>3, <1>4, <1>5, <1>6, <1>7, <1>8, <1>9, <1>9a, <1>10, <1>11, <1>12,
     <1>13, <1>14, <1>15, <1>16, <1>17, <1>18, <1>19, <1>20, <1>21, <1>22, <1>23, <1>24
     DEF LoginNext, Start, Reader, Reap, Idle, Cancel, Submit

\* ClaudeLogin keeps its types.
THEOREM LoginTypeCorrect == LoginSpec => []LoginTypeOK
<1>1. LoginInit => LoginTypeOK
  BY DEF LoginInit, LoginTypeOK, States, Exited, Terminal
<1>2. QED
  BY <1>1, LoginTypeStep, PTL DEF LoginSpec

----------------------------------------------------------------------------
(* The end of a flow *)

\* A flow has no process before it is spawned, and its reaper goes on, and a
\* state or an answer reports success, only after it has exited.
DoneInv ==
  /\ \A f \in Flows :
       /\ start[f] \in {"none", "spawn"} => reaper[f] = "off" /\ state[f] # "done"
       /\ closed[f] => proc[f] \in Exited
       /\ reaper[f] = "off" => proc[f] = "none"
       /\ reaper[f] \in {"look", "store", "over"} => closed[f]
       /\ state[f] = "done" => proc[f] = "exit0" /\ closed[f]
  /\ \A s \in Submits : submit[s] = "ok" => proc[target[s]] = "exit0"
  /\ \A s \in Submits : submit[s] # "none" => target[s] \in Flows

\* An exited process stays as it exited.
LEMMA KillKeeps ==
  ASSUME LoginTypeOK, NEW f \in Flows, Kill(f)
  PROVE  /\ \A g \in Flows : proc[g] \in Exited => proc'[g] = proc[g]
         /\ \A g \in Flows : proc[g] = "none" => proc'[g] = "none"
BY DEF LoginTypeOK, Kill, Exited

\* Every step keeps DoneInv.
LEMMA DoneStep == LoginTypeOK /\ DoneInv /\ [LoginNext]_allLoginVars => DoneInv'
<1> SUFFICES ASSUME LoginTypeOK, DoneInv, [LoginNext]_allLoginVars
             PROVE  DoneInv'
  OBVIOUS
<1> USE DEF LoginTypeOK, DoneInv, flowVars, outVars, submitVars, Store, Exited, Terminal
<1>1. ASSUME NEW f \in Flows, ClaudeExits(f) \/ ClaudeRejects(f)
      PROVE  DoneInv'
  BY <1>1 DEF ClaudeExits, ClaudeRejects
<1>2. ASSUME NEW f \in Flows, StartChecks(f)
      PROVE  DoneInv'
  BY <1>2 DEF StartChecks
<1>3. ASSUME NEW f \in Flows, StartFails(f) \/ StartRecords(f)
      PROVE  DoneInv'
  BY <1>3 DEF StartFails, StartRecords
<1>4. ASSUME NEW f \in Flows, StartSpawns(f)
      PROVE  DoneInv'
  BY <1>4 DEF StartSpawns
<1>5. ASSUME NEW f \in Flows, StartReady(f) \/ StartSeesExit(f) \/ StartTimesOut(f)
      PROVE  DoneInv'
  BY <1>5 DEF StartReady, StartSeesExit, StartTimesOut
<1>6. ASSUME NEW f \in Flows, StartKills(f)
      PROVE  DoneInv'
  BY <1>6, KillKeeps DEF StartKills
<1>7. ASSUME NEW f \in Flows, Reader(f)
      PROVE  DoneInv'
  BY <1>7 DEF Reader, ReaderReads, ReaderFindsURL, ReaderEnds, ReaderStores, ReaderSignals
<1>8. ASSUME NEW f \in Flows, ReapEnds(f)
      PROVE  DoneInv'
  BY <1>8 DEF ReapEnds
<1>9. ASSUME NEW f \in Flows, ReapLooks(f) \/ ReapStores(f)
      PROVE  DoneInv'
  BY <1>9 DEF ReapLooks, ReapStores
<1>10. ASSUME NEW f \in Flows, IdleEnds(f) \/ IdleFires(f) \/ IdleFails(f)
      PROVE  DoneInv'
  BY <1>10 DEF IdleEnds, IdleFires, IdleFails
<1>11. ASSUME NEW f \in Flows, IdleKills(f)
      PROVE  DoneInv'
  BY <1>11, KillKeeps DEF IdleKills
<1>12. ASSUME NEW f \in Flows, CancelArrives(f) \/ CancelStores(f)
      PROVE  DoneInv'
  BY <1>12 DEF CancelArrives, CancelStores
<1>13. ASSUME NEW f \in Flows, CancelEnds(f)
      PROVE  DoneInv'
  BY <1>13, KillKeeps DEF CancelEnds
<1>14. ASSUME NEW s \in Submits, NEW f \in Flows, SubmitArrives(s, f)
      PROVE  DoneInv'
  BY <1>14 DEF SubmitArrives
<1>15. ASSUME NEW s \in Submits, SubmitStores(s) \/ SubmitTimesOut(s) \/ SubmitResets(s)
       PROVE  DoneInv'
  BY <1>15 DEF SubmitStores, SubmitTimesOut, SubmitResets
<1>16. ASSUME NEW s \in Submits,
              SubmitMarks(s) \/ SubmitWrites(s) \/ SubmitSeesRejection(s) \/ SubmitGivesUp(s)
       PROVE  DoneInv'
  BY <1>16 DEF SubmitMarks, SubmitWrites, SubmitSeesRejection, SubmitGivesUp
<1>17. ASSUME NEW s \in Submits, SubmitSeesExit(s)
       PROVE  DoneInv'
  BY <1>17 DEF SubmitSeesExit
<1>18. ASSUME NEW s \in Submits, SubmitKills(s)
       PROVE  DoneInv'
  BY <1>18, KillKeeps DEF SubmitKills
<1>19. CASE UNCHANGED allLoginVars
  BY <1>19 DEF allLoginVars
<1> HIDE DEF LoginTypeOK, DoneInv, flowVars, outVars, submitVars, Store, Exited, Terminal
<1>20. QED
  BY <1>1, <1>2, <1>3, <1>4, <1>5, <1>6, <1>7, <1>8, <1>9, <1>10, <1>11, <1>12, <1>13, <1>14,
     <1>15, <1>16, <1>17, <1>18, <1>19 DEF LoginNext, Start, Reap, Idle, Cancel, Submit

\* A login is reported done, as a state or as an answer, only if claude has
\* exited successfully.
THEOREM DoneCorrect == LoginSpec => []DoneIsReal
<1>1. LoginInit => DoneInv
  BY DEF LoginInit, DoneInv
<1>2. DoneInv => DoneIsReal
  BY DEF DoneInv, DoneIsReal
<1>3. QED
  BY <1>1, <1>2, LoginTypeCorrect, DoneStep, PTL DEF LoginSpec

----------------------------------------------------------------------------
(* Retries *)

\* The mark of a submission lies past the rejections in the output when it came.
RejectInv ==
  \A s \in Submits :
    /\ submit[s] # "none" => before[s] <= rejects[target[s]]
    /\ submit[s] \in {"write", "wait"} => before[s] <= mark[s]
    /\ submit[s] \in {"reset", "invalid"} => before[s] < rejects[target[s]]

\* Steps that read nothing and move no submission towards an answer keep it.
LEMMA QuietRejects ==
  ASSUME LoginTypeOK, RejectInv, UNCHANGED <<rejects, target, mark, before>>,
         \A s \in Submits : \/ submit'[s] = submit[s]
                            \/ submit'[s] \notin {"none", "write", "wait", "reset", "invalid"} /\ submit[s] # "none"
  PROVE  RejectInv'
BY DEF RejectInv

\* Every step keeps RejectInv.
LEMMA RejectStep == LoginTypeOK /\ RejectInv /\ [LoginNext]_allLoginVars => RejectInv'
<1> SUFFICES ASSUME LoginTypeOK, RejectInv, [LoginNext]_allLoginVars
             PROVE  RejectInv'
  OBVIOUS
<1>1. CASE UNCHANGED <<rejects, submitVars>>
  BY <1>1, QuietRejects DEF submitVars
<1>2. ASSUME NEW f \in Flows, ReaderReads(f)
      PROVE  RejectInv'
  <2>1. PICK n \in (rejects[f] + 1)..printed[f] : rejects' = [rejects EXCEPT ![f] = n]
    BY <1>2 DEF ReaderReads
  <2>2. rejects \in [Flows -> 0..MaxRejects] /\ printed[f] \in 0..MaxRejects
    BY DEF LoginTypeOK
  <2>3. \A g \in Flows : rejects[g] \in Nat /\ rejects'[g] \in Nat /\ rejects[g] <= rejects'[g]
    BY <2>1, <2>2
  <2>4. UNCHANGED <<submit, target, mark, before>>
    BY <1>2 DEF ReaderReads, submitVars
  <2>5. ASSUME NEW s \in Submits, submit[s] # "none"
        PROVE  target[s] \in Flows /\ before[s] \in Nat
    BY <2>5 DEF LoginTypeOK
  <2>6. \A s \in Submits : submit[s] # "none" =>
          /\ before[s] <= rejects'[target[s]]
          /\ before[s] < rejects[target[s]] => before[s] < rejects'[target[s]]
    BY <2>3, <2>5 DEF RejectInv
  <2>7. QED
    BY <2>4, <2>6 DEF RejectInv
<1>3. ASSUME NEW s \in Submits, NEW f \in Flows, SubmitArrives(s, f)
      PROVE  RejectInv'
  <2>1. before'[s] = rejects[f] /\ target'[s] = f /\ rejects' = rejects /\ mark' = mark
    BY <1>3 DEF SubmitArrives, LoginTypeOK, flowVars
  <2>2. submit'[s] \in {"verify", "refused"}
    BY <1>3 DEF SubmitArrives, LoginTypeOK
  <2>3. \A r \in Submits \ {s} :
          submit'[r] = submit[r] /\ target'[r] = target[r] /\ before'[r] = before[r]
    BY <1>3 DEF SubmitArrives, LoginTypeOK
  <2>4. rejects[f] \in Nat
    BY DEF LoginTypeOK
  <2>5. QED
    BY <2>1, <2>2, <2>3, <2>4 DEF RejectInv
<1>4. ASSUME NEW s \in Submits, SubmitMarks(s)
      PROVE  RejectInv'
  <2>1. /\ submit' = [submit EXCEPT ![s] = "write"]
        /\ mark' = [mark EXCEPT ![s] = rejects[target[s]]]
        /\ UNCHANGED <<rejects, target, before>> /\ submit[s] = "mark"
    BY <1>4 DEF SubmitMarks, flowVars
  <2>2. QED
    BY <2>1 DEF RejectInv, LoginTypeOK
<1>5. ASSUME NEW s \in Submits, SubmitWrites(s)
      PROVE  RejectInv'
  BY <1>5 DEF SubmitWrites, RejectInv, LoginTypeOK, flowVars
<1>6. ASSUME NEW s \in Submits, SubmitSeesRejection(s)
      PROVE  RejectInv'
  <2>1. /\ submit[s] = "wait" /\ rejects[target[s]] > mark[s]
        /\ submit' = [submit EXCEPT ![s] = "reset"]
        /\ UNCHANGED <<rejects, target, mark, before>>
    BY <1>6 DEF SubmitSeesRejection, flowVars
  <2>2. target[s] \in Flows /\ before[s] \in Nat /\ mark[s] \in Nat
    BY <2>1 DEF LoginTypeOK
  <2>3. rejects[target[s]] \in Nat /\ before[s] <= mark[s]
    BY <2>1, <2>2 DEF LoginTypeOK, RejectInv
  <2>4. before[s] < rejects[target[s]]
    BY <2>1, <2>2, <2>3
  <2>5. QED
    BY <2>1, <2>4 DEF RejectInv, LoginTypeOK
<1>7. ASSUME NEW s \in Submits, SubmitResets(s)
      PROVE  RejectInv'
  BY <1>7 DEF SubmitResets, RejectInv, LoginTypeOK, outVars
<1>8. ASSUME NEW s \in Submits, SubmitStores(s) \/ SubmitTimesOut(s) \/ SubmitKills(s)
      PROVE  RejectInv'
  <2>1. UNCHANGED <<rejects, target, mark, before>> /\ submit[s] # "none"
    BY <1>8 DEF SubmitStores, SubmitTimesOut, SubmitKills, outVars
  <2>2. submit' = [submit EXCEPT ![s] = "mark"] \/ submit' = [submit EXCEPT ![s] = "kill"]
          \/ submit' = [submit EXCEPT ![s] = "error"]
    BY <1>8 DEF SubmitStores, SubmitTimesOut, SubmitKills
  <2>3. QED
    BY <2>1, <2>2, QuietRejects DEF LoginTypeOK
<1>9. ASSUME NEW s \in Submits, SubmitSeesExit(s) \/ SubmitGivesUp(s)
      PROVE  RejectInv'
  <2>1. UNCHANGED <<rejects, target, mark, before>> /\ submit[s] # "none"
    BY <1>9 DEF SubmitSeesExit, SubmitGivesUp, flowVars
  <2>2. submit' = [submit EXCEPT ![s] = "ok"] \/ submit' = [submit EXCEPT ![s] = "error"]
          \/ submit' = [submit EXCEPT ![s] = "gone"]
    BY <1>9 DEF SubmitSeesExit, SubmitGivesUp
  <2>3. QED
    BY <2>1, <2>2, QuietRejects DEF LoginTypeOK
<1>10. ASSUME NEW f \in Flows, StartChecks(f) \/ Start(f) \/ (Reader(f) /\ ~ReaderReads(f))
       PROVE  RejectInv'
  BY <1>1, <1>10 DEF StartChecks, Start, StartFails, StartSpawns, StartRecords, StartReady,
     StartSeesExit, StartTimesOut, StartKills, Reader, ReaderFindsURL, ReaderEnds, ReaderStores,
     ReaderSignals, flowVars, outVars
<1>11. ASSUME NEW f \in Flows, ClaudeExits(f) \/ ClaudeRejects(f) \/ Reap(f) \/ Idle(f) \/ CancelArrives(f) \/ Cancel(f)
       PROVE  RejectInv'
  BY <1>1, <1>11 DEF ClaudeExits, ClaudeRejects, Reap, ReapEnds, ReapLooks, ReapStores, Idle, IdleEnds, IdleFires,
     IdleFails, IdleKills, CancelArrives, Cancel, CancelStores, CancelEnds, flowVars, outVars
<1>12. CASE UNCHANGED allLoginVars
  BY <1>1, <1>12 DEF allLoginVars, flowVars
<1>13. QED
  BY <1>2, <1>3, <1>4, <1>5, <1>6, <1>7, <1>8, <1>9, <1>10, <1>11, <1>12 DEF LoginNext, Submit, Reader

\* A retry is never told that its code is invalid because of a rejection
\* in the output before it came.
THEOREM RejectCorrect == LoginSpec => []RejectionIsNew
<1>1. LoginInit => RejectInv
  BY DEF LoginInit, RejectInv
<1>2. LoginTypeOK /\ RejectInv => RejectionIsNew
  <2> SUFFICES ASSUME LoginTypeOK, RejectInv, NEW s \in Submits, submit[s] = "invalid"
               PROVE  rejects[target[s]] > before[s]
    BY DEF RejectionIsNew
  <2>1. target[s] \in Flows /\ before[s] \in Nat /\ rejects[target[s]] \in Nat
    BY DEF LoginTypeOK
  <2>2. QED
    BY <2>1 DEF RejectInv
<1>3. QED
  BY <1>1, <1>2, LoginTypeCorrect, RejectStep, PTL DEF LoginSpec

----------------------------------------------------------------------------
(* Credentials *)

\* A save leaves tables of records, and at most one failure more.
LEMMA SaveTypes ==
  ASSUME StoreTypes, RequestTypes,
         NEW new \in [Writes -> Writes \cup {None}], NEW ok \in BOOLEAN, Save(new, ok)
  PROVE  /\ items' \in [Writes -> Writes \cup {None}]
         /\ disk' \in [Writes -> Writes \cup {None}]
         /\ failures' \in 0..MaxFailures
BY CredentialsAssumption DEF Save, Fails, StoreTypes, RequestTypes

\* The stores and the history of their records keep their types.
LEMMA StoreTyped == CredsTypeOK /\ [CredsNext]_credsVars => StoreTypes'
<1> SUFFICES ASSUME CredsTypeOK, [CredsNext]_credsVars PROVE StoreTypes'
  OBVIOUS
<1> USE DEF CredsTypeOK, StoreTypes
<1>1. ASSUME NEW w \in Writes, NEW p \in Writes, NEW ok \in BOOLEAN, Put(w, p, ok) PROVE StoreTypes'
  <2>1. [items EXCEPT ![p] = w] \in [Writes -> Writes \cup {None}]
    OBVIOUS
  <2>2. items[p] \in Writes \cup {None}
    OBVIOUS
  <2> QED
    BY <1>1, <2>1, <2>2, SaveTypes DEF Put, modeVars
<1>2. ASSUME NEW w \in Writes, NEW p \in Writes, NEW ok \in BOOLEAN, Delete(w, p, ok) PROVE StoreTypes'
  <2>1. [items EXCEPT ![p] = None] \in [Writes -> Writes \cup {None}]
    OBVIOUS
  <2>2. items[p] \in Writes
    BY <1>2 DEF Delete
  <2> QED
    BY <1>2, <2>1, <2>2, SaveTypes DEF Delete, modeVars
<1>3. ASSUME NEW l \in Logins, NEW p \in Writes, NEW ok \in BOOLEAN, LoginDeletes(l, p, ok)
      PROVE StoreTypes'
  <2>1. [items EXCEPT ![p] = None] \in [Writes -> Writes \cup {None}]
    OBVIOUS
  <2>2. CASE items[p] = None
    BY <1>3, <2>2 DEF LoginDeletes, storeVars, modeVars
  <2>3. CASE items[p] \in Writes
    <3>1. Save([items EXCEPT ![p] = None], ok)
      BY <1>3, <2>3, CredentialsAssumption DEF LoginDeletes
    <3>2. RequestTypes
      OBVIOUS
    <3>3. items' \in [Writes -> Writes \cup {None}] /\ disk' \in [Writes -> Writes \cup {None}]
      BY <2>1, <3>1, <3>2, SaveTypes
    <3>4. gone' \subseteq Writes /\ removed' \subseteq Writes
      BY <1>3, <2>3, CredentialsAssumption DEF LoginDeletes
    <3>5. UNCHANGED <<mode, modeDisk, kept>>
      BY <1>3 DEF LoginDeletes, modeVars
    <3> QED
      BY <3>3, <3>4, <3>5
  <2> QED
    BY <2>2, <2>3
<1>4. ASSUME NEW c \in Creates, NEW ok \in BOOLEAN, CreateMarks(c, ok) PROVE StoreTypes'
  <2>1. CASE items[asked[c]] = None
    BY <1>4, <2>1 DEF CreateMarks, storeVars, modeVars, pastVars
  <2>2. CASE items[asked[c]] # None
    <3>1. Save(items, ok)
      BY <1>4, <2>2 DEF CreateMarks
    <3>2. items \in [Writes -> Writes \cup {None}]
      OBVIOUS
    <3>3. RequestTypes
      OBVIOUS
    <3>4. items' \in [Writes -> Writes \cup {None}] /\ disk' \in [Writes -> Writes \cup {None}]
      BY <3>1, <3>2, <3>3, SaveTypes
    <3>5. UNCHANGED <<mode, modeDisk, kept, gone, removed>>
      BY <1>4 DEF CreateMarks, modeVars, pastVars
    <3> QED
      BY <3>4, <3>5
  <2> QED
    BY <2>1, <2>2
<1>5. ASSUME NEW w \in Writes, WriteLogsOut(w) \/ WriteSetsMode(w) PROVE StoreTypes'
  BY <1>5 DEF WriteLogsOut, WriteSetsMode, Patch, storeVars, modeVars, pastVars
<1>6. ASSUME NEW l \in Logins, ClaudeLogsIn(l) \/ LoginMissed(l) \/ LoginLists(l) \/ LoginSetsMode(l)
      PROVE StoreTypes'
  BY <1>6 DEF ClaudeLogsIn, LoginMissed, LoginLists, LoginSetsMode, Patch, storeVars, modeVars, pastVars
<1>7. CASE LogOut
  BY <1>7 DEF LogOut, storeVars, modeVars, pastVars
<1>8. ASSUME NEW c \in Creates, CreatePlain(c) \/ \E p \in Writes : CreateReads(c, p) PROVE StoreTypes'
  BY <1>8 DEF CreatePlain, CreateReads, storeVars, modeVars, pastVars
<1>9. ASSUME NEW c \in Creates, CreateStashes(c) \/ CreateLooks(c) \/ CreateUses(c) \/ CreateResets(c)
      PROVE StoreTypes'
  BY <1>9 DEF CreateStashes, CreateLooks, CreateUses, CreateResets, storeVars, modeVars, pastVars
<1>10. CASE Crash
  BY <1>10 DEF Crash, pastVars
<1>11. CASE UNCHANGED credsVars
  BY <1>11 DEF credsVars, storeVars, modeVars, pastVars
<1> HIDE DEF CredsTypeOK, StoreTypes
<1> QED
  BY <1>1, <1>2, <1>3, <1>4, <1>5, <1>6, <1>7, <1>8, <1>9, <1>10, <1>11 DEF CredsNext

\* Requests, logins and faults keep their types.
LEMMA RequestTyped == CredsTypeOK /\ [CredsNext]_credsVars => RequestTypes'
<1> SUFFICES ASSUME CredsTypeOK, [CredsNext]_credsVars PROVE RequestTypes'
  OBVIOUS
<1> USE CredentialsAssumption DEF CredsTypeOK, RequestTypes
<1>1. ASSUME NEW w \in Writes, NEW p \in Writes, NEW ok \in BOOLEAN, Put(w, p, ok) \/ Delete(w, p, ok)
      PROVE RequestTypes'
  <2>1. failures' \in 0..MaxFailures
    BY <1>1 DEF Put, Delete, Save, Fails
  <2>2. CASE Put(w, p, ok)
    BY <2>1, <2>2 DEF Put, loginVars
  <2>3. CASE Delete(w, p, ok)
    BY <2>1, <2>3 DEF Delete, loginVars
  <2> QED
    BY <1>1, <2>2, <2>3
<1>2. ASSUME NEW l \in Logins, NEW p \in Writes, NEW ok \in BOOLEAN, LoginDeletes(l, p, ok)
      PROVE RequestTypes'
  <2>1. failures' \in 0..MaxFailures
    BY <1>2 DEF LoginDeletes, Save, Fails
  <2> QED
    BY <1>2, <2>1 DEF LoginDeletes
<1>3. ASSUME NEW c \in Creates, NEW ok \in BOOLEAN, CreateMarks(c, ok) PROVE RequestTypes'
  <2>1. failures' \in 0..MaxFailures
    BY <1>3 DEF CreateMarks, Save, Fails
  <2> QED
    BY <1>3, <2>1 DEF CreateMarks, loginVars
<1>4. ASSUME NEW w \in Writes, WriteLogsOut(w) \/ WriteSetsMode(w) PROVE RequestTypes'
  <2>1. failures' \in 0..MaxFailures
    BY <1>4 DEF WriteLogsOut, WriteSetsMode, Patch, Fails
  <2>2. CASE WriteLogsOut(w)
    BY <2>1, <2>2 DEF WriteLogsOut, loginVars
  <2>3. CASE WriteSetsMode(w)
    BY <2>1, <2>3 DEF WriteSetsMode, loginVars
  <2> QED
    BY <1>4, <2>2, <2>3
<1>5. ASSUME NEW l \in Logins, LoginSetsMode(l) PROVE RequestTypes'
  <2>1. failures' \in 0..MaxFailures
    BY <1>5 DEF LoginSetsMode, Patch, Fails
  <2> QED
    BY <1>5, <2>1 DEF LoginSetsMode
<1>6. ASSUME NEW l \in Logins, ClaudeLogsIn(l) \/ LoginMissed(l) \/ LoginLists(l) PROVE RequestTypes'
  BY <1>6 DEF ClaudeLogsIn, LoginMissed, LoginLists, Stored, faultVars
<1>7. CASE LogOut
  BY <1>7 DEF LogOut, loginVars, faultVars
<1>8. ASSUME NEW c \in Creates, CreatePlain(c) \/ \E p \in Writes : CreateReads(c, p)
      PROVE  RequestTypes'
  BY <1>8 DEF CreatePlain, CreateReads, loginVars, faultVars
<1>9. ASSUME NEW c \in Creates, CreateStashes(c) \/ CreateLooks(c) \/ CreateUses(c) \/ CreateResets(c)
      PROVE RequestTypes'
  BY <1>9 DEF CreateStashes, CreateLooks, CreateUses, CreateResets, loginVars, faultVars
<1>10. CASE Crash
  BY <1>10 DEF Crash
<1>11. CASE UNCHANGED credsVars
  BY <1>11 DEF credsVars, loginVars, faultVars
<1> HIDE DEF CredsTypeOK, RequestTypes
<1> QED
  BY <1>1, <1>2, <1>3, <1>4, <1>5, <1>6, <1>7, <1>8, <1>9, <1>10, <1>11 DEF CredsNext

\* Sessions under creation keep their types.
LEMMA CreateTyped ==
  CredsTypeOK /\ [CredsNext]_credsVars => CreateTypes' /\ (hostSlot' # None => Creating' # {})
<1> DEFINE Goal == CreateTypes' /\ (hostSlot' # None => Creating' # {})
<1> SUFFICES ASSUME CredsTypeOK, [CredsNext]_credsVars PROVE Goal
  OBVIOUS
<1> USE DEF CredsTypeOK, CreateTypes
<1>1. ASSUME UNCHANGED <<createVars, hostSlot>> PROVE Goal
  BY <1>1 DEF createVars, Creating
<1>2. ASSUME NEW c \in Creates, CreatePlain(c) PROVE Goal
  BY <1>2 DEF CreatePlain, Begin, Creating
<1>3. ASSUME NEW c \in Creates, NEW p \in Writes, CreateReads(c, p) PROVE Goal
  BY <1>3 DEF CreateReads, Begin, Creating, StoreTypes
<1>4. ASSUME NEW c \in Creates, NEW ok \in BOOLEAN, CreateMarks(c, ok) PROVE Goal
  BY <1>4 DEF CreateMarks, Creating
<1>5. ASSUME NEW c \in Creates, CreateStashes(c) PROVE Goal
  BY <1>5 DEF CreateStashes, Creating
<1>6. ASSUME NEW c \in Creates, CreateLooks(c) PROVE Goal
  BY <1>6 DEF CreateLooks, Creating
<1>7. ASSUME NEW c \in Creates, CreateUses(c) PROVE Goal
  BY <1>7 DEF CreateUses, Creating
<1>8. ASSUME NEW c \in Creates, CreateResets(c) PROVE Goal
  BY <1>8 DEF CreateResets, Creating
<1>9. CASE Crash
  BY <1>9 DEF Crash, Creating
<1> HIDE DEF CredsTypeOK, CreateTypes, Goal
<1>10. ASSUME NEW w \in Writes,
              \/ \E p \in Writes, ok \in BOOLEAN : Put(w, p, ok) \/ Delete(w, p, ok)
              \/ WriteLogsOut(w) \/ WriteSetsMode(w)
       PROVE Goal
  BY <1>1, <1>10 DEF Put, Delete, WriteLogsOut, WriteSetsMode
<1>11. ASSUME NEW l \in Logins,
              \/ ClaudeLogsIn(l) \/ LoginMissed(l) \/ LoginLists(l) \/ LoginSetsMode(l)
              \/ \E p \in Writes, ok \in BOOLEAN : LoginDeletes(l, p, ok)
       PROVE Goal
  BY <1>1, <1>11 DEF ClaudeLogsIn, LoginMissed, LoginLists, LoginSetsMode, LoginDeletes
<1>12. CASE LogOut \/ UNCHANGED credsVars
  BY <1>1, <1>12 DEF LogOut, credsVars
<1> QED
  BY <1>2, <1>3, <1>4, <1>5, <1>6, <1>7, <1>8, <1>9, <1>10, <1>11, <1>12 DEF CredsNext

\* Credentials keeps its types; in particular no host waits in the shared
\* slot when no session is being created.
THEOREM CredsTypeCorrect == CredsSpec => []CredsTypeOK
<1>1. CredsInit => CredsTypeOK
  <2> SUFFICES ASSUME CredsInit PROVE CredsTypeOK
    OBVIOUS
  <2>1. StoreTypes
    BY DEF CredsInit, StoreTypes
  <2>2. RequestTypes
    <3>1. todo \in [Logins -> SUBSET Writes] /\ login \in [Logins -> {"none", "exited", "delete", "ok", "error"}]
      BY DEF CredsInit
    <3>2. write \in [Writes -> {"none", "logout", "mode", "ok", "failed", "dead"}]
      BY DEF CredsInit
    <3>3. failures \in 0..MaxFailures /\ crashes \in 0..MaxCrashes
      BY CredentialsAssumption DEF CredsInit
    <3>4. creds \in BOOLEAN /\ missed \in BOOLEAN /\ raced \in BOOLEAN
      BY DEF CredsInit
    <3> QED
      BY <3>1, <3>2, <3>3, <3>4 DEF RequestTypes
  <2>3. CreateTypes
    BY DEF CredsInit, CreateTypes
  <2>4. hostSlot = None
    BY DEF CredsInit
  <2> QED
    BY <2>1, <2>2, <2>3, <2>4 DEF CredsTypeOK
<1>2. CredsTypeOK /\ [CredsNext]_credsVars => CredsTypeOK'
  BY StoreTyped, RequestTyped, CreateTyped DEF CredsTypeOK
<1> QED
  BY <1>1, <1>2, PTL DEF CredsSpec

----------------------------------------------------------------------------
(* What a request was told survives *)

In(f, r) == \E q \in Writes : f[q] = r

Unique(f) == \A p, q \in Writes : f[p] = f[q] /\ f[p] # None => p = q

Fresh == \A w \in Writes : write[w] = "none" => ~In(items, w) /\ ~In(disk, w) /\ w \notin gone

DiskKnown == \A p \in Writes : disk[p] # None => In(items, disk[p]) \/ disk[p] \in removed

KeptThere == \A r \in kept : In(disk, r) \/ r \in removed

GoneAway == \A r \in gone : r # None /\ ~In(items, r) /\ ~In(disk, r)

SurviveInv == Unique(items) /\ Unique(disk) /\ Fresh /\ DiskKnown /\ KeptThere /\ GoneAway

\* A store's change of one entry, to a record no one has written yet or to
\* none, with the history as the handlers keep it.
LEMMA ChangeSurvives ==
  ASSUME StoreTypes, SurviveInv, None \notin Writes,
         NEW p \in Writes, NEW x \in Writes \cup {None}, NEW ok \in BOOLEAN,
         x # None => write[x] = "none",
         Save([items EXCEPT ![p] = x], ok),
         removed' = removed \cup ({items[p]} \ {None}),
         gone' = IF ok THEN gone \cup ({items[p]} \ {None}) ELSE gone,
         kept' = IF ok THEN kept \cup ({x} \ {None}) ELSE kept,
         \A w \in Writes : write'[w] = "none" => write[w] = "none" /\ w # x
  PROVE  SurviveInv'
<1>1. items \in [Writes -> Writes \cup {None}] /\ items' = [items EXCEPT ![p] = x]
  BY DEF StoreTypes, Save
<1>2. items'[p] = x /\ \A q \in Writes : q # p => items'[q] = items[q]
  BY <1>1
<1>3. x # None => ~In(items, x) /\ ~In(disk, x) /\ x \notin gone
  BY DEF SurviveInv, Fresh
<1>4. IF ok THEN disk' = items' ELSE disk' = disk
  BY <1>1 DEF Save
<1>5. Unique(items)'
  BY <1>2, <1>3 DEF SurviveInv, Unique, In
<1>6. Unique(disk)'
  BY <1>4, <1>5 DEF SurviveInv, Unique
<1>7. \A r \in Writes : In(items, r) => In(items', r) \/ r = items[p]
  BY <1>2 DEF In
<1>8. \A r : In(items', r) => r = x \/ In(items, r)
  BY <1>2 DEF In
<1>9. Fresh'
  BY <1>4, <1>8, <1>2 DEF SurviveInv, Fresh, In
<1>10. DiskKnown'
  <2> SUFFICES ASSUME NEW q \in Writes, disk'[q] # None
      PROVE  In(items', disk'[q]) \/ disk'[q] \in removed'
    BY DEF DiskKnown, In
  <2>1. CASE ok
    BY <1>4, <2>1 DEF In
  <2>2. CASE ~ok
    <3>1. disk'[q] = disk[q] /\ disk[q] \in Writes
      BY <1>4, <2>2 DEF StoreTypes
    <3>2. In(items, disk[q]) \/ disk[q] \in removed
      BY <3>1 DEF SurviveInv, DiskKnown
    <3> QED
      BY <3>1, <3>2, <1>7
  <2> QED
    BY <2>1, <2>2
<1>11. KeptThere'
  <2> SUFFICES ASSUME NEW r \in kept' PROVE In(disk', r) \/ r \in removed'
    BY DEF KeptThere, In
  <2>1. CASE r = x /\ ok
    BY <2>1, <1>2, <1>4 DEF In
  <2>2. CASE r \in kept
    <3>1. r \in Writes
      BY <2>2 DEF StoreTypes
    <3>2. r \in removed \/ In(items, r)
      <4>1. In(disk, r) \/ r \in removed
        BY <2>2 DEF SurviveInv, KeptThere
      <4> QED
        BY <4>1, <3>1 DEF SurviveInv, DiskKnown, In
    <3>3. r \in removed \/ In(disk, r)
      BY <2>2 DEF SurviveInv, KeptThere
    <3> QED
      BY <3>1, <3>2, <3>3, <1>4, <1>7
  <2> QED
    BY <2>1, <2>2
<1>12. GoneAway'
  <2> SUFFICES ASSUME NEW r \in gone' PROVE r # None /\ ~In(items', r) /\ ~In(disk', r)
    BY DEF GoneAway, In
  <2>1. CASE r \in gone
    BY <2>1, <1>3, <1>4, <1>8 DEF SurviveInv, GoneAway
  <2>2. CASE r = items[p] /\ r # None /\ ok
    <3>1. r # x
      BY <2>2, <1>3 DEF In
    <3>2. \A q \in Writes : q # p => items[q] # r
      BY <2>2 DEF SurviveInv, Unique
    <3>3. ~In(items', r)
      BY <3>1, <3>2, <1>2 DEF In
    <3> QED
      BY <2>2, <3>3, <1>4
  <2> QED
    BY <2>1, <2>2
<1> QED
  BY <1>5, <1>6, <1>9, <1>10, <1>11, <1>12 DEF SurviveInv

\* SurviveInv is inductive.
LEMMA SurviveStep == CredsTypeOK /\ SurviveInv /\ [CredsNext]_credsVars => SurviveInv'
<1> SUFFICES ASSUME CredsTypeOK, SurviveInv, [CredsNext]_credsVars PROVE SurviveInv'
  OBVIOUS
<1>0. StoreTypes /\ None \notin Writes
  BY CredentialsAssumption DEF CredsTypeOK
<1>w. write \in [Writes -> {"none", "logout", "mode", "ok", "failed", "dead"}]
  BY DEF CredsTypeOK, RequestTypes
<1>1. ASSUME NEW w \in Writes, NEW p \in Writes, NEW ok \in BOOLEAN, Put(w, p, ok) PROVE SurviveInv'
  <2>1. write[w] = "none" /\ Save([items EXCEPT ![p] = w], ok)
    BY <1>1 DEF Put
  <2>2. /\ removed' = removed \cup ({items[p]} \ {None})
        /\ gone' = IF ok THEN gone \cup ({items[p]} \ {None}) ELSE gone
        /\ kept' = IF ok THEN kept \cup ({w} \ {None}) ELSE kept
    BY <1>1, <1>0 DEF Put
  <2>3. \A v \in Writes : write'[v] = "none" => write[v] = "none" /\ v # w
    BY <1>1, <1>w DEF Put
  <2> QED
    BY <1>0, <2>1, <2>2, <2>3, ChangeSurvives
<1>2. ASSUME NEW w \in Writes, NEW p \in Writes, NEW ok \in BOOLEAN, Delete(w, p, ok) PROVE SurviveInv'
  <2>1. Save([items EXCEPT ![p] = None], ok)
    BY <1>2 DEF Delete
  <2>2. /\ removed' = removed \cup ({items[p]} \ {None})
        /\ gone' = IF ok THEN gone \cup ({items[p]} \ {None}) ELSE gone
        /\ kept' = IF ok THEN kept \cup ({None} \ {None}) ELSE kept
    BY <1>2 DEF Delete
  <2>3. \A v \in Writes : write'[v] = "none" => write[v] = "none" /\ v # None
    BY <1>2, <1>w, <1>0 DEF Delete
  <2> QED
    BY <1>0, <2>1, <2>2, <2>3, ChangeSurvives
<1>u. ASSUME UNCHANGED <<items, disk, kept, gone, removed>>,
             \A v \in Writes : write'[v] = "none" => write[v] = "none"
      PROVE  SurviveInv'
  BY <1>u DEF SurviveInv, Unique, Fresh, DiskKnown, KeptThere, GoneAway, In
<1>3. ASSUME NEW l \in Logins, NEW p \in Writes, NEW ok \in BOOLEAN, LoginDeletes(l, p, ok)
      PROVE SurviveInv'
  <2>0. UNCHANGED <<write, kept>>
    BY <1>3 DEF LoginDeletes
  <2>1. CASE items[p] = None
    BY <1>3, <2>0, <2>1, <1>u DEF LoginDeletes, storeVars
  <2>2. CASE items[p] # None
    <3>1. Save([items EXCEPT ![p] = None], ok)
      BY <1>3, <2>2 DEF LoginDeletes
    <3>2. /\ removed' = removed \cup ({items[p]} \ {None})
          /\ gone' = IF ok THEN gone \cup ({items[p]} \ {None}) ELSE gone
          /\ kept' = IF ok THEN kept \cup ({None} \ {None}) ELSE kept
      BY <1>3, <2>0, <2>2 DEF LoginDeletes
    <3>3. \A v \in Writes : write'[v] = "none" => write[v] = "none" /\ v # None
      BY <2>0, <1>0
    <3> QED
      BY <1>0, <3>1, <3>2, <3>3, ChangeSurvives
  <2> QED
    BY <2>1, <2>2
<1>4. ASSUME NEW c \in Creates, NEW ok \in BOOLEAN, CreateMarks(c, ok) PROVE SurviveInv'
  <2>1. items' = items /\ disk' \in {disk, items} /\ UNCHANGED <<write, kept, gone, removed>>
    BY <1>4 DEF CreateMarks, Save, storeVars, pastVars
  <2>2. CASE disk' = disk
    BY <2>1, <2>2, <1>u
  <2>3. CASE disk' = items
    <3>1. Unique(items)' /\ Unique(disk)' /\ Fresh' /\ DiskKnown' /\ GoneAway'
      BY <2>1, <2>3 DEF SurviveInv, Unique, Fresh, DiskKnown, GoneAway, In
    <3>2. KeptThere'
      BY <2>1, <2>3, <1>0 DEF SurviveInv, DiskKnown, KeptThere, In, StoreTypes
    <3> QED
      BY <3>1, <3>2 DEF SurviveInv
  <2> QED
    BY <2>1, <2>2, <2>3
<1>5. CASE Crash
  <2>1. items' = disk /\ UNCHANGED <<disk, kept, gone, removed>>
    BY <1>5 DEF Crash, pastVars
  <2>2. \A v \in Writes : write'[v] = "none" => write[v] = "none"
    BY <1>5 DEF Crash
  <2> QED
    BY <2>1, <2>2 DEF SurviveInv, Unique, Fresh, DiskKnown, KeptThere, GoneAway, In
<1>6. ASSUME NEW w \in Writes, WriteLogsOut(w) \/ WriteSetsMode(w) PROVE SurviveInv'
  BY <1>6, <1>u, <1>w DEF WriteLogsOut, WriteSetsMode, storeVars, pastVars
<1>7. ASSUME UNCHANGED <<storeVars, pastVars, write>> PROVE SurviveInv'
  BY <1>7, <1>u DEF storeVars, pastVars
<1>8. ASSUME NEW l \in Logins, ClaudeLogsIn(l) \/ LoginMissed(l) \/ LoginLists(l) \/ LoginSetsMode(l)
      PROVE SurviveInv'
  BY <1>8, <1>7 DEF ClaudeLogsIn, LoginMissed, LoginLists, LoginSetsMode
<1>9. ASSUME NEW c \in Creates,
             \/ CreatePlain(c) \/ CreateStashes(c) \/ CreateLooks(c) \/ CreateUses(c) \/ CreateResets(c)
             \/ \E p \in Writes : CreateReads(c, p)
      PROVE SurviveInv'
  BY <1>9, <1>7
     DEF CreatePlain, CreateStashes, CreateLooks, CreateUses, CreateResets, CreateReads
<1>10. CASE LogOut \/ UNCHANGED credsVars
  BY <1>10, <1>7 DEF LogOut, credsVars
<1> QED
  BY <1>1, <1>2, <1>3, <1>4, <1>5, <1>6, <1>8, <1>9, <1>10 DEF CredsNext

\* Through failed saves and restarts, a record whose writing was answered
\* with success is in the file unless it was removed since, and one whose
\* removal was answered with success never comes back.
THEOREM SurvivesCorrect == CredsSpec => []AnsweredSurvives
<1>1. CredsInit => SurviveInv
  <2> SUFFICES ASSUME CredsInit PROVE SurviveInv
    OBVIOUS
  <2>1. \A p \in Writes : items[p] = None /\ disk[p] = None
    BY DEF CredsInit
  <2>2. kept = {} /\ gone = {}
    BY DEF CredsInit
  <2>3. \A w \in Writes : ~In(items, w) /\ ~In(disk, w)
    BY <2>1, CredentialsAssumption DEF In
  <2> QED
    BY <2>1, <2>2, <2>3 DEF SurviveInv, Unique, Fresh, DiskKnown, KeptThere, GoneAway
<1>2. CredsTypeOK /\ SurviveInv => AnsweredSurvives
  <2> SUFFICES ASSUME StoreTypes, SurviveInv PROVE AnsweredSurvives
    BY DEF CredsTypeOK
  <2>1. \A r : In(items, r) <=> r \in Range(items)
    BY DEF In, Range, StoreTypes
  <2>2. \A r : In(disk, r) <=> r \in Range(disk)
    BY DEF In, Range, StoreTypes
  <2> QED
    BY <2>1, <2>2 DEF SurviveInv, KeptThere, GoneAway, AnsweredSurvives
<1> QED
  BY <1>1, <1>2, SurviveStep, CredsTypeCorrect, PTL DEF CredsSpec

----------------------------------------------------------------------------
(* One way to log in at a time *)

Seen == failures = 0 /\ crashes = 0 /\ ~missed

\* A request is under way that takes the provider, or the subscription, away.
Closing(p) ==
  \/ \E w \in Writes : write[w] = "logout"
  \/ \E l \in Logins : login[l] = "exited" \/ (login[l] = "delete" /\ p \in todo[l])

ExcludeInv == Seen => \A p \in Writes : creds /\ items[p] # None => Closing(p)

\* What no fault has yet happened to, none had happened to before.
LEMMA SeenBefore == CredsTypeOK /\ [CredsNext]_credsVars /\ Seen' => Seen
<1> SUFFICES ASSUME CredsTypeOK, [CredsNext]_credsVars, ~Seen PROVE ~Seen'
  OBVIOUS
<1>0. failures \in Nat /\ crashes \in Nat
  BY CredentialsAssumption DEF CredsTypeOK, RequestTypes
<1> DEFINE Later == /\ failures' \in {failures, failures + 1}
                    /\ crashes' \in {crashes, crashes + 1}
                    /\ missed => missed'
<1>1. Later
  <2>1. ASSUME NEW w \in Writes, NEW p \in Writes, NEW ok \in BOOLEAN, Put(w, p, ok) \/ Delete(w, p, ok)
        PROVE Later
    BY <2>1 DEF Put, Delete, Save, Fails
  <2>2. ASSUME NEW w \in Writes, WriteLogsOut(w) \/ WriteSetsMode(w) PROVE Later
    BY <2>2 DEF WriteLogsOut, WriteSetsMode, Patch, Fails
  <2>3. ASSUME NEW l \in Logins, ClaudeLogsIn(l) \/ LoginMissed(l) \/ LoginLists(l) \/ LoginSetsMode(l)
        PROVE Later
    BY <2>3 DEF ClaudeLogsIn, LoginMissed, LoginLists, LoginSetsMode, Patch, Fails, faultVars
  <2>4. ASSUME NEW l \in Logins, NEW p \in Writes, NEW ok \in BOOLEAN, LoginDeletes(l, p, ok)
        PROVE Later
    BY <2>4 DEF LoginDeletes, Save, Fails
  <2>5. CASE LogOut \/ UNCHANGED credsVars
    BY <2>5 DEF LogOut, credsVars, faultVars
  <2>6. ASSUME NEW c \in Creates,
               \/ CreatePlain(c) \/ CreateStashes(c) \/ CreateLooks(c) \/ CreateUses(c) \/ CreateResets(c)
               \/ \E p \in Writes : CreateReads(c, p)
        PROVE Later
    BY <2>6 DEF CreatePlain, CreateStashes, CreateLooks, CreateUses, CreateResets, CreateReads, faultVars
  <2>7. ASSUME NEW c \in Creates, NEW ok \in BOOLEAN, CreateMarks(c, ok) PROVE Later
    BY <2>7 DEF CreateMarks, Save, Fails
  <2>8. CASE Crash
    BY <2>8 DEF Crash
  <2> QED
    BY <2>1, <2>2, <2>3, <2>4, <2>5, <2>6, <2>7, <2>8 DEF CredsNext
<1> QED
  BY <1>0, <1>1 DEF Seen

\* ExcludeInv is inductive.
LEMMA ExcludeStep == CredsTypeOK /\ ExcludeInv /\ [CredsNext]_credsVars => ExcludeInv'
<1> SUFFICES ASSUME CredsTypeOK, ExcludeInv, [CredsNext]_credsVars, Seen',
                    NEW p \in Writes, creds', items'[p] # None
             PROVE  Closing(p)'
  BY DEF ExcludeInv
<1>s. /\ items \in [Writes -> Writes \cup {None}]
      /\ write \in [Writes -> {"none", "logout", "mode", "ok", "failed", "dead"}]
      /\ login \in [Logins -> {"none", "exited", "delete", "ok", "error"}]
      /\ todo \in [Logins -> SUBSET Writes]
      /\ failures \in Nat /\ crashes \in Nat
      /\ None \notin Writes
  BY CredentialsAssumption DEF CredsTypeOK, StoreTypes, RequestTypes
<1>0. Seen /\ failures = 0 /\ failures' = 0 /\ crashes = 0 /\ crashes' = 0
  BY SeenBefore DEF Seen
<1>i. creds /\ items[p] # None => Closing(p)
  BY <1>0 DEF ExcludeInv
<1>u. ASSUME UNCHANGED <<items, creds, write, login, todo>> PROVE Closing(p)'
  BY <1>i, <1>u DEF Closing
<1>1. ASSUME NEW w \in Writes, NEW q \in Writes, NEW ok \in BOOLEAN, Put(w, q, ok) PROVE Closing(p)'
  <2>1. ok
    BY <1>1, <1>0 DEF Put, Save, Fails
  <2>2. write'[w] = "logout"
    BY <1>1, <2>1, <1>s DEF Put
  <2> QED
    BY <2>2 DEF Closing
<1>2. ASSUME NEW w \in Writes, NEW q \in Writes, NEW ok \in BOOLEAN, Delete(w, q, ok) PROVE Closing(p)'
  <2>1. items[p] # None /\ UNCHANGED <<creds, login, todo>>
    BY <1>2, <1>s DEF Delete, Save, loginVars
  <2>2. \A v \in Writes : write[v] = "logout" => write'[v] = "logout"
    BY <1>2, <1>s DEF Delete
  <2> QED
    BY <1>i, <2>1, <2>2 DEF Closing
<1>3. ASSUME NEW w \in Writes, WriteLogsOut(w) PROVE Closing(p)'
  BY <1>3, <1>0 DEF WriteLogsOut, Fails
<1>4. ASSUME NEW w \in Writes, WriteSetsMode(w) PROVE Closing(p)'
  <2>1. items[p] # None /\ UNCHANGED <<creds, login, todo>>
    BY <1>4 DEF WriteSetsMode, storeVars, loginVars
  <2>2. \A v \in Writes : write[v] = "logout" => write'[v] = "logout"
    BY <1>4, <1>s DEF WriteSetsMode
  <2> QED
    BY <1>i, <2>1, <2>2 DEF Closing
<1>5. ASSUME NEW l \in Logins, ClaudeLogsIn(l) PROVE Closing(p)'
  BY <1>5, <1>s DEF ClaudeLogsIn, Closing
<1>6. ASSUME NEW l \in Logins, LoginMissed(l) PROVE Closing(p)'
  BY <1>6, <1>0 DEF LoginMissed, Seen
<1>7. ASSUME NEW l \in Logins, LoginLists(l) PROVE Closing(p)'
  <2>1. items[p] # None /\ p \in Stored
    BY <1>7 DEF LoginLists, storeVars, Stored
  <2>2. login'[l] = "delete" /\ p \in todo'[l]
    BY <1>7, <2>1, <1>s DEF LoginLists
  <2> QED
    BY <2>2 DEF Closing
<1>8. ASSUME NEW l \in Logins, LoginSetsMode(l) PROVE Closing(p)'
  <2>1. items[p] # None /\ UNCHANGED <<creds, write, todo>>
    BY <1>8 DEF LoginSetsMode, storeVars
  <2>2. login[l] = "delete" /\ p \notin todo[l] /\ \A m \in Logins : m # l => login'[m] = login[m]
    BY <1>8, <1>s DEF LoginSetsMode
  <2> QED
    BY <1>i, <2>1, <2>2 DEF Closing
<1>9. ASSUME NEW l \in Logins, NEW q \in Writes, NEW ok \in BOOLEAN, LoginDeletes(l, q, ok)
      PROVE Closing(p)'
  <2>1. items[p] # None /\ p # q
    BY <1>9, <1>s DEF LoginDeletes, Save, storeVars
  <2>2. UNCHANGED <<creds, write, login>>
    BY <1>9 DEF LoginDeletes
  <2>3. \A m \in Logins : p \in todo[m] => p \in todo'[m]
    BY <1>9, <2>1, <1>s DEF LoginDeletes
  <2> QED
    BY <1>i, <2>1, <2>2, <2>3 DEF Closing
<1>10. ASSUME NEW c \in Creates, NEW ok \in BOOLEAN, CreateMarks(c, ok) PROVE Closing(p)'
  BY <1>10, <1>u DEF CreateMarks, Save, storeVars, loginVars
<1>11. ASSUME NEW c \in Creates,
             \/ CreatePlain(c) \/ CreateStashes(c) \/ CreateLooks(c) \/ CreateUses(c) \/ CreateResets(c)
             \/ \E q \in Writes : CreateReads(c, q)
      PROVE Closing(p)'
  BY <1>11, <1>u
     DEF CreatePlain, CreateStashes, CreateLooks, CreateUses, CreateResets, CreateReads, storeVars, loginVars
<1>12. CASE LogOut
  BY <1>12 DEF LogOut
<1>13. CASE Crash
  BY <1>13, <1>0 DEF Crash
<1>14. CASE UNCHANGED credsVars
  BY <1>14, <1>u DEF credsVars, storeVars, loginVars
<1> QED
  BY <1>1, <1>2, <1>3, <1>4, <1>5, <1>6, <1>7, <1>8, <1>9, <1>10, <1>11, <1>12, <1>13, <1>14 DEF CredsNext

\* Once provider requests and logins are over, the subscription and an API
\* provider are not both there, if no step failed and no login was missed.
THEOREM NotBothCorrect == CredsSpec => []NotBoth
<1>1. CredsInit => ExcludeInv
  BY DEF CredsInit, ExcludeInv
<1>2. ExcludeInv => NotBoth
  BY DEF ExcludeInv, NotBoth, Seen, Closing, Quiet, Writing, LoggingIn, Stored
<1> QED
  BY <1>1, <1>2, ExcludeStep, CredsTypeCorrect, PTL DEF CredsSpec

----------------------------------------------------------------------------
(* The preferred mode *)

\* Provider requests and logins exclude one another (that is: ~raced) ...
Apart == Writing = {} \/ LoggingIn = {}

\* ... a request that is about to set the mode has logged claude out ...
LoggedOut == (\E w \in Writes : write[w] = "mode") => ~creds

\* ... and one that has yet to do so is why the mode and claude disagree ...
KeyMode ==
  LoggingIn = {} /\ creds /\ mode = "api_key" => \E w \in Writes : write[w] = "logout"

\* ... a login has listed whatever provider is still there ...
AllListed == \A l \in Logins : login[l] = "delete" => Stored \subseteq todo[l]

\* ... and has deleted them all when it sets the mode.
NoneLeft == Writing = {} /\ LoggingIn = {} /\ mode = "subscription" => Stored = {}

Tidy == Seen /\ ~raced

ModeInv == Tidy => Apart /\ LoggedOut /\ KeyMode /\ AllListed /\ NoneLeft

\* No step forgets a race.
LEMMA TidyBefore == CredsTypeOK /\ [CredsNext]_credsVars /\ Tidy' => Tidy
<1> SUFFICES ASSUME CredsTypeOK, [CredsNext]_credsVars, raced PROVE raced'
  BY SeenBefore DEF Tidy
<1>1. CASE CredsNext
  BY <1>1 DEF CredsNext, Put, Delete, WriteLogsOut, WriteSetsMode, ClaudeLogsIn, LoginMissed, LoginLists,
     LoginSetsMode, LoginDeletes, LogOut, CreatePlain, CreateStashes, CreateLooks, CreateUses,
     CreateResets, CreateReads, CreateMarks, Crash
<1> QED
  BY <1>1 DEF credsVars

\* ModeInv is inductive.
LEMMA ModeStep == CredsTypeOK /\ ModeInv /\ [CredsNext]_credsVars => ModeInv'
<1> DEFINE Goal == Apart' /\ LoggedOut' /\ KeyMode' /\ AllListed' /\ NoneLeft'
<1> SUFFICES ASSUME CredsTypeOK, ModeInv, [CredsNext]_credsVars, Tidy' PROVE Goal
  BY DEF ModeInv
<1>s. /\ items \in [Writes -> Writes \cup {None}]
      /\ write \in [Writes -> {"none", "logout", "mode", "ok", "failed", "dead"}]
      /\ login \in [Logins -> {"none", "exited", "delete", "ok", "error"}]
      /\ todo \in [Logins -> SUBSET Writes]
      /\ None \notin Writes
  BY CredentialsAssumption DEF CredsTypeOK, StoreTypes, RequestTypes
<1>0. Tidy /\ failures = 0 /\ failures' = 0 /\ crashes = 0 /\ crashes' = 0 /\ ~missed' /\ ~raced'
  BY TidyBefore DEF Tidy, Seen
<1>f. ~Fails
  BY <1>0 DEF Fails
<1>i. Apart /\ LoggedOut /\ KeyMode /\ AllListed /\ NoneLeft
  BY <1>0 DEF ModeInv
<1>u. ASSUME items' = items, UNCHANGED <<mode, write, login, todo>>, creds' => creds PROVE Goal
  BY <1>i, <1>u DEF Apart, LoggedOut, KeyMode, AllListed, NoneLeft, Writing, LoggingIn, Stored
<1>1. ASSUME NEW w \in Writes, NEW p \in Writes, NEW ok \in BOOLEAN, Put(w, p, ok) PROVE Goal
  <2>1. ok
    BY <1>1, <1>f DEF Put, Save
  <2>2. LoggingIn = {} /\ UNCHANGED <<mode, creds, login, todo>>
    BY <1>1, <1>0 DEF Put, modeVars, loginVars
  <2>3. LoggingIn' = {} /\ \A l \in Logins : login'[l] # "delete"
    BY <2>2 DEF LoggingIn
  <2>4. write' = [write EXCEPT ![w] = "logout"] /\ write[w] = "none"
    BY <1>1, <2>1 DEF Put
  <2>5. write'[w] = "logout" /\ \A v \in Writes : write'[v] = "mode" => write[v] = "mode"
    BY <2>4, <1>s
  <2> QED
    BY <2>2, <2>3, <2>5, <1>i DEF Apart, LoggedOut, KeyMode, AllListed, NoneLeft, Writing
<1>2. ASSUME NEW p \in Writes, items' = [items EXCEPT ![p] = None], UNCHANGED <<mode, creds, login>>,
             \A v \in Writes : write'[v] \in {"logout", "mode"} \/ write[v] \in {"logout", "mode"}
                                => write'[v] = write[v],
             \A l \in Logins : todo[l] \ {p} \subseteq todo'[l]
      PROVE  Goal
  <2>1. Stored' \subseteq Stored \ {p}
    BY <1>2, <1>s DEF Stored
  <2>2. Writing' = Writing /\ LoggingIn' = LoggingIn
    BY <1>2 DEF Writing, LoggingIn
  <2>3. AllListed'
    BY <1>2, <2>1, <1>i DEF AllListed
  <2>4. LoggedOut' /\ KeyMode'
    BY <1>2, <2>2, <1>i DEF LoggedOut, KeyMode
  <2> QED
    BY <1>2, <2>1, <2>2, <2>3, <2>4, <1>i DEF Apart, NoneLeft
<1>3. ASSUME NEW w \in Writes, NEW p \in Writes, NEW ok \in BOOLEAN, Delete(w, p, ok) PROVE Goal
  <2>1. items' = [items EXCEPT ![p] = None] /\ UNCHANGED <<mode, creds, login, todo>>
    BY <1>3 DEF Delete, Save, modeVars, loginVars
  <2>2. \A v \in Writes : write'[v] \in {"logout", "mode"} \/ write[v] \in {"logout", "mode"}
                           => write'[v] = write[v]
    BY <1>3, <1>s DEF Delete
  <2> QED
    BY <2>1, <2>2, <1>2
<1>4. ASSUME NEW l \in Logins, NEW p \in Writes, NEW ok \in BOOLEAN, LoginDeletes(l, p, ok) PROVE Goal
  <2>1. UNCHANGED <<mode, creds, login, write>>
    BY <1>4 DEF LoginDeletes, modeVars
  <2>2. items' = [items EXCEPT ![p] = None]
    BY <1>4, <1>s DEF LoginDeletes, Save, storeVars
  <2>3. \A m \in Logins : todo[m] \ {p} \subseteq todo'[m]
    BY <1>4, <1>s DEF LoginDeletes
  <2> QED
    BY <2>1, <2>2, <2>3, <1>2
<1>5. ASSUME NEW w \in Writes, WriteLogsOut(w) PROVE Goal
  <2>1. creds' = FALSE /\ items' = items /\ UNCHANGED <<mode, login, todo>>
    BY <1>5, <1>f DEF WriteLogsOut, storeVars, modeVars, loginVars
  <2>2. Writing' = Writing /\ LoggingIn' = LoggingIn /\ Stored' = Stored
    BY <1>5, <2>1, <1>s DEF WriteLogsOut, Writing, LoggingIn, Stored
  <2> QED
    BY <2>1, <2>2, <1>i DEF Apart, LoggedOut, KeyMode, AllListed, NoneLeft
<1>6. ASSUME NEW w \in Writes, WriteSetsMode(w) PROVE Goal
  <2>1. mode' = "api_key" /\ items' = items /\ UNCHANGED <<creds, login, todo>>
    BY <1>6 DEF WriteSetsMode, Patch, storeVars, loginVars
  <2>2. Writing' \subseteq Writing /\ LoggingIn' = LoggingIn /\ Stored' = Stored /\ ~creds
    BY <1>6, <2>1, <1>s, <1>i DEF WriteSetsMode, Writing, LoggingIn, Stored, LoggedOut
  <2> QED
    BY <2>1, <2>2, <1>i DEF Apart, LoggedOut, KeyMode, AllListed, NoneLeft
<1>7. ASSUME NEW l \in Logins, ClaudeLogsIn(l) PROVE Goal
  <2>1. Writing = {} /\ items' = items /\ UNCHANGED <<mode, write, todo>>
    BY <1>7, <1>0 DEF ClaudeLogsIn, storeVars, modeVars
  <2>2. l \in LoggingIn' /\ Stored' = Stored /\ Writing' = {}
    BY <1>7, <2>1, <1>s DEF ClaudeLogsIn, LoggingIn, Stored, Writing
  <2>3. \A m \in Logins : login'[m] = "delete" => login[m] = "delete"
    BY <1>7, <1>s DEF ClaudeLogsIn
  <2> QED
    BY <2>1, <2>2, <2>3, <1>i DEF Apart, LoggedOut, KeyMode, AllListed, NoneLeft, Writing
<1>8. ASSUME NEW l \in Logins, LoginMissed(l) PROVE Goal
  BY <1>8, <1>0 DEF LoginMissed
<1>9. ASSUME NEW l \in Logins, LoginLists(l) PROVE Goal
  <2>1. items' = items /\ UNCHANGED <<mode, write, creds>>
    BY <1>9 DEF LoginLists, storeVars, modeVars
  <2>2. Stored' = Stored /\ Writing' = Writing /\ LoggingIn' = LoggingIn
    BY <1>9, <2>1, <1>s DEF LoginLists, LoggingIn, Stored, Writing
  <2>3. AllListed'
    BY <1>9, <2>2, <1>s, <1>i DEF LoginLists, AllListed
  <2> QED
    BY <2>1, <2>2, <2>3, <1>i DEF Apart, LoggedOut, KeyMode, NoneLeft
<1>10. ASSUME NEW l \in Logins, LoginSetsMode(l) PROVE Goal
  <2>1. mode' = "subscription" /\ items' = items /\ UNCHANGED <<creds, write, todo>>
    BY <1>10 DEF LoginSetsMode, Patch, storeVars
  <2>2. Stored = {} /\ Stored' = {} /\ Writing' = Writing /\ LoggingIn' \subseteq LoggingIn
    BY <1>10, <2>1, <1>s, <1>i DEF LoginSetsMode, AllListed, Stored, Writing, LoggingIn
  <2>3. \A m \in Logins : login'[m] = "delete" => login[m] = "delete"
    BY <1>10, <1>s DEF LoginSetsMode
  <2> QED
    BY <2>1, <2>2, <2>3, <1>i DEF Apart, LoggedOut, KeyMode, AllListed, NoneLeft
<1>11. ASSUME NEW c \in Creates, NEW ok \in BOOLEAN, CreateMarks(c, ok) PROVE Goal
  BY <1>11, <1>u DEF CreateMarks, Save, storeVars, modeVars, loginVars
<1>12. ASSUME NEW c \in Creates,
             \/ CreatePlain(c) \/ CreateStashes(c) \/ CreateLooks(c) \/ CreateUses(c) \/ CreateResets(c)
             \/ \E q \in Writes : CreateReads(c, q)
      PROVE Goal
  BY <1>12, <1>u
     DEF CreatePlain, CreateStashes, CreateLooks, CreateUses, CreateResets, CreateReads, storeVars,
         modeVars, loginVars
<1>13. CASE LogOut
  BY <1>13, <1>u DEF LogOut, storeVars, modeVars, loginVars
<1>14. CASE Crash
  BY <1>14, <1>0 DEF Crash
<1>15. CASE UNCHANGED credsVars
  BY <1>15, <1>u DEF credsVars, storeVars, modeVars, loginVars
<1> HIDE DEF Goal
<1> QED
  BY <1>1, <1>3, <1>4, <1>5, <1>6, <1>7, <1>8, <1>9, <1>10, <1>11, <1>12, <1>13, <1>14, <1>15 DEF CredsNext

\* If, besides, no provider request and login ran at once, the preferred mode
\* does not name the way that is gone in favour of the one that is there.
THEOREM ModeCorrect == CredsSpec => []ModeAgrees
<1>1. CredsInit => ModeInv
  BY CredentialsAssumption
     DEF CredsInit, ModeInv, Apart, LoggedOut, KeyMode, AllListed, NoneLeft, Writing, LoggingIn
<1>2. ModeInv => ModeAgrees
  BY DEF ModeInv, KeyMode, NoneLeft, Tidy, Seen, ModeAgrees, Quiet, Writing, LoggingIn
<1> QED
  BY <1>1, <1>2, ModeStep, CredsTypeCorrect, PTL DEF CredsSpec

\* Claude is logged in by one way, and the mode agrees.
THEOREM OneWayCorrect == CredsSpec => []OneWayIn
<1>1. NotBoth /\ ModeAgrees => OneWayIn
  BY DEF OneWayIn
<1>2. QED
  BY <1>1, NotBothCorrect, ModeCorrect, PTL

----------------------------------------------------------------------------
(* The host of a session created alone *)

\* Where a lone request is says what the shared slot holds.
SlotAt(c) ==
  /\ create[c] \in {"mark", "stash", "look", "use", "reset"} => Creating = {c}
  /\ create[c] \in {"mark", "stash"} => hostSlot = None /\ used[c] = None
  /\ create[c] = "look" => hostSlot = want[c] /\ used[c] = None
  /\ create[c] = "use" => hostSlot = want[c]
  /\ create[c] = "reset" => used[c] = want[c]
  /\ create[c] = "ok" => used[c] = want[c]

HostInv ==
  \A c \in Creates :
    /\ create[c] = "none" => want[c] = None /\ used[c] = None
    /\ alone[c] => SlotAt(c)

\* HostInv is inductive.
LEMMA HostStep == CredsTypeOK /\ HostInv /\ [CredsNext]_credsVars => HostInv'
<1> SUFFICES ASSUME CredsTypeOK, HostInv, [CredsNext]_credsVars PROVE HostInv'
  OBVIOUS
<1>s. /\ create \in [Creates -> {"none", "mark", "stash", "look", "use", "reset", "ok", "dead"}]
      /\ want \in [Creates -> Writes \cup {None}]
      /\ used \in [Creates -> Writes \cup {None}]
      /\ alone \in [Creates -> BOOLEAN]
      /\ (hostSlot # None => Creating # {})
  BY DEF CredsTypeOK, CreateTypes
<1>u. ASSUME UNCHANGED <<createVars, hostSlot>> PROVE HostInv'
  BY <1>u DEF HostInv, SlotAt, Creating, createVars
<1>1. ASSUME NEW c \in Creates, NEW s \in {"mark", "look"}, Begin(c, s), UNCHANGED <<used, hostSlot>>,
             \A d \in Creates : d # c => want'[d] = want[d],
             s = "look" => want'[c] = want[c]
      PROVE  HostInv'
  <2>1. create[c] = "none" /\ want[c] = None /\ used[c] = None
    BY <1>1 DEF Begin, HostInv
  <2>2. create'[c] = s /\ \A d \in Creates : d # c => create'[d] = create[d]
    BY <1>1, <1>s DEF Begin
  <2>3. alone'[c] = (Creating = {}) /\ \A d \in Creates : d # c => alone'[d] = (alone[d] /\ d \notin Creating)
    BY <1>1 DEF Begin
  <2>4. ASSUME NEW d \in Creates, create'[d] = "none" PROVE want'[d] = None /\ used'[d] = None
    BY <1>1, <2>2, <2>4 DEF HostInv
  <2>5. ASSUME alone'[c] PROVE SlotAt(c)'
    <3>1. Creating = {} /\ hostSlot = None
      BY <2>3, <2>5, <1>s
    <3>2. Creating' = {c}
      BY <2>2, <3>1 DEF Creating
    <3> QED
      BY <1>1, <2>1, <2>2, <3>1, <3>2 DEF SlotAt
  <2>6. ASSUME NEW d \in Creates, d # c, alone'[d] PROVE SlotAt(d)'
    <3>1. alone[d] /\ d \notin Creating /\ create'[d] = create[d]
      BY <2>2, <2>3, <2>6
    <3>2. create[d] = "ok" => used[d] = want[d]
      BY <3>1 DEF HostInv, SlotAt
    <3> QED
      BY <1>1, <2>6, <3>1, <3>2 DEF SlotAt, Creating
  <2> QED
    BY <2>4, <2>5, <2>6 DEF HostInv
<1>2. ASSUME NEW c \in Creates, c \in Creating, NEW s \in {"stash", "look", "use", "reset", "ok"},
             create' = [create EXCEPT ![c] = s], UNCHANGED <<want, alone>>,
             \A d \in Creates : d # c => used'[d] = used[d],
             alone[c] /\ SlotAt(c) /\ Creating = {c} => SlotAt(c)'
      PROVE  HostInv'
  <2>1. create'[c] = s /\ \A d \in Creates : d # c => create'[d] = create[d]
    BY <1>2, <1>s
  <2>2. ASSUME NEW d \in Creates, create'[d] = "none" PROVE want'[d] = None /\ used'[d] = None
    BY <1>2, <2>1, <2>2 DEF HostInv
  <2>3. ASSUME alone[c] PROVE SlotAt(c)'
    BY <1>2, <2>3 DEF HostInv, SlotAt, Creating
  <2>4. ASSUME NEW d \in Creates, d # c, alone[d] PROVE SlotAt(d)'
    <3>1. SlotAt(d) /\ create'[d] = create[d]
      BY <2>1, <2>4 DEF HostInv
    <3>2. d \notin Creating
      BY <1>2, <2>4, <3>1 DEF SlotAt, Creating
    <3> QED
      BY <1>2, <2>4, <3>1, <3>2 DEF SlotAt, Creating
  <2> QED
    BY <1>2, <2>2, <2>3, <2>4 DEF HostInv
<1>3. ASSUME NEW c \in Creates, CreatePlain(c) PROVE HostInv'
  BY <1>3, <1>1 DEF CreatePlain
<1>4. ASSUME NEW c \in Creates, NEW p \in Writes, CreateReads(c, p) PROVE HostInv'
  BY <1>4, <1>1, <1>s DEF CreateReads
<1>5. ASSUME NEW c \in Creates, NEW ok \in BOOLEAN, CreateMarks(c, ok) PROVE HostInv'
  <2>1. c \in Creating /\ create[c] = "mark" /\ create' = [create EXCEPT ![c] = "stash"]
    BY <1>5 DEF CreateMarks, Creating
  <2>2. UNCHANGED <<hostSlot, want, used, alone>>
    BY <1>5 DEF CreateMarks
  <2>3. create'[c] = "stash" /\ Creating' = Creating
    BY <2>1, <1>s DEF Creating
  <2>4. alone[c] /\ SlotAt(c) /\ Creating = {c} => SlotAt(c)'
    BY <2>1, <2>2, <2>3 DEF SlotAt
  <2> QED
    BY <2>1, <2>2, <2>4, <1>2
<1>6. ASSUME NEW c \in Creates, CreateStashes(c) PROVE HostInv'
  <2>1. c \in Creating /\ create[c] = "stash" /\ create' = [create EXCEPT ![c] = "look"]
    BY <1>6 DEF CreateStashes, Creating
  <2>2. hostSlot' = want[c] /\ UNCHANGED <<want, used, alone>>
    BY <1>6 DEF CreateStashes
  <2>3. create'[c] = "look" /\ Creating' = Creating
    BY <2>1, <1>s DEF Creating
  <2>4. alone[c] /\ SlotAt(c) /\ Creating = {c} => SlotAt(c)'
    BY <2>1, <2>2, <2>3 DEF SlotAt
  <2> QED
    BY <2>1, <2>2, <2>4, <1>2
<1>7. ASSUME NEW c \in Creates, CreateLooks(c) PROVE HostInv'
  <2> DEFINE s == IF hostSlot = None THEN "ok" ELSE "use"
  <2>1. c \in Creating /\ create[c] = "look" /\ create' = [create EXCEPT ![c] = s]
    BY <1>7 DEF CreateLooks, Creating
  <2>2. UNCHANGED <<hostSlot, want, used, alone>>
    BY <1>7 DEF CreateLooks
  <2>3. create'[c] = s /\ (s = "use" => Creating' = Creating)
    BY <2>1, <1>s DEF Creating
  <2>4. alone[c] /\ SlotAt(c) /\ Creating = {c} => SlotAt(c)'
    BY <2>1, <2>2, <2>3 DEF SlotAt
  <2> QED
    BY <2>1, <2>2, <2>4, <1>2
<1>8. ASSUME NEW c \in Creates, CreateUses(c) PROVE HostInv'
  <2>1. c \in Creating /\ create[c] = "use" /\ create' = [create EXCEPT ![c] = "reset"]
    BY <1>8 DEF CreateUses, Creating
  <2>2. used' = [used EXCEPT ![c] = hostSlot] /\ UNCHANGED <<hostSlot, want, alone>>
    BY <1>8 DEF CreateUses
  <2>3. create'[c] = "reset" /\ used'[c] = hostSlot /\ Creating' = Creating
    BY <2>1, <2>2, <1>s DEF Creating
  <2>4. alone[c] /\ SlotAt(c) /\ Creating = {c} => SlotAt(c)'
    BY <2>1, <2>2, <2>3 DEF SlotAt
  <2>5. \A d \in Creates : d # c => used'[d] = used[d]
    BY <2>2, <1>s
  <2> QED
    BY <2>1, <2>2, <2>4, <2>5, <1>2
<1>9. ASSUME NEW c \in Creates, CreateResets(c) PROVE HostInv'
  <2>1. c \in Creating /\ create[c] = "reset" /\ create' = [create EXCEPT ![c] = "ok"]
    BY <1>9 DEF CreateResets, Creating
  <2>2. UNCHANGED <<want, used, alone>>
    BY <1>9 DEF CreateResets
  <2>3. create'[c] = "ok"
    BY <2>1, <1>s
  <2>4. alone[c] /\ SlotAt(c) /\ Creating = {c} => SlotAt(c)'
    BY <2>1, <2>2, <2>3 DEF SlotAt
  <2> QED
    BY <2>1, <2>2, <2>4, <1>2
<1>10. CASE Crash
  <2>1. UNCHANGED <<want, used, alone>>
    BY <1>10 DEF Crash
  <2>2. \A d \in Creates : create'[d] = IF d \in Creating THEN "dead" ELSE create[d]
    BY <1>10 DEF Crash
  <2> QED
    <3>1. ASSUME NEW d \in Creates, create'[d] = "none" PROVE want'[d] = None /\ used'[d] = None
      BY <2>1, <2>2, <3>1 DEF HostInv
    <3>2. ASSUME NEW d \in Creates PROVE create'[d] \in {"none", "ok", "dead"}
      BY <2>2, <1>s DEF Creating
    <3>3. ASSUME NEW d \in Creates, alone[d], create'[d] = "ok" PROVE used[d] = want[d]
      BY <2>2, <3>3 DEF HostInv, SlotAt
    <3> QED
      BY <2>1, <3>1, <3>2, <3>3 DEF HostInv, SlotAt
<1>11. ASSUME NEW w \in Writes,
              \/ \E p \in Writes, ok \in BOOLEAN : Put(w, p, ok) \/ Delete(w, p, ok)
              \/ WriteLogsOut(w) \/ WriteSetsMode(w)
       PROVE HostInv'
  BY <1>u, <1>11 DEF Put, Delete, WriteLogsOut, WriteSetsMode
<1>12. ASSUME NEW l \in Logins,
              \/ ClaudeLogsIn(l) \/ LoginMissed(l) \/ LoginLists(l) \/ LoginSetsMode(l)
              \/ \E p \in Writes, ok \in BOOLEAN : LoginDeletes(l, p, ok)
       PROVE HostInv'
  BY <1>u, <1>12 DEF ClaudeLogsIn, LoginMissed, LoginLists, LoginSetsMode, LoginDeletes
<1>13. CASE LogOut \/ UNCHANGED credsVars
  BY <1>u, <1>13 DEF LogOut, credsVars
<1> QED
  BY <1>3, <1>4, <1>5, <1>6, <1>7, <1>8, <1>9, <1>10, <1>11, <1>12, <1>13 DEF CredsNext

\* A session created while no other was gets the host of its own provider,
\* whatever was created before it and however cib was restarted.
THEOREM HostCorrect == CredsSpec => []HostIsOwnAlone
<1>1. CredsInit => HostInv
  BY DEF CredsInit, HostInv
<1>2. HostInv => HostIsOwnAlone
  BY DEF HostInv, SlotAt, HostIsOwnAlone
<1> QED
  BY <1>1, <1>2, HostStep, CredsTypeCorrect, PTL DEF CredsSpec

----------------------------------------------------------------------------
(* The tokens and the envelopes *)

USE AccessAssumption

Underway == [at : {"stamped", "keyed"}, env : Envelopes, begun : Instants]

LEMMA InstantsAreNat == Instants \subseteq Nat /\ (MaxTime + 1) * Fine \in Nat
  BY DEF Instants

\* A handler that holds an envelope has one of the records of Underway.
LEMMA HandlerKind ==
  ASSUME TypeOK, NEW h \in Handlers, handler[h].at # "idle"
  PROVE  handler[h] \in Underway
<1>1. handler[h] \in {AtRest} \cup Underway
  BY DEF TypeOK, Underway
<1>2. AtRest.at = "idle"
  BY DEF AtRest
<1>3. QED
  BY <1>1, <1>2

\* Every step keeps the types of Access.
LEMMA AccessTypeStep == TypeOK /\ [Next]_vars => TypeOK'
<1> SUFFICES ASSUME TypeOK, [Next]_vars
             PROVE  TypeOK'
  OBVIOUS
<1> USE DEF TypeOK, tokenVars, replyVars, cacheVars, Up
<1>1. ASSUME Tick
      PROVE  TypeOK'
  BY <1>1 DEF Tick
<1>2. ASSUME ProcessDies
      PROVE  TypeOK'
  BY <1>2 DEF ProcessDies
<1>3. ASSUME NEW secret \in Secrets \cup {NoSecret}, Boot(secret)
      PROVE  TypeOK'
  BY <1>3 DEF Boot
<1>4. ASSUME NEW d \in Devices, Mint(d)
      PROVE  TypeOK'
  <2>1. [op |-> "mint", device |-> d] \in Answer
    BY DEF Answer
  <2>2. mem' \subseteq Devices \cup Secrets /\ tokensJson' \subseteq Devices \cup Secrets
    BY <1>4 DEF Mint, SaveTokens
  <2>3. pending' \subseteq Answer
    BY <1>4, <2>1 DEF Mint
  <2>4. QED
    BY <1>4, <2>2, <2>3 DEF Mint
<1>5. ASSUME NEW d \in Devices, Revoke(d)
      PROVE  TypeOK'
  <2>1. [op |-> "revoke", device |-> d] \in Answer
    BY DEF Answer
  <2>2. mem' \subseteq Devices \cup Secrets /\ tokensJson' \subseteq Devices \cup Secrets
    BY <1>5 DEF Revoke, SaveTokens
  <2>3. pending' \subseteq Answer
    BY <1>5, <2>1 DEF Revoke
  <2>4. QED
    BY <1>5, <2>2, <2>3 DEF Revoke
<1>6. ASSUME NEW a \in pending, Answers(a)
      PROVE  TypeOK'
  BY <1>6 DEF Answers
<1>7. ASSUME NEW h \in Handlers, NEW e \in Envelopes, Receives(h, e)
      PROVE  TypeOK'
  <2>1. [at |-> "stamped", env |-> e, begun |-> now] \in
          [at : {"stamped", "keyed"}, env : Envelopes, begun : Instants]
    OBVIOUS
  <2>2. QED
    BY <1>7, <2>1 DEF Receives
<1>8. ASSUME NEW h \in Handlers, Keys(h)
      PROVE  TypeOK'
  <2>1. handler[h] \in Underway
    BY <1>8, HandlerKind DEF Keys
  <2>2. [handler[h] EXCEPT !.at = "keyed"] \in Underway
    BY <2>1 DEF Underway
  <2>3. handler' \in [Handlers -> {AtRest} \cup Underway]
    BY <1>8, <2>2 DEF Keys, Underway
  <2>4. ~Up => handler' = [k \in Handlers |-> AtRest]
    BY <1>8 DEF Keys, AtRest
  <2>5. QED
    BY <1>8, <2>3, <2>4 DEF Keys, Underway
<1>9. ASSUME NEW h \in Handlers, Records(h)
      PROVE  TypeOK'
  <2>1. handler[h] \in Underway
    BY <1>9, HandlerKind DEF Records
  <2>2. handler[h].env \in Envelopes /\ [begun |-> handler[h].begun, at |-> now] \in Passage
    BY <2>1 DEF Underway, Passage
  <2>3. Up
    BY <1>9 DEF Records, AtRest
  <2> DEFINE remains == [x \in Envelopes |-> Evicted(seen[x])]
             e == handler[h].env
  <2>4. remains \in [Envelopes -> SUBSET Instants]
    BY DEF Evicted
  <2>5. seen' = remains \/ seen' = [remains EXCEPT ![e] = {now}]
    BY <1>9 DEF Records
  <2>6. seen' \in [Envelopes -> SUBSET Instants]
    <3>1. {now} \in SUBSET Instants /\ e \in Envelopes
      BY <2>2
    <3> HIDE DEF remains, e
    <3>2. [remains EXCEPT ![e] = {now}] \in [Envelopes -> SUBSET Instants]
      BY <2>4, <3>1
    <3> QED
      BY <2>4, <2>5, <3>2
  <2>7. passed' \in [Envelopes -> Seq(Passage)]
    <3>1. CASE UNCHANGED passed
      BY <3>1
    <3>2. CASE passed' = [passed EXCEPT ![e] = Append(@, [begun |-> handler[h].begun, at |-> now])]
      <4>1. Append(passed[e], [begun |-> handler[h].begun, at |-> now]) \in Seq(Passage)
        BY <2>2
      <4>2. QED
        BY <3>2, <4>1
    <3>3. QED
      BY <1>9, <3>1, <3>2 DEF Records
  <2>8. handler' \in [Handlers -> {AtRest} \cup Underway]
    BY <1>9 DEF Records, Underway
  <2>9. QED
    BY <1>9, <2>3, <2>6, <2>7, <2>8 DEF Records, Underway
<1>10. ASSUME UNCHANGED vars
       PROVE  TypeOK'
  BY <1>10 DEF vars
<1>11. QED
  BY <1>1, <1>2, <1>3, <1>4, <1>5, <1>6, <1>7, <1>8, <1>9, <1>10 DEF Next

LEMMA InstantZero == 0 \in Instants
<1>1. (MaxTime + 1) * Fine >= 1
  <2>1. MaxTime + 1 \in Nat \ {0} /\ Fine \in Nat \ {0}
    OBVIOUS
  <2>2. \A a, b \in Nat \ {0} : a * b >= 1
    OBVIOUS
  <2>3. QED
    BY <2>1, <2>2
<1>2. QED
  BY <1>1, InstantsAreNat DEF Instants

\* Access keeps to its types, and a process that is down has no handlers, no
\* cache and nothing in memory.
THEOREM AccessTypeCorrect == Spec => []TypeOK
<1>1. Init => TypeOK
  <2>1. 0 \in Instants
    BY InstantZero
  <2>2. QED
    BY <2>1 DEF Init, TypeOK, Up
<1>2. QED
  BY <1>1, AccessTypeStep, PTL DEF Spec
----------------------------------------------------------------------------
(* The tokens *)

\* What was answered, or is about to be, is so in memory and on disk.
Kept(a)    == a.op = "mint" /\ a.device \notin revokeAsked => a.device \in tokensJson /\ (Up => a.device \in mem)
Removed(a) == a.op = "revoke" => a.device \notin mem \cup tokensJson
TokenInv   == \A a \in pending \cup told : Kept(a) /\ Removed(a)

\* Every step keeps what clients were told.
LEMMA TokenStep == TypeOK /\ TokenInv /\ [Next]_vars => TokenInv'
<1> SUFFICES ASSUME TypeOK, TokenInv, [Next]_vars
             PROVE  TokenInv'
  OBVIOUS
<1>t. \A a \in pending \cup told : a.op \in {"mint", "revoke"} /\ a.device \in Devices
  BY DEF TypeOK, Answer
<1> USE DEF TokenInv, Kept, Removed
<1>1. CASE UNCHANGED <<tokenVars, pending, told, revokeAsked>>
  BY <1>1 DEF tokenVars, Up
<1>2. CASE ProcessDies
  <2>1. pending' = {} /\ told' = told /\ revokeAsked' = revokeAsked /\ tokensJson' = tokensJson /\ mem' = {} /\ ~Up'
    BY <1>2 DEF ProcessDies, Up
  <2>2. QED
    BY <2>1
<1>3. ASSUME NEW secret \in Secrets \cup {NoSecret}, Boot(secret)
      PROVE  TokenInv'
  <2>1. /\ mem' = tokensJson \/ (secret \in Secrets /\ mem' = (tokensJson \ Secrets) \cup {secret})
        /\ tokensJson' = mem' /\ UNCHANGED <<pending, told, revokeAsked>>
    BY <1>3 DEF Boot, replyVars
  <2>2. \A a \in pending \cup told : a.device \notin Secrets
    BY <1>t
  <2>3. QED
    BY <2>1, <2>2
<1>4. ASSUME NEW d \in Devices, Mint(d)
      PROVE  TokenInv'
  <2>1. PICK saved \in BOOLEAN :
          /\ SaveTokens(mem', saved)
          /\ pending' = pending \cup (IF saved THEN {[op |-> "mint", device |-> d]} ELSE {})
    BY <1>4 DEF Mint
  <2>2. Up /\ mem' = mem \cup {d} /\ told' = told /\ revokeAsked' = revokeAsked
    BY <1>4 DEF Mint
  <2>3. tokensJson' = mem' \/ tokensJson' = tokensJson
    BY <2>1 DEF SaveTokens
  <2>4. ASSUME NEW a \in pending \cup told
        PROVE  Kept(a)' /\ Removed(a)'
    <3>1. a.device # d
      BY <1>4 DEF Mint
    <3>2. QED
      BY <2>2, <2>3, <3>1
  <2>5. ASSUME saved, NEW a, a = [op |-> "mint", device |-> d]
        PROVE  Kept(a)' /\ Removed(a)'
    <3>1. a.op = "mint" /\ a.device = d /\ tokensJson' = mem'
      BY <2>1, <2>5 DEF SaveTokens
    <3>2. QED
      BY <2>2, <3>1
  <2>6. QED
    BY <2>1, <2>2, <2>4, <2>5
<1>5. ASSUME NEW d \in Devices, Revoke(d)
      PROVE  TokenInv'
  <2>1. PICK saved \in BOOLEAN :
          /\ SaveTokens(mem', saved /\ d \in mem)
          /\ pending' = pending \cup (IF saved /\ d \in mem
                                        THEN {[op |-> "revoke", device |-> d]} ELSE {})
    BY <1>5 DEF Revoke
  <2>2. Up /\ mem' = mem \ {d} /\ told' = told /\ revokeAsked' = revokeAsked \cup {d}
    BY <1>5 DEF Revoke
  <2>3. tokensJson' = mem' \/ tokensJson' = tokensJson
    BY <2>1 DEF SaveTokens
  <2>4. ASSUME NEW a \in pending \cup told
        PROVE  Kept(a)' /\ Removed(a)'
    BY <2>2, <2>3
  <2>5. ASSUME saved, d \in mem, NEW a, a = [op |-> "revoke", device |-> d]
        PROVE  Kept(a)' /\ Removed(a)'
    <3>1. a.op = "revoke" /\ a.device = d /\ tokensJson' = mem'
      BY <2>1, <2>5 DEF SaveTokens
    <3>2. QED
      BY <2>2, <3>1
  <2>6. QED
    BY <2>1, <2>2, <2>4, <2>5
<1>6. ASSUME NEW a \in pending, Answers(a)
      PROVE  TokenInv'
  <2>1. pending' \cup told' = pending \cup told /\ UNCHANGED <<tokenVars, revokeAsked>>
    BY <1>6 DEF Answers
  <2>2. QED
    BY <2>1 DEF tokenVars, Up
<1>7. CASE Tick
  BY <1>7, <1>1 DEF Tick, replyVars
<1>8. ASSUME NEW h \in Handlers, NEW e \in Envelopes, Receives(h, e)
      PROVE  TokenInv'
  BY <1>8, <1>1 DEF Receives, replyVars
<1>9. ASSUME NEW h \in Handlers, Keys(h) \/ Records(h)
      PROVE  TokenInv'
  BY <1>9, <1>1 DEF Keys, Records, replyVars
<1>10. CASE UNCHANGED vars
  BY <1>10, <1>1 DEF vars, replyVars
<1>11. QED
  <2> HIDE DEF TokenInv
  <2> QED
    BY <1>2, <1>3, <1>4, <1>5, <1>6, <1>7, <1>8, <1>9, <1>10 DEF Next

\* What clients were told of their tokens holds in every reachable state.
THEOREM TokensCorrect == Spec => []TokensAsTold
<1>1. Init => TokenInv
  BY DEF Init, TokenInv
<1>2. TokenInv => TokensAsTold
  BY DEF TokenInv, Kept, Removed, TokensAsTold, MintedKept, RevokedGone
<1>3. QED
  BY <1>1, <1>2, TokenStep, AccessTypeCorrect, PTL DEF Spec

\* Every step keeps the one master token.
LEMMA MasterStep == TypeOK /\ OneMaster /\ [Next]_vars => OneMaster'
<1> SUFFICES ASSUME TypeOK, OneMaster, [Next]_vars
             PROVE  OneMaster'
  OBVIOUS
<1> USE DEF OneMaster, Up
<1>1. CASE UNCHANGED tokenVars
  BY <1>1 DEF tokenVars
<1>2. CASE ProcessDies
  BY <1>2 DEF ProcessDies
<1>3. ASSUME NEW secret \in Secrets \cup {NoSecret}, Boot(secret)
      PROVE  OneMaster'
  <2>1. CASE secret = NoSecret
    BY <1>3, <2>1 DEF Boot
  <2>2. CASE secret \in Secrets
    <3>1. mem' = (tokensJson \ Secrets) \cup {secret} /\ tokensJson' = mem' /\ env' = secret
      BY <1>3, <2>2 DEF Boot
    <3>2. QED
      BY <3>1, <2>2
  <2>3. QED
    BY <2>1, <2>2
<1>4. ASSUME NEW d \in Devices, Mint(d) \/ Revoke(d)
      PROVE  OneMaster'
  <2>1. d \notin Secrets /\ Up /\ env' = env
    BY <1>4 DEF Mint, Revoke
  <2>2. mem' = mem \cup {d} \/ mem' = mem \ {d}
    BY <1>4 DEF Mint, Revoke
  <2>3. tokensJson' = mem' \/ tokensJson' = tokensJson
    BY <1>4 DEF Mint, Revoke, SaveTokens
  <2>4. Secrets \cap (mem' \cup tokensJson') \subseteq Secrets \cap (mem \cup tokensJson)
    BY <2>1, <2>2, <2>3
  <2>5. env # NoSecret => env \in Secrets /\ env \in mem' /\ env \in tokensJson'
    <3>1. env # NoSecret => env \in Secrets /\ env \in mem /\ env \in tokensJson
      BY <2>1 DEF TypeOK
    <3>2. QED
      BY <2>1, <2>2, <2>3, <3>1
  <2>6. QED
    BY <2>1, <2>4, <2>5
<1>5. CASE Tick \/ (\E a \in pending : Answers(a)) \/ UNCHANGED vars
  BY <1>5, <1>1 DEF Tick, Answers, vars
<1>6. ASSUME NEW h \in Handlers,
             (\E e \in Envelopes : Receives(h, e)) \/ Keys(h) \/ Records(h)
      PROVE  OneMaster'
  BY <1>6, <1>1 DEF Receives, Keys, Records
<1>7. QED
  <2> HIDE DEF OneMaster
  <2> QED
    BY <1>2, <1>3, <1>4, <1>5, <1>6 DEF Next

\* There are never two master tokens, and that of a process given one is there.
THEOREM MasterCorrect == Spec => []OneMaster
<1>1. Init => OneMaster
  BY DEF Init, OneMaster, Up
<1>2. QED
  BY <1>1, MasterStep, AccessTypeCorrect, PTL DEF Spec
----------------------------------------------------------------------------
(* The envelopes *)

\* The window in instants.
Span == Window * Fine

LEMMA SpanIsNat == Span \in Nat
  BY DEF Span

\* A millisecond has Fine instants.
LEMMA MillisBounds ==
  ASSUME NEW t \in Nat
  PROVE  Millis(t) \in Nat /\ Millis(t) * Fine <= t /\ t < Millis(t) * Fine + Fine
  BY DEF Millis

\* Half the window, as an integer division gives it.
LEMMA HalfWindow == Half \in Nat /\ 2 * Half <= Window
BY DEF Half

\* A delivery that began at b was in time for stamp s.
Near(b, s) == Millis(b) - s \in -Half..Half

\* A passage of an envelope was seen in time, lies in the past, and is in the
\* cache unless the window has gone by.
Noted(e, i) ==
  LET p == passed[e][i]
  IN  /\ p.begun <= p.at /\ p.at <= now /\ Near(p.begun, stamp[e])
      /\ p.at \in seen[e] \/ now - p.at > Span

CacheInv ==
  /\ \A h \in Handlers : handler[h].at # "idle" =>
       handler[h].begun <= now /\ Near(handler[h].begun, stamp[handler[h].env])
  /\ \A e \in Envelopes : \A i \in 1..Len(passed[e]) : Noted(e, i)
  /\ TwiceApart

\* A passage has two instants.
LEMMA PassageKind ==
  ASSUME TypeOK, NEW e \in Envelopes, NEW i \in 1..Len(passed[e])
  PROVE  passed[e][i].begun \in Nat /\ passed[e][i].at \in Nat
<1>1. passed[e] \in Seq(Passage)
  BY DEF TypeOK
<1>2. passed[e][i] \in Passage
  BY <1>1
<1>3. QED
  BY <1>2, InstantsAreNat DEF Passage

\* An envelope that is let through joins its earlier passages, all of them
\* longer ago than the window.
LEMMA RecordsStep ==
  ASSUME TypeOK, CacheInv, NEW h \in Handlers, Records(h)
  PROVE  CacheInv'
<1> DEFINE e == handler[h].env
           remains == [x \in Envelopes |-> Evicted(seen[x])]
           new == [begun |-> handler[h].begun, at |-> now]
<1>1. handler[h] \in Underway /\ handler[h].at = "keyed"
  BY HandlerKind DEF Records
<1>2. e \in Envelopes /\ handler[h].begun \in Nat /\ now \in Nat /\ new \in Passage
  BY <1>1, InstantsAreNat DEF Underway, Passage, TypeOK
<1>3. handler[h].begun <= now /\ Near(handler[h].begun, stamp[e])
  BY <1>1 DEF CacheInv
<1>4. now' = now /\ stamp' = stamp /\ handler' = [handler EXCEPT ![h] = AtRest]
  BY DEF Records
<1>5. \A k \in Handlers : handler'[k].at # "idle" =>
        handler'[k].begun <= now' /\ Near(handler'[k].begun, stamp'[handler'[k].env])
  <2> SUFFICES ASSUME NEW k \in Handlers, handler'[k].at # "idle"
               PROVE  handler'[k].begun <= now' /\ Near(handler'[k].begun, stamp'[handler'[k].env])
    OBVIOUS
  <2>1. handler'[k] = handler[k]
    BY <1>4 DEF AtRest, TypeOK
  <2>2. QED
    BY <2>1, <1>4 DEF CacheInv
<1>6. \A x \in Envelopes : \A i \in 1..Len(passed[x]) :
        passed[x][i].at \in remains[x] \/ now - passed[x][i].at > Span
  <2> SUFFICES ASSUME NEW x \in Envelopes, NEW i \in 1..Len(passed[x])
               PROVE  passed[x][i].at \in remains[x] \/ now - passed[x][i].at > Span
    OBVIOUS
  <2> DEFINE t == passed[x][i].at
  <2>1. t \in seen[x] \/ now - t > Span
    BY DEF CacheInv, Noted
  <2>2. t \in Nat /\ Span \in Nat
    BY PassageKind, SpanIsNat
  <2>3. remains[x] = {u \in seen[x] : now - u <= Span}
    BY DEF Evicted, Span
  <2> HIDE DEF t
  <2>4. t \in remains[x] \/ now - t > Span
    BY <1>2, <2>1, <2>2, <2>3
  <2>5. QED
    BY <2>4 DEF t
<1>7. CASE remains[e] # {}
  <2>1. seen' = remains /\ passed' = passed
    BY <1>7 DEF Records
  <2>2. \A x \in Envelopes : \A i \in 1..Len(passed[x]) : Noted(x, i)'
    BY <2>1, <1>4, <1>6 DEF CacheInv, Noted, Near
  <2>3. QED
    BY <1>5, <2>1, <2>2 DEF CacheInv, TwiceApart, Span
<1>8. CASE remains[e] = {}
  <2>1. /\ seen' = [remains EXCEPT ![e] = {now}]
        /\ passed' = [passed EXCEPT ![e] = Append(@, new)]
    BY <1>8 DEF Records
  <2>2. passed[e] \in Seq(Passage) /\ passed'[e] = Append(passed[e], new)
    BY <1>2, <2>1 DEF TypeOK
  <2>3. /\ Len(passed'[e]) = Len(passed[e]) + 1 /\ passed'[e][Len(passed[e]) + 1] = new
        /\ \A i \in 1..Len(passed[e]) : passed'[e][i] = passed[e][i]
        /\ Len(passed[e]) \in Nat
    BY <2>2, <1>2
  <2>4. \A x \in Envelopes : x # e => passed'[x] = passed[x] /\ seen'[x] = remains[x]
    BY <2>1 DEF TypeOK
  <2>5. seen'[e] = {now}
    BY <2>1, <1>2
  <2>6. \A i \in 1..Len(passed[e]) : now - passed[e][i].at > Span
    BY <1>2, <1>6, <1>8
  <2>7. \A x \in Envelopes : \A i \in 1..Len(passed'[x]) : Noted(x, i)'
    <3> SUFFICES ASSUME NEW x \in Envelopes, NEW i \in 1..Len(passed'[x])
                 PROVE  Noted(x, i)'
      OBVIOUS
    <3>1. CASE x # e
      <4>1. passed'[x] = passed[x] /\ seen'[x] = remains[x] /\ i \in 1..Len(passed[x])
        BY <2>4, <3>1
      <4>2. QED
        BY <4>1, <1>4, <1>6 DEF CacheInv, Noted, Near
    <3>2. CASE x = e /\ i \in 1..Len(passed[e])
      <4>1. passed'[x][i] = passed[e][i] /\ now' - passed[e][i].at > Span
        BY <2>3, <2>6, <3>2, <1>4
      <4>2. Noted(e, i)
        BY <1>2, <3>2 DEF CacheInv
      <4>3. QED
        BY <4>1, <4>2, <3>2, <1>4 DEF Noted, Near
    <3>3. CASE x = e /\ i = Len(passed[e]) + 1
      <4>1. passed'[x][i] = new /\ seen'[x] = {now}
        BY <2>3, <2>5, <3>3
      <4>2. QED
        BY <4>1, <1>2, <1>3, <1>4, <3>3 DEF Noted, Near
    <3>4. QED
      BY <2>3, <3>1, <3>2, <3>3
  <2>8. TwiceApart'
    <3> SUFFICES ASSUME NEW x \in Envelopes, NEW i \in 1..Len(passed'[x]),
                        NEW j \in 1..Len(passed'[x]), i < j
                 PROVE  passed'[x][j].at - passed'[x][i].at > Span
      BY DEF TwiceApart, Span
    <3>1. CASE x # e \/ j \in 1..Len(passed[e])
      <4>1. /\ i \in 1..Len(passed[x]) /\ j \in 1..Len(passed[x])
            /\ passed'[x][i] = passed[x][i] /\ passed'[x][j] = passed[x][j]
        <5>1. CASE x # e
          BY <5>1, <2>4
        <5>2. CASE x = e
          <6>1. j \in 1..Len(passed[e]) /\ i \in 1..Len(passed[e])
            BY <5>2, <3>1, <2>3
          <6>2. QED
            BY <5>2, <6>1, <2>3
        <5>3. QED
          BY <5>1, <5>2
      <4>2. passed[x][j].at - passed[x][i].at > Span
        BY <4>1 DEF CacheInv, TwiceApart, Span
      <4>3. QED
        BY <4>1, <4>2
    <3>2. CASE x = e /\ j = Len(passed[e]) + 1
      <4>1. i \in 1..Len(passed[e])
        BY <3>2, <2>3
      <4>2. passed'[x][i] = passed[e][i] /\ passed'[x][j] = new
        BY <4>1, <3>2, <2>3
      <4>3. now - passed[e][i].at > Span
        BY <4>1, <2>6
      <4>4. QED
        BY <4>2, <4>3
    <3>3. QED
      BY <2>3, <3>1, <3>2
  <2>9. QED
    BY <1>5, <2>7, <2>8 DEF CacheInv
<1>9. QED
  BY <1>7, <1>8

\* Every step keeps the cache's invariant.
LEMMA CacheStep == TypeOK /\ CacheInv /\ [Next]_vars => CacheInv'
<1> SUFFICES ASSUME TypeOK, CacheInv, [Next]_vars
             PROVE  CacheInv'
  OBVIOUS
<1>0. now \in Nat
  BY InstantsAreNat DEF TypeOK
<1>1. CASE UNCHANGED <<now, cacheVars>>
  BY <1>1 DEF cacheVars, CacheInv, Noted, Near, TwiceApart
<1>2. CASE Tick
  <2>1. now' = now + 1 /\ UNCHANGED <<stamp, seen, handler, passed>>
    BY <1>2 DEF Tick, cacheVars
  <2>2. \A h \in Handlers : handler[h].at # "idle" => handler[h].begun \in Nat
    BY HandlerKind, InstantsAreNat DEF Underway
  <2>3. \A e \in Envelopes : \A i \in 1..Len(passed[e]) : Noted(e, i)'
    <3> SUFFICES ASSUME NEW e \in Envelopes, NEW i \in 1..Len(passed[e])
                 PROVE  Noted(e, i)'
      BY <2>1
    <3> DEFINE p == passed[e][i]
    <3>1. /\ p.begun <= p.at /\ p.at <= now /\ Near(p.begun, stamp[e])
          /\ p.at \in seen[e] \/ now - p.at > Span
      BY DEF CacheInv, Noted
    <3>2. p.begun \in Nat /\ p.at \in Nat /\ Span \in Nat
      BY PassageKind, SpanIsNat
    <3>3. p.at <= now' /\ (p.at \in seen[e] \/ now' - p.at > Span)
      <4> HIDE DEF p
      <4> QED
        BY <1>0, <2>1, <3>1, <3>2
    <3>4. passed'[e][i] = p /\ seen'[e] = seen[e] /\ stamp'[e] = stamp[e]
      BY <2>1
    <3>5. Near(p.begun, stamp[e])'
      BY <3>1, <2>1 DEF Near
    <3>6. QED
      BY <3>1, <3>3, <3>4, <3>5 DEF Noted, Near
  <2>4. QED
    BY <1>0, <2>1, <2>2, <2>3 DEF CacheInv, TwiceApart, Span, Near
<1>3. CASE ProcessDies
  <2>1. \A e \in Envelopes : passed'[e] = <<>>
    BY <1>3 DEF ProcessDies
  <2>2. \A h \in Handlers : handler'[h].at = "idle"
    BY <1>3 DEF ProcessDies, AtRest
  <2>3. \A e \in Envelopes : 1..Len(passed'[e]) = {}
    BY <2>1
  <2>4. QED
    BY <2>2, <2>3 DEF CacheInv, TwiceApart, Span
<1>4. ASSUME NEW h \in Handlers, NEW e \in Envelopes, Receives(h, e)
      PROVE  CacheInv'
  <2>1. UNCHANGED <<now, stamp, seen, passed>> /\ InTime(e)
    BY <1>4 DEF Receives
  <2>2. handler' = [handler EXCEPT ![h] = [at |-> "stamped", env |-> e, begun |-> now]]
    BY <1>4 DEF Receives
  <2>3. handler'[h].begun = now /\ handler'[h].env = e
    BY <2>2 DEF TypeOK
  <2>4. \A k \in Handlers : k # h => handler'[k] = handler[k]
    BY <2>2 DEF TypeOK
  <2>5. \A k \in Handlers : handler'[k].at # "idle" =>
          handler'[k].begun <= now' /\ Near(handler'[k].begun, stamp'[handler'[k].env])
    BY <1>0, <2>1, <2>3, <2>4 DEF CacheInv, InTime, Near
  <2>6. QED
    BY <2>1, <2>5 DEF CacheInv, Noted, Near, TwiceApart
<1>5. ASSUME NEW h \in Handlers, Keys(h)
      PROVE  CacheInv'
  <2>1. UNCHANGED <<now, stamp, seen, passed>> /\ handler[h] \in Underway
    BY <1>5, HandlerKind DEF Keys
  <2>2. handler[h].at # "idle"
    BY <1>5 DEF Keys
  <2>3. \/ handler' = [handler EXCEPT ![h] = [handler[h] EXCEPT !.at = "keyed"]]
        \/ handler' = [handler EXCEPT ![h] = AtRest]
    BY <1>5 DEF Keys
  <2>4. \A k \in Handlers : k # h => handler'[k] = handler[k]
    BY <2>3 DEF TypeOK
  <2>5. handler'[h].at # "idle" =>
          handler'[h].begun = handler[h].begun /\ handler'[h].env = handler[h].env
    BY <2>1, <2>3 DEF TypeOK, AtRest, Underway
  <2>6. \A k \in Handlers : handler'[k].at # "idle" =>
          handler'[k].begun <= now' /\ Near(handler'[k].begun, stamp'[handler'[k].env])
    BY <2>1, <2>2, <2>4, <2>5 DEF CacheInv, Near
  <2>7. QED
    BY <2>1, <2>6 DEF CacheInv, Noted, Near, TwiceApart
<1>6. ASSUME NEW h \in Handlers, Records(h)
      PROVE  CacheInv'
  BY <1>6, RecordsStep
<1>7. CASE (\E s \in Secrets \cup {NoSecret} : Boot(s)) \/ (\E a \in pending : Answers(a)) \/ UNCHANGED vars
  BY <1>1, <1>7 DEF Boot, Answers, vars, cacheVars
<1>8. ASSUME NEW d \in Devices, Mint(d) \/ Revoke(d)
      PROVE  CacheInv'
  BY <1>1, <1>8 DEF Mint, Revoke
<1>9. QED
  <2> HIDE DEF CacheInv
  <2> QED
    BY <1>2, <1>3, <1>4, <1>5, <1>6, <1>7, <1>8 DEF Next

\* The cache's invariant holds in every reachable state.
THEOREM CacheCorrect == Spec => []CacheInv
<1>1. Init => CacheInv
  <2> SUFFICES ASSUME Init PROVE CacheInv
    OBVIOUS
  <2>1. \A e \in Envelopes : 1..Len(passed[e]) = {}
    BY DEF Init
  <2>2. \A h \in Handlers : handler[h].at = "idle"
    BY DEF Init, AtRest
  <2>3. QED
    BY <2>1, <2>2 DEF CacheInv, TwiceApart
<1>2. QED
  BY <1>1, CacheStep, AccessTypeCorrect, PTL DEF Spec

\* A repeated delivery that was in time is far enough from the first to have been
\* delayed: the arithmetic of two deliveries of one envelope, in instants.
LEMMA DelayOfRepeat ==
  ASSUME NEW bi \in Nat, NEW ai \in Nat, NEW bj \in Nat, NEW aj \in Nat, NEW s \in Nat,
         bi <= ai, aj - ai > Span, Near(bi, s), Near(bj, s)
  PROVE  aj - bj > (Millis(bi) - (s - Half) - 1) * Fine
<1> DEFINE mi == Millis(bi)
           mj == Millis(bj)
<1>1. /\ mi \in Nat /\ mj \in Nat /\ mi * Fine <= bi /\ bj < mj * Fine + Fine
  BY MillisBounds
<1>2. mj <= s + Half /\ Half \in Nat /\ 2 * Half <= Window /\ Window \in Nat /\ Fine \in Nat \ {0}
  BY <1>1, HalfWindow DEF Near
<1> HIDE DEF mi, mj
<1>3. mj * Fine <= (s + Half) * Fine
  BY <1>1, <1>2
<1>4. (2 * Half) * Fine <= Window * Fine
  <2>1. \A a, b \in Int : a <= b => a * Fine <= b * Fine
    BY <1>2
  <2>2. QED
    BY <1>2, <2>1
<1>5. (mi - (s - Half) - 1) * Fine = mi * Fine - (s + Half) * Fine + (2 * Half) * Fine - Fine
  BY <1>1, <1>2
<1>6. /\ mi * Fine \in Int /\ mj * Fine \in Int /\ (s + Half) * Fine \in Int
      /\ (2 * Half) * Fine \in Int /\ Window * Fine \in Int
  BY <1>1, <1>2
<1>7. aj - bj > mi * Fine - (s + Half) * Fine + (2 * Half) * Fine - Fine
  <2> DEFINE x == mi * Fine
             y == mj * Fine
             z == (s + Half) * Fine
             w == (2 * Half) * Fine
             v == Window * Fine
  <2>1. x \in Int /\ y \in Int /\ z \in Int /\ w \in Int /\ v \in Int
    BY <1>6
  <2>2. x <= bi /\ bj < y + Fine /\ y <= z /\ w <= v /\ aj - ai > v
    BY <1>1, <1>3, <1>4 DEF Span
  <2> HIDE DEF x, y, z, w, v
  <2>3. aj - bj > x - z + w - Fine
    BY <1>2, <2>1, <2>2
  <2>4. QED
    BY <2>3 DEF x, z, w
<1>8. QED
  BY <1>5, <1>7 DEF mi

\* The timestamp check, the cache and its eviction make up one guard: two passages
\* of an envelope are more than the window apart, and the second was delayed
\* between its checks, but for the millisecond that the timestamp check cuts off.
THEOREM GuardCorrect == Spec => []OneGuard
<1>1. TypeOK /\ CacheInv => OneGuard
  <2> SUFFICES ASSUME TypeOK, CacheInv
               PROVE  OneGuard
    OBVIOUS
  <2>1. TwiceApart
    BY DEF CacheInv
  <2>2. RepeatsAreSlow
    <3> SUFFICES ASSUME NEW e \in Envelopes,
                        NEW i \in 1..Len(passed[e]), NEW j \in 1..Len(passed[e]), i < j
                 PROVE  passed[e][j].at - passed[e][j].begun
                          > (Millis(passed[e][i].begun) - (stamp[e] - Half) - 1) * Fine
      BY DEF RepeatsAreSlow
    <3>1. passed[e][j].at - passed[e][i].at > Span
      BY <2>1 DEF TwiceApart, Span
    <3>2. passed[e][i].begun <= passed[e][i].at /\ Near(passed[e][i].begun, stamp[e])
          /\ Near(passed[e][j].begun, stamp[e])
      BY DEF CacheInv, Noted
    <3>3. /\ passed[e][i].begun \in Nat /\ passed[e][i].at \in Nat
          /\ passed[e][j].begun \in Nat /\ passed[e][j].at \in Nat /\ stamp[e] \in Nat
      BY PassageKind DEF TypeOK
    <3>4. QED
      BY <3>1, <3>2, <3>3, DelayOfRepeat
  <2>3. QED
    BY <2>1, <2>2 DEF OneGuard
<1>2. QED
  BY <1>1, AccessTypeCorrect, CacheCorrect, PTL
=============================================================================
