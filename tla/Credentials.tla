---------------------------- MODULE Credentials ----------------------------
(***************************************************************************)
(* What claude may log in with: the stored API providers                   *)
(* (internal/providers), the preferred mode (internal/prefs), claude's own *)
(* subscription credentials, and the handlers that keep the two ways apart *)
(* (server/providers.go, auth_claude.go) or start a session with one of    *)
(* them (createSession, server/sessions.go).                               *)
(*                                                                         *)
(* A provider's record is named after the request that wrote it, its id    *)
(* after the request that added it.  A store's operation holds its lock    *)
(* from the change in memory to the rename of the new file: one step,      *)
(* whose save may fail.  All handlers run at once, and cib may crash.      *)
(*                                                                         *)
(* Left out: the mode a user chooses with PATCH /api/prefs, the reads that *)
(* decide whether a session may be created at all, and the two words of    *)
(* the string Server.providerHost, which is read and written as one.       *)
(***************************************************************************)
EXTENDS Naturals, Functions

CONSTANTS Writes,       \* requests that add, replace or delete a provider
          Logins,       \* logins of claude that succeed
          Creates,      \* requests that create a session
          None,         \* no record, no host
          MaxFailures,  \* bound on the saves and logouts that fail
          MaxCrashes    \* bound on the restarts of cib

ASSUME CredentialsAssumption ==
  /\ None \notin Writes
  /\ MaxFailures \in Nat /\ MaxCrashes \in Nat

VARIABLES
  items,      \* Store.items: the record of each provider id
  disk,       \* the file
  mode,       \* DefaultAuthMode
  modeDisk,   \* its file
  creds,      \* claude is logged in to a subscription
  hostSlot,   \* Server.providerHost
  write,      \* where each provider request is, or how it ended
  login,      \* where each login's code request is
  todo,       \* the providers it has listed and not yet deleted
  create,     \* where each create request is
  asked,      \* the provider it names
  want,       \* the record it looked up
  used,       \* the record whose host its session got
  alone,      \* history: no other create was under way with it
  kept,       \* history: the records whose writing returned success
  gone,       \* history: those whose removal returned success
  removed,    \* history: those removed from memory at some time
  failures,   \* saves and logouts that failed
  crashes,    \* restarts
  missed,     \* history: a login that its code request did not see succeed
  raced       \* history: a provider request and a login were under way at once

storeVars  == <<items, disk>>
modeVars   == <<mode, modeDisk>>
loginVars  == <<login, todo>>
createVars == <<create, asked, want, used, alone>>
pastVars   == <<kept, gone, removed>>
faultVars  == <<failures, crashes, missed>>
credsVars == <<storeVars, modeVars, creds, hostSlot, write, loginVars, createVars, pastVars,
          faultVars, raced>>

CredsInit ==
  /\ items = [w \in Writes |-> None] /\ disk = items
  /\ mode = "unset" /\ modeDisk = "unset"
  /\ creds = FALSE
  /\ hostSlot = None
  /\ write = [w \in Writes |-> "none"]
  /\ login = [l \in Logins |-> "none"] /\ todo = [l \in Logins |-> {}]
  /\ create = [c \in Creates |-> "none"]
  /\ asked = [c \in Creates |-> None] /\ want = asked /\ used = [c \in Creates |-> None]
  /\ alone = [c \in Creates |-> FALSE]
  /\ kept = {} /\ gone = {} /\ removed = {}
  /\ failures = 0 /\ crashes = 0 /\ missed = FALSE
  /\ raced = FALSE

Stored == {p \in Writes : items[p] # None}

Writing    == {w \in Writes : write[w] \in {"logout", "mode"}}
LoggingIn  == {l \in Logins : login[l] \in {"exited", "delete"}}
Creating   == {c \in Creates : create[c] \in {"mark", "stash", "look", "use", "reset"}}

Fails == failures < MaxFailures /\ failures' = failures + 1

\* A store's change and its save: a new file is written and renamed over the
\* old one, or the old one stays.
Save(new, ok) ==
  /\ items' = new
  /\ IF ok THEN disk' = new /\ UNCHANGED failures ELSE UNCHANGED disk /\ Fails

\* Prefs.Patch, whose error both callers ignore.
Patch(m) ==
  /\ mode' = m
  /\ \/ modeDisk' = m /\ UNCHANGED failures
     \/ UNCHANGED modeDisk /\ Fails

----------------------------------------------------------------------------
(* Providers *)

\* addProvider and replaceProvider: the store's part.
Put(w, p, ok) ==
  /\ write[w] = "none"
  /\ IF p = w THEN TRUE ELSE items[p] # None
  /\ Save([items EXCEPT ![p] = w], ok)
  /\ write' = [write EXCEPT ![w] = IF ok THEN "logout" ELSE "failed"]
  /\ kept' = IF ok THEN kept \cup {w} ELSE kept
  /\ gone' = IF ok THEN gone \cup ({items[p]} \ {None}) ELSE gone
  /\ removed' = removed \cup ({items[p]} \ {None})
  /\ raced' = (raced \/ LoggingIn # {})
  /\ UNCHANGED <<modeVars, creds, hostSlot, loginVars, createVars, crashes, missed>>

\* Mutant: the subscription is left alone.
WriteKeepsLogin(w) ==
  /\ write[w] = "logout"
  /\ write' = [write EXCEPT ![w] = "mode"]
  /\ UNCHANGED <<storeVars, modeVars, creds, hostSlot, loginVars, createVars, pastVars, faultVars,
                 raced>>

\* switchAuthToAPIKey: `claude auth logout` within five seconds, or not.
WriteLogsOut(w) ==
  /\ write[w] = "logout"
  /\ write' = [write EXCEPT ![w] = "mode"]
  /\ \/ creds' = FALSE /\ UNCHANGED failures
     \/ UNCHANGED creds /\ Fails
  /\ UNCHANGED <<storeVars, modeVars, hostSlot, loginVars, createVars, pastVars, crashes, missed,
                 raced>>

\* Mutant: the mode is not switched.
WriteKeepsMode(w) ==
  /\ write[w] = "mode"
  /\ write' = [write EXCEPT ![w] = "ok"]
  /\ UNCHANGED <<storeVars, modeVars, creds, hostSlot, loginVars, createVars, pastVars, faultVars,
                 raced>>

WriteSetsMode(w) ==
  /\ write[w] = "mode"
  /\ write' = [write EXCEPT ![w] = "ok"]
  /\ Patch("api_key")
  /\ UNCHANGED <<storeVars, creds, hostSlot, loginVars, createVars, pastVars, crashes, missed,
                 raced>>

\* deleteProvider.
Delete(w, p, ok) ==
  /\ write[w] = "none"
  /\ items[p] # None
  /\ Save([items EXCEPT ![p] = None], ok)
  /\ write' = [write EXCEPT ![w] = IF ok THEN "ok" ELSE "failed"]
  /\ gone' = IF ok THEN gone \cup {items[p]} ELSE gone
  /\ removed' = removed \cup {items[p]}
  /\ UNCHANGED <<modeVars, creds, hostSlot, loginVars, createVars, kept, crashes, missed, raced>>

----------------------------------------------------------------------------
(* The subscription *)

\* claude writes its credentials and exits.
ClaudeLogsIn(l) ==
  /\ login[l] = "none"
  /\ login' = [login EXCEPT ![l] = "exited"]
  /\ creds' = TRUE
  /\ raced' = (raced \/ Writing # {})
  /\ UNCHANGED <<storeVars, modeVars, hostSlot, write, todo, createVars, pastVars, faultVars>>

\* SubmitCode answers an error all the same: its client has gone, or it read
\* the flow's state before the reaper stored it (see ClaudeLogin).
LoginMissed(l) ==
  /\ login[l] = "exited"
  /\ login' = [login EXCEPT ![l] = "error"]
  /\ missed' = TRUE
  /\ UNCHANGED <<storeVars, modeVars, creds, hostSlot, write, todo, createVars, pastVars, failures,
                 crashes, raced>>

\* claudeAuthCode lists the providers ...
LoginLists(l) ==
  /\ login[l] = "exited"
  /\ login' = [login EXCEPT ![l] = "delete"]
  /\ todo' = [todo EXCEPT ![l] = Stored]
  /\ UNCHANGED <<storeVars, modeVars, creds, hostSlot, write, createVars, pastVars, faultVars, raced>>

\* ... deletes each, whatever Delete says ...
LoginDeletes(l, p, ok) ==
  /\ login[l] = "delete"
  /\ p \in todo[l]
  /\ todo' = [todo EXCEPT ![l] = @ \ {p}]
  /\ IF items[p] = None
     THEN ok /\ UNCHANGED <<storeVars, gone, removed, failures>>
     ELSE /\ Save([items EXCEPT ![p] = None], ok)
          /\ gone' = IF ok THEN gone \cup {items[p]} ELSE gone
          /\ removed' = removed \cup {items[p]}
  /\ UNCHANGED <<modeVars, creds, hostSlot, write, login, createVars, kept, crashes, missed, raced>>

\* ... and sets the mode.
LoginSetsMode(l) ==
  /\ login[l] = "delete"
  /\ todo[l] = {}
  /\ login' = [login EXCEPT ![l] = "ok"]
  /\ Patch("subscription")
  /\ UNCHANGED <<storeVars, creds, hostSlot, write, todo, createVars, pastVars, crashes, missed,
                 raced>>

\* claudeAuthLogout.
LogOut ==
  /\ creds
  /\ creds' = FALSE
  /\ UNCHANGED <<storeVars, modeVars, hostSlot, write, loginVars, createVars, pastVars, faultVars,
                 raced>>

----------------------------------------------------------------------------
(* createSession *)

Begin(c, s) ==
  /\ create[c] = "none"
  /\ create' = [create EXCEPT ![c] = s]
  /\ alone' = [d \in Creates |-> IF d = c THEN Creating = {} ELSE alone[d] /\ d \notin Creating]

\* A subscription, or an API key of its own.
CreatePlain(c) ==
  /\ Begin(c, "look")
  /\ UNCHANGED <<storeVars, modeVars, creds, hostSlot, write, loginVars, asked, want, used, pastVars,
                 faultVars, raced>>

\* A stored provider: its key and host are read.
CreateReads(c, p) ==
  /\ items[p] # None
  /\ Begin(c, "mark")
  /\ asked' = [asked EXCEPT ![c] = p]
  /\ want' = [want EXCEPT ![c] = items[p]]
  /\ UNCHANGED <<storeVars, modeVars, creds, hostSlot, write, loginVars, used, pastVars,
                 faultVars, raced>>

\* Mutant: MarkUsed stores the record it was given.
CreateMarksStale(c, ok) ==
  /\ create[c] = "mark"
  /\ create' = [create EXCEPT ![c] = "stash"]
  /\ Save([items EXCEPT ![asked[c]] = want[c]], ok)
  /\ UNCHANGED <<modeVars, creds, hostSlot, write, loginVars, asked, want, used, alone, pastVars,
                 crashes, missed, raced>>

\* MarkUsed looks the record up again under the lock and saves, best effort.
CreateMarks(c, ok) ==
  /\ create[c] = "mark"
  /\ create' = [create EXCEPT ![c] = "stash"]
  /\ IF items[asked[c]] = None THEN ok /\ UNCHANGED <<storeVars, failures>> ELSE Save(items, ok)
  /\ UNCHANGED <<modeVars, creds, hostSlot, write, loginVars, asked, want, used, alone, pastVars,
                 crashes, missed, raced>>

CreateStashes(c) ==
  /\ create[c] = "stash"
  /\ create' = [create EXCEPT ![c] = "look"]
  /\ hostSlot' = want[c]
  /\ UNCHANGED <<storeVars, modeVars, creds, write, loginVars, asked, want, used, alone, pastVars,
                 faultVars, raced>>

\* Is there a host?  If not, the session is spawned without.
CreateLooks(c) ==
  /\ create[c] = "look"
  /\ create' = [create EXCEPT ![c] = IF hostSlot = None THEN "ok" ELSE "use"]
  /\ UNCHANGED <<storeVars, modeVars, creds, hostSlot, write, loginVars, asked, want, used, alone,
                 pastVars, faultVars, raced>>

CreateUses(c) ==
  /\ create[c] = "use"
  /\ create' = [create EXCEPT ![c] = "reset"]
  /\ used' = [used EXCEPT ![c] = hostSlot]
  /\ UNCHANGED <<storeVars, modeVars, creds, hostSlot, write, loginVars, asked, want, alone, pastVars,
                 faultVars, raced>>

\* Mutant: the host is left for the next session.
CreateKeepsSlot(c) ==
  /\ create[c] = "reset"
  /\ create' = [create EXCEPT ![c] = "ok"]
  /\ UNCHANGED <<storeVars, modeVars, creds, hostSlot, write, loginVars, asked, want, used, alone,
                 pastVars, faultVars, raced>>

CreateResets(c) ==
  /\ create[c] = "reset"
  /\ create' = [create EXCEPT ![c] = "ok"]
  /\ hostSlot' = None
  /\ UNCHANGED <<storeVars, modeVars, creds, write, loginVars, asked, want, used, alone, pastVars,
                 faultVars, raced>>

----------------------------------------------------------------------------

\* cib dies, and its requests with it; the next one loads the files.
Crash ==
  /\ crashes < MaxCrashes
  /\ crashes' = crashes + 1
  /\ items' = disk /\ mode' = modeDisk
  /\ hostSlot' = None
  /\ write' = [w \in Writes |-> IF w \in Writing THEN "dead" ELSE write[w]]
  /\ login' = [l \in Logins |-> IF l \in LoggingIn THEN "error" ELSE login[l]]
  /\ create' = [c \in Creates |-> IF c \in Creating THEN "dead" ELSE create[c]]
  /\ UNCHANGED <<disk, modeDisk, creds, todo, asked, want, used, alone, pastVars, failures, missed, raced>>

CredsNext ==
  \/ \E w \in Writes :
       \/ \E p \in Writes, ok \in BOOLEAN : Put(w, p, ok) \/ Delete(w, p, ok)
       \/ WriteLogsOut(w) \/ WriteSetsMode(w)
  \/ \E l \in Logins :
       \/ ClaudeLogsIn(l) \/ LoginMissed(l) \/ LoginLists(l) \/ LoginSetsMode(l)
       \/ \E p \in Writes, ok \in BOOLEAN : LoginDeletes(l, p, ok)
  \/ LogOut
  \/ \E c \in Creates :
       \/ CreatePlain(c) \/ CreateStashes(c) \/ CreateLooks(c) \/ CreateUses(c) \/ CreateResets(c)
       \/ \E p \in Writes : CreateReads(c, p)
       \/ \E ok \in BOOLEAN : CreateMarks(c, ok)
  \/ Crash

CredsSpec == CredsInit /\ [][CredsNext]_credsVars

----------------------------------------------------------------------------
(* Properties *)

StoreTypes ==
  /\ items \in [Writes -> Writes \cup {None}]
  /\ disk \in [Writes -> Writes \cup {None}]
  /\ mode \in {"unset", "api_key", "subscription"}
  /\ modeDisk \in {"unset", "api_key", "subscription"}
  /\ kept \subseteq Writes /\ gone \subseteq Writes /\ removed \subseteq Writes

RequestTypes ==
  /\ creds \in BOOLEAN
  /\ write \in [Writes -> {"none", "logout", "mode", "ok", "failed", "dead"}]
  /\ login \in [Logins -> {"none", "exited", "delete", "ok", "error"}]
  /\ todo \in [Logins -> SUBSET Writes]
  /\ failures \in 0..MaxFailures /\ crashes \in 0..MaxCrashes
  /\ missed \in BOOLEAN /\ raced \in BOOLEAN

CreateTypes ==
  /\ create \in [Creates -> {"none", "mark", "stash", "look", "use", "reset", "ok", "dead"}]
  /\ asked \in [Creates -> Writes \cup {None}]
  /\ want \in [Creates -> Writes \cup {None}]
  /\ used \in [Creates -> Writes \cup {None}]
  /\ alone \in [Creates -> BOOLEAN]
  /\ hostSlot \in Writes \cup {None}

\* Types; and no host waits in the shared slot when no session is created.
CredsTypeOK ==
  /\ StoreTypes /\ RequestTypes /\ CreateTypes
  /\ hostSlot # None => Creating # {}

\* What a request was told survives failed saves and restarts: a record whose
\* writing succeeded is in the file unless it was removed since, and one
\* whose removal succeeded (providers.go:164-166: it "is GONE after this call
\* returns") is nowhere, and nothing brings it back.
AnsweredSurvives ==
  /\ kept \subseteq Range(disk) \cup removed
  /\ gone \cap (Range(disk) \cup Range(items)) = {}

Quiet == Writing = {} /\ LoggingIn = {}

\* Whatever provider requests and logins run at once, once they are over the
\* subscription and an API provider are not both there, provided that each
\* login was seen to succeed, no save or logout failed and cib did not crash.
NotBoth ==
  Quiet /\ failures = 0 /\ crashes = 0 /\ ~missed => ~(creds /\ Stored # {})

\* If, moreover, no provider request and login ran at once, the preferred
\* mode does not name the one that is not there in favour of the other.
ModeAgrees ==
  Quiet /\ failures = 0 /\ crashes = 0 /\ ~missed /\ ~raced =>
    /\ mode = "api_key" => ~creds
    /\ mode = "subscription" => Stored = {}

\* Claude is logged in by one way, and the mode agrees.
OneWayIn == NotBoth /\ ModeAgrees

\* A session created while no other was being created gets the host of the
\* provider it names, and none if it names none: nothing is left over from
\* requests before it.
HostIsOwnAlone ==
  \A c \in Creates : create[c] = "ok" /\ alone[c] => used[c] = want[c]
=============================================================================
