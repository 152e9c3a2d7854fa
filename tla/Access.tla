------------------------------- MODULE Access -------------------------------
(***************************************************************************)
(* The token store (internal/auth/tokens.go with its handlers in           *)
(* server/tokens.go) and the replay check of the AES envelopes              *)
(* (internal/aes/replay.go, readEnvelope1 in server/aes.go), across failed  *)
(* saves, crashes and boots with a new master token (cmd/cib/main.go).      *)
(*                                                                         *)
(* Time passes between any two steps.  The cache keeps the instants it is   *)
(* shown, the timestamps are whole milliseconds, and so is what they are    *)
(* compared with.  A device token is its id; the master is the secret it    *)
(* was set from.  The store's methods hold its lock, so each is one action; their   *)
(* answers are sent later.  What an envelope says is left out.              *)
(***************************************************************************)
EXTENDS Integers, Sequences

CONSTANTS Devices, Secrets, Envelopes, Handlers,
          NoSecret, \* the variable is not set: CIB_AUTH_DISABLED=1
          Down,     \* no process runs
          KeyOf,    \* the device whose key seals an envelope
          Window,   \* of the replay cache, in milliseconds
          Fine,     \* instants of the clock in a millisecond
          MaxTime   \* bound on the clock, in milliseconds

ASSUME AccessAssumption ==
  /\ KeyOf \in [Envelopes -> Devices]
  /\ Window \in Nat /\ MaxTime \in Nat /\ Fine \in Nat \ {0}
  /\ Devices \cap Secrets = {} /\ NoSecret \notin Secrets /\ Down \notin Secrets \cup {NoSecret}

VARIABLES
  now,     \* in instants
  env,     \* CIB_AUTH_TOKEN of the running process, or Down
  mem,     \* FileStore.tokens
  tokensJson,
  pending, \* what was done and is not answered yet
  told,    \* history: what was answered with success
  revokeAsked, \* history: the devices somebody asked to revoke
  stamp,   \* the timestamp each envelope carries, in milliseconds
  seen,    \* ReplayCache.seen: the instants at which an envelope was let through
  handler, \* what each envelope handler is at
  passed   \* history: when, since the boot, an envelope was let through

tokenVars == <<env, mem, tokensJson>>
replyVars == <<pending, told, revokeAsked>>
cacheVars == <<stamp, seen, handler, passed>>
vars == <<now, tokenVars, replyVars, cacheVars>>

Up == env # Down
Instants == 0..(MaxTime + 1) * Fine - 1
AtRest == [at |-> "idle"]
Answer == [op : {"mint", "revoke"}, device : Devices]

Init ==
  /\ now = 0 /\ env = Down /\ mem = {} /\ tokensJson = {}
  /\ pending = {} /\ told = {} /\ revokeAsked = {}
  /\ stamp \in [Envelopes -> 0..MaxTime]
  /\ seen = [e \in Envelopes |-> {}] /\ passed = [e \in Envelopes |-> <<>>]
  /\ handler = [h \in Handlers |-> AtRest]

Tick ==
  /\ now + 1 \in Instants
  /\ now' = now + 1
  /\ UNCHANGED <<tokenVars, replyVars, cacheVars>>

----------------------------------------------------------------------------
(* The process *)

\* Mutant: the old master entry stays when the variable has changed.
BootAddsMaster(secret) ==
  /\ ~Up
  /\ env' = secret
  /\ mem' = tokensJson \cup ({secret} \ {NoSecret})
  /\ tokensJson' = mem'
  /\ UNCHANGED <<now, replyVars, cacheVars>>

\* Load, then SetMaster if the variable is set, which saves; a boot whose load or
\* save fails ends the process.
Boot(secret) ==
  /\ ~Up
  /\ env' = secret
  /\ mem' = IF secret = NoSecret THEN tokensJson ELSE (tokensJson \ Secrets) \cup {secret}
  /\ tokensJson' = mem'
  /\ UNCHANGED <<now, replyVars, cacheVars>>

\* At any instant; the rename makes a save take place or not.
ProcessDies ==
  /\ Up
  /\ env' = Down /\ mem' = {} /\ pending' = {}
  /\ seen' = [e \in Envelopes |-> {}] /\ passed' = [e \in Envelopes |-> <<>>]
  /\ handler' = [h \in Handlers |-> AtRest]
  /\ UNCHANGED <<now, tokensJson, told, revokeAsked, stamp>>

----------------------------------------------------------------------------
(* The token store *)

\* FileStore.save of the map m, which may fail.
SaveTokens(m, saved) == tokensJson' = IF saved THEN m ELSE tokensJson

\* Mutant: a save that fails is answered with success.
MintUnsaved(d) ==
  /\ Up /\ d \notin mem \cup tokensJson /\ d \notin revokeAsked
  /\ \A a \in pending \cup told : a.device # d
  /\ mem' = mem \cup {d}
  /\ \E saved \in BOOLEAN : SaveTokens(mem', saved)
  /\ pending' = pending \cup {[op |-> "mint", device |-> d]}
  /\ UNCHANGED <<now, env, told, revokeAsked, cacheVars>>

\* The id is new.  A token whose save fails is answered 500 and stays in mem.
Mint(d) ==
  /\ Up /\ d \notin mem \cup tokensJson /\ d \notin revokeAsked
  /\ \A a \in pending \cup told : a.device # d
  /\ mem' = mem \cup {d}
  /\ \E saved \in BOOLEAN :
       /\ SaveTokens(mem', saved)
       /\ pending' = pending \cup (IF saved THEN {[op |-> "mint", device |-> d]} ELSE {})
  /\ UNCHANGED <<now, env, told, revokeAsked, cacheVars>>

\* Mutant: a revocation is left to the next save.
RevokeUnsaved(d) ==
  /\ Up /\ d \in mem
  /\ revokeAsked' = revokeAsked \cup {d} /\ mem' = mem \ {d}
  /\ pending' = pending \cup {[op |-> "revoke", device |-> d]}
  /\ UNCHANGED <<now, env, tokensJson, told, cacheVars>>

\* Anybody who lists the tokens can revoke one, also before its mint is
\* answered.  A token that is not there is answered 404, and so is a failed save.
Revoke(d) ==
  /\ Up
  /\ revokeAsked' = revokeAsked \cup {d}
  /\ mem' = mem \ {d}
  /\ \E saved \in BOOLEAN :
       /\ SaveTokens(mem', saved /\ d \in mem)
       /\ pending' = pending \cup (IF saved /\ d \in mem
                                     THEN {[op |-> "revoke", device |-> d]} ELSE {})
  /\ UNCHANGED <<now, env, told, cacheVars>>

\* 201 or 204 reaches the client.
Answers(a) ==
  /\ a \in pending
  /\ pending' = pending \ {a} /\ told' = told \cup {a}
  /\ UNCHANGED <<now, tokenVars, revokeAsked, cacheVars>>

----------------------------------------------------------------------------
(* The envelopes: readEnvelope1 *)

Half == Window \div 2

\* UnixMilli: what is finer than a millisecond is cut off.
Millis(t) == t \div Fine

\* Mutant: the whole window on each side.
InTimeWhole(e) == Millis(now) - stamp[e] \in -Window..Window

\* CheckTimestamp.
InTime(e) == Millis(now) - stamp[e] \in -Half..Half

\* A delivery, or another one, of the envelope is in time.
Receives(h, e) ==
  /\ Up /\ handler[h].at = "idle" /\ InTime(e)
  /\ handler' = [handler EXCEPT ![h] = [at |-> "stamped", env |-> e, begun |-> now]]
  /\ UNCHANGED <<now, tokenVars, replyVars, stamp, seen, passed>>

\* GetAESSecret; without the key the answer is 401.
Keys(h) ==
  /\ handler[h].at = "stamped"
  /\ handler' = [handler EXCEPT ![h] =
       IF KeyOf[handler[h].env] \in mem THEN [@ EXCEPT !.at = "keyed"] ELSE AtRest]
  /\ UNCHANGED <<now, tokenVars, replyVars, stamp, seen, passed>>

\* Mutant: an entry as old as the window goes.
EvictedAtWindow(f) == {t \in f : now - t < Window * Fine}

\* evictLocked, of what is seen of one envelope: here the instants are compared.
Evicted(f) == {t \in f : now - t <= Window * Fine}

\* CheckAndRecord: the first is let through, and another gets 409.
Records(h) ==
  LET e == handler[h].env
      kept == [x \in Envelopes |-> Evicted(seen[x])]
  IN  /\ handler[h].at = "keyed"
      /\ handler' = [handler EXCEPT ![h] = AtRest]
      /\ IF kept[e] = {}
           THEN /\ seen' = [kept EXCEPT ![e] = {now}]
                /\ passed' = [passed EXCEPT ![e] =
                     Append(@, [begun |-> handler[h].begun, at |-> now])]
           ELSE seen' = kept /\ UNCHANGED passed
      /\ UNCHANGED <<now, tokenVars, replyVars, stamp>>

Next ==
  \/ Tick \/ ProcessDies \/ \E secret \in Secrets \cup {NoSecret} : Boot(secret)
  \/ \E d \in Devices : Mint(d) \/ Revoke(d)
  \/ \E a \in pending : Answers(a)
  \/ \E h \in Handlers : (\E e \in Envelopes : Receives(h, e)) \/ Keys(h) \/ Records(h)

Spec == Init /\ [][Next]_vars

----------------------------------------------------------------------------
(* Properties *)

Passage == [begun : Instants, at : Instants]

\* The shapes of tokens.go and replay.go; a process that is down has no
\* handlers, no cache and nothing in memory.
TypeOK ==
  /\ now \in Instants
  /\ env \in Secrets \cup {NoSecret, Down}
  /\ mem \subseteq Devices \cup Secrets /\ tokensJson \subseteq Devices \cup Secrets
  /\ pending \subseteq Answer /\ told \subseteq Answer /\ revokeAsked \subseteq Devices
  /\ stamp \in [Envelopes -> 0..MaxTime]
  /\ seen \in [Envelopes -> SUBSET Instants]
  /\ handler \in [Handlers -> {AtRest} \cup
                    [at : {"stamped", "keyed"}, env : Envelopes, begun : Instants]]
  /\ passed \in [Envelopes -> Seq(Passage)]
  /\ ~Up => /\ mem = {} /\ pending = {} /\ handler = [h \in Handlers |-> AtRest]
            /\ seen = [e \in Envelopes |-> {}] /\ passed = [e \in Envelopes |-> <<>>]

\* A token that was handed out, and that nobody asked to revoke, is known to
\* the process and survives a crash, whatever saves of other tokens failed.
MintedKept ==
  \A a \in told : a.op = "mint" /\ a.device \notin revokeAsked =>
    a.device \in tokensJson /\ (Up => a.device \in mem)

\* A token whose revocation was confirmed is gone, and no restart brings it back.
RevokedGone ==
  \A a \in told : a.op = "revoke" => a.device \notin mem \cup tokensJson

\* What a client was told of a token is so, in memory and on disk.
TokensAsTold == MintedKept /\ RevokedGone

\* There are never two master tokens, in memory or on disk, whatever variables the
\* boots had, and the one of a process that was given one is there.
OneMaster ==
  /\ \A s, t \in Secrets \cap (mem \cup tokensJson) : s = t
  /\ Up /\ env # NoSecret => env \in mem \cap tokensJson

\* The cache lets an envelope through a second time only more than the window
\* after the first, however the handlers interleave.
TwiceApart ==
  \A e \in Envelopes : \A i, j \in 1..Len(passed[e]) :
    i < j => passed[e][j].at - passed[e][i].at > Window * Fine

\* An envelope is let through again only by a handler that was delayed between
\* its two checks: by as much as the first delivery came after the earliest
\* millisecond its timestamp allows, less the one millisecond that the timestamp
\* check cuts off and the cache does not.  (So a repeat can pass undelayed, but
\* only if the first delivery came in that first millisecond, half the window
\* ahead of its timestamp.)
RepeatsAreSlow ==
  \A e \in Envelopes : \A i, j \in 1..Len(passed[e]) :
    LET delay == passed[e][j].at - passed[e][j].begun
        after == Millis(passed[e][i].begun) - (stamp[e] - Half)
    IN  i < j => delay > (after - 1) * Fine

\* The timestamp check, the cache and its eviction make up one guard though no
\* lock holds them together.
OneGuard == TwiceApart /\ RepeatsAreSlow
=============================================================================
