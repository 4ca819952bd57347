------------------------------ MODULE FrontKey ------------------------------
(***************************************************************************)
(* resolve_front_key of src/api/app/internal.py: the one LiteLLM key that  *)
(* stands for a user at the gateway.  Any number of requests, on any       *)
(* replica of the API, run it at the same time; every await of the         *)
(* function is a step of its own.  The store is Redis (GET, SET, GETDEL    *)
(* and SET NX EX, each atomic); LiteLLM is external: it mints keys,        *)
(* answers /key/info, and may revoke a key at any time.                    *)
(***************************************************************************)
CONSTANTS Callers,       \* requests in flight (authz proxy and session API)
          Subs,          \* LiteLLM user ids
          Keys,          \* the keys LiteLLM can mint (bounds the minting)
          NoKey, NoSub, Free,
          LockOutlived,  \* may the 10 s lock expire under a live holder?
          AdminRefused   \* may /key/info answer 4xx for a key that is fine
                         \* (our admin credential, a rate limit)?

ASSUME ConstantsAssumption ==
    /\ NoKey \notin Keys
    /\ NoSub \notin Subs
    /\ Free \notin Callers
    /\ LockOutlived \in BOOLEAN
    /\ AdminRefused \in BOOLEAN

VARIABLES frontkey,  \* frontkey[s]: the "frontkey" record of s, or NoKey
          lock,      \* lock["mint:s"]: who set it (the store keeps "1"), or Free
          owner,     \* owner[k]: user k was minted for, NoSub while unminted
          live,      \* the keys LiteLLM accepts
          pc,        \* pc[c]: the await request c is at
          sub,       \* sub[c]: the user request c asks for
          key,       \* key[c]: the local `key` / `minted` of request c
          dropped,   \* history: keys that were in the store and left it
          rejected,  \* history: rejected[c]: the key c found dead
          orphaned   \* history: the users whose lock was set by a request
                     \* that died with it

vars == <<frontkey, lock, owner, live, pc, sub, key, dropped, rejected, orphaned>>

(* Awaits between acquire and the end of the finally block. *)
Critical == {"reread", "generate", "put", "release"}
Running  == {"alive", "pop", "acquire", "wait"} \cup Critical
Final    == {"returned", "in_progress", "failed", "crashed"}

TypeOK == /\ frontkey \in [Subs -> Keys \cup {NoKey}]
          /\ lock \in [Subs -> Callers \cup {Free}]
          /\ owner \in [Keys -> Subs \cup {NoSub}]
          /\ live \in SUBSET Keys
          /\ pc \in [Callers -> {"idle"} \cup Running \cup Final]
          /\ sub \in [Callers -> Subs]
          /\ key \in [Callers -> Keys \cup {NoKey}]
          /\ dropped \in SUBSET Keys
          /\ rejected \in [Callers -> Keys \cup {NoKey}]
          /\ orphaned \in SUBSET Subs

Init == /\ frontkey = [s \in Subs |-> NoKey]
        /\ lock = [s \in Subs |-> Free]
        /\ owner = [k \in Keys |-> NoSub]
        /\ live = {}
        /\ pc = [c \in Callers |-> "idle"]
        /\ sub \in [Callers -> Subs]
        /\ key = [c \in Callers |-> NoKey]
        /\ dropped = {}
        /\ rejected = [c \in Callers |-> NoKey]
        /\ orphaned = {}

Goto(c, step) == pc' = [pc EXCEPT ![c] = step]
Hold(c, k)    == key' = [key EXCEPT ![c] = k]

(* What a write of k (or a removal, k = NoKey) to the record of s does. *)
Store(s, k) ==
    /\ frontkey' = [frontkey EXCEPT ![s] = k]
    /\ dropped' = dropped \cup ({frontkey[s]} \ {NoKey, k})

(* _key_alive: TRUE on success, on a 5xx and when LiteLLM is unreachable;  *)
(* FALSE on every 4xx, which is normally the rejection of a dead key.      *)
KeyAlive(k) == {TRUE} \cup {a \in {FALSE} : k \notin live \/ AdminRefused}

----------------------------------------------------------------------------
(* A request arrives and reads the record. *)
Begin(c, s) ==
    /\ pc[c] \in {"idle"} \cup Final
    /\ sub' = [sub EXCEPT ![c] = s]
    /\ Hold(c, frontkey[s])
    /\ rejected' = [rejected EXCEPT ![c] = NoKey]
    /\ Goto(c, IF frontkey[s] = NoKey THEN "acquire" ELSE "alive")
    /\ UNCHANGED <<frontkey, lock, owner, live, dropped, orphaned>>

(* Mutant: an accepted key is stored again, as a sliding record would be. *)
CheckAliveRestore(c) ==
    /\ pc[c] = "alive"
    /\ \E alive \in KeyAlive(key[c]) :
         /\ Goto(c, IF alive THEN "returned" ELSE "pop")
         /\ rejected' = [rejected EXCEPT ![c] = IF alive THEN NoKey ELSE key[c]]
         /\ IF alive THEN Store(sub[c], key[c]) ELSE UNCHANGED <<frontkey, dropped>>
    /\ UNCHANGED <<lock, owner, live, sub, key, orphaned>>

(* LiteLLM is asked about the key that was read. *)
CheckAlive(c) ==
    /\ pc[c] = "alive"
    /\ \E alive \in KeyAlive(key[c]) :
         /\ Goto(c, IF alive THEN "returned" ELSE "pop")
         /\ rejected' = [rejected EXCEPT ![c] = IF alive THEN NoKey ELSE key[c]]
    /\ UNCHANGED <<frontkey, lock, owner, live, sub, key, dropped, orphaned>>

(* Mutant: the dead key is not removed before the mint. *)
PopNothing(c) ==
    /\ pc[c] = "pop"
    /\ Hold(c, NoKey)
    /\ Goto(c, "acquire")
    /\ UNCHANGED <<frontkey, lock, owner, live, sub, dropped, rejected, orphaned>>

(* GETDEL of whatever the record holds by now. *)
Pop(c) ==
    /\ pc[c] = "pop"
    /\ Store(sub[c], NoKey)
    /\ Hold(c, NoKey)
    /\ Goto(c, "acquire")
    /\ UNCHANGED <<lock, owner, live, sub, rejected, orphaned>>

(* Mutant: SET without NX. *)
AcquireAlways(c) ==
    /\ pc[c] = "acquire"
    /\ lock' = [lock EXCEPT ![sub[c]] = c]
    /\ Goto(c, "reread")
    /\ UNCHANGED <<frontkey, owner, live, sub, key, dropped, rejected, orphaned>>

(* SET NX EX 10: the lock, or the half-second wait. *)
Acquire(c) ==
    /\ pc[c] = "acquire"
    /\ IF lock[sub[c]] = Free
         THEN lock' = [lock EXCEPT ![sub[c]] = c] /\ Goto(c, "reread")
         ELSE UNCHANGED lock /\ Goto(c, "wait")
    /\ UNCHANGED <<frontkey, owner, live, sub, key, dropped, rejected, orphaned>>

(* Mutant: the waiter retries the lock instead of giving up. *)
WaitRetry(c) ==
    /\ pc[c] = "wait"
    /\ Hold(c, frontkey[sub[c]])
    /\ Goto(c, IF frontkey[sub[c]] = NoKey THEN "acquire" ELSE "returned")
    /\ UNCHANGED <<frontkey, lock, owner, live, sub, dropped, rejected, orphaned>>

(* Mutant: the waiter reads a record that is not its user's. *)
WaitAnySub(c) ==
    /\ pc[c] = "wait"
    /\ \E s \in Subs :
         /\ Hold(c, frontkey[s])
         /\ Goto(c, IF frontkey[s] = NoKey THEN "in_progress" ELSE "returned")
    /\ UNCHANGED <<frontkey, lock, owner, live, sub, dropped, rejected, orphaned>>

(* After the wait: one more read, then the key or FrontKeyMintInProgress. *)
Wait(c) ==
    /\ pc[c] = "wait"
    /\ Hold(c, frontkey[sub[c]])
    /\ Goto(c, IF frontkey[sub[c]] = NoKey THEN "in_progress" ELSE "returned")
    /\ UNCHANGED <<frontkey, lock, owner, live, sub, dropped, rejected, orphaned>>

(* Mutant: no second read under the lock. *)
RereadSkip(c) ==
    /\ pc[c] = "reread"
    /\ Goto(c, "generate")
    /\ UNCHANGED <<frontkey, lock, owner, live, sub, key, dropped, rejected, orphaned>>

(* The second read, under the lock. *)
Reread(c) ==
    /\ pc[c] = "reread"
    /\ Hold(c, frontkey[sub[c]])
    /\ Goto(c, IF frontkey[sub[c]] = NoKey THEN "generate" ELSE "release")
    /\ UNCHANGED <<frontkey, lock, owner, live, sub, dropped, rejected, orphaned>>

(* Mutant: the minted key is handed out without being stored. *)
GenerateOnly(c, k) ==
    /\ pc[c] = "generate"
    /\ owner[k] = NoSub
    /\ owner' = [owner EXCEPT ![k] = sub[c]]
    /\ live' = live \cup {k}
    /\ Hold(c, k)
    /\ Goto(c, "release")
    /\ UNCHANGED <<frontkey, lock, sub, dropped, rejected, orphaned>>

(* generate_litellm_key succeeds. *)
Generate(c, k) ==
    /\ pc[c] = "generate"
    /\ owner[k] = NoSub
    /\ owner' = [owner EXCEPT ![k] = sub[c]]
    /\ live' = live \cup {k}
    /\ Hold(c, k)
    /\ Goto(c, "put")
    /\ UNCHANGED <<frontkey, lock, sub, dropped, rejected, orphaned>>

(* LiteLLM minted k but the answer never came: an httpx.HTTPError here. *)
GenerateLost(c, k) ==
    /\ pc[c] = "generate"
    /\ owner[k] = NoSub
    /\ owner' = [owner EXCEPT ![k] = sub[c]]
    /\ live' = live \cup {k}
    /\ Goto(c, "release")
    /\ UNCHANGED <<frontkey, lock, sub, key, dropped, rejected, orphaned>>

(* LiteLLM refuses or cannot be reached: FrontKeyUnavailable. *)
GenerateFails(c) ==
    /\ pc[c] = "generate"
    /\ Goto(c, "release")
    /\ UNCHANGED <<frontkey, lock, owner, live, sub, key, dropped, rejected, orphaned>>

(* The minted key is stored. *)
Put(c) ==
    /\ pc[c] = "put"
    /\ Store(sub[c], key[c])
    /\ Goto(c, "release")
    /\ UNCHANGED <<lock, owner, live, sub, key, rejected, orphaned>>

(* Mutant: the failed write is outside the try. *)
PutFailsOutside(c) ==
    /\ pc[c] = "put"
    /\ Hold(c, NoKey)
    /\ Goto(c, "failed")
    /\ UNCHANGED <<frontkey, lock, owner, live, sub, dropped, rejected, orphaned>>

(* The store refuses the write; the exception leaves through the finally. *)
PutFails(c) ==
    /\ pc[c] = "put"
    /\ Hold(c, NoKey)
    /\ Goto(c, "release")
    /\ UNCHANGED <<frontkey, lock, owner, live, sub, dropped, rejected, orphaned>>

(* The finally block: DEL of the lock, whoever holds it. *)
Release(c) ==
    /\ pc[c] = "release"
    /\ lock' = [lock EXCEPT ![sub[c]] = Free]
    /\ orphaned' = orphaned \ {sub[c]}
    /\ Goto(c, IF key[c] = NoKey THEN "failed" ELSE "returned")
    /\ UNCHANGED <<frontkey, owner, live, sub, key, dropped, rejected>>

(* The replica running c dies (or c loses the store for good). *)
Crash(c) ==
    /\ pc[c] \in Running
    /\ Goto(c, "crashed")
    /\ Hold(c, NoKey)
    /\ orphaned' = orphaned \cup {s \in Subs : lock[s] = c}
    /\ UNCHANGED <<frontkey, lock, owner, live, sub, dropped, rejected>>

HolderAtWork(s) == \E c \in Callers : lock[s] = c /\ sub[c] = s /\ pc[c] \in Critical

(* The lock's TTL runs out. *)
LockExpires(s) ==
    /\ lock[s] # Free
    /\ LockOutlived \/ ~HolderAtWork(s)
    /\ lock' = [lock EXCEPT ![s] = Free]
    /\ orphaned' = orphaned \ {s}
    /\ UNCHANGED <<frontkey, owner, live, pc, sub, key, dropped, rejected>>

(* A key is deleted, blocked or expires at LiteLLM. *)
Revoke(k) ==
    /\ k \in live
    /\ live' = live \ {k}
    /\ UNCHANGED <<frontkey, lock, owner, pc, sub, key, dropped, rejected, orphaned>>

(* The steps request c takes by itself. *)
Step(c) == \/ CheckAlive(c) \/ Pop(c) \/ Acquire(c) \/ Wait(c) \/ Reread(c)
           \/ \E k \in Keys : Generate(c, k) \/ GenerateLost(c, k)
           \/ GenerateFails(c) \/ Put(c) \/ PutFails(c) \/ Release(c)

Next == \/ \E c \in Callers, s \in Subs : Begin(c, s)
        \/ \E c \in Callers : Step(c) \/ Crash(c)
        \/ \E s \in Subs : LockExpires(s)
        \/ \E k \in Keys : Revoke(k)

Spec == Init /\ [][Next]_vars

(* A running request is always at an await that ends: a call to LiteLLM    *)
(* has a timeout; one to the store has none, and is taken to be answered   *)
(* or to break with its connection.  The lock's TTL always runs out.       *)
FairSpec == /\ Spec
            /\ \A c \in Callers : WF_vars(Step(c))
            /\ \A s \in Subs : WF_vars(LockExpires(s))
----------------------------------------------------------------------------
(* A request is only ever given a key minted for the user it asked for:    *)
(* the record, the lock and the mint all go by the same `sub`.             *)
OwnKey == \A c \in Callers : pc[c] = "returned" => key[c] \in Keys /\ owner[key[c]] = sub[c]

(* A key that left the store never comes back to it: each key is stored    *)
(* once, by the request that minted it, so no late write of a slow request *)
(* can bring a discarded key back.                                         *)
NoResurrection == \A s \in Subs : frontkey[s] \notin dropped

(* A request that found the stored key dead never returns that key, though *)
(* it reads the record up to twice more and other requests write it.       *)
RejectedNotReturned ==
    \A c \in Callers : pc[c] = "returned" /\ rejected[c] # NoKey => key[c] # rejected[c]

(* At most one request per user is between acquire and release.            *)
MintedUnderLock ==
    \A c, d \in Callers :
        c # d /\ sub[c] = sub[d] => ~(pc[c] \in Critical /\ pc[d] \in Critical)

(* A stored key is never overwritten: it must be removed first.  (The      *)
(* second read, under the lock, is what guarantees it.)                    *)
NoOverwrite ==
    [][\A s \in Subs : frontkey[s] # NoKey => frontkey'[s] \in {frontkey[s], NoKey}]_vars

(* A key is removed from the store only when LiteLLM has stopped accepting *)
(* it: the module docstring's "a revoked or expired key is discarded".     *)
(* The late pop of a second request breaks it (README, Findings).          *)
DiscardedKeyIsDead ==
    [][\A s \in Subs : frontkey'[s] # frontkey[s] => frontkey[s] \notin live]_vars

(* Every request ends: with a key, with an error, or with its replica.     *)
RequestsEnd == \A c \in Callers : pc[c] \in Running ~> pc[c] \in Final

(* A mint lock is only ever in the way for a mint at work or for a replica *)
(* that died: every other way out of the mint, the failing ones and those  *)
(* past an expired or a stolen lock included, goes through the finally.    *)
LockHasHolder ==
    \A s \in Subs :
        lock[s] # Free =>
            s \in orphaned \/ (sub[lock[s]] = s /\ pc[lock[s]] \in Critical)

(* What a request holds maps to the register: a minted key that is not yet *)
(* stored is not held.                                                     *)
Held == [c \in Callers |-> IF pc[c] = "put" THEN NoKey ELSE key[c]]

Register == INSTANCE KeyRegister WITH current <- frontkey, burnt <- dropped, held <- Held

(* The whole lock protocol implements one register per user, as long as a  *)
(* mint never outlives its lock.                                           *)
ImplementsRegister == Register!Spec
=============================================================================
