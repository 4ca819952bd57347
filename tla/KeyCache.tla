------------------------------ MODULE KeyCache ------------------------------
(***************************************************************************)
(* The cachedResolver of authz/keys.go in front of /api/internal/front-key.*)
(* Ext-authz checks call KeyFor; a fetch is either on the request path     *)
(* (cold) or a goroutine that refreshes a stale entry.  A fetch is three   *)
(* steps: the API answers, the cache is written under the mutex, and a     *)
(* background fetch then clears its inflight mark.  The API is what module *)
(* KeyRegister promises: it answers with the key of the user at some       *)
(* moment during the call, re-minting a dead one.                          *)
(***************************************************************************)
EXTENDS Naturals, Subjects

CONSTANTS Checks,      \* ext-authz checks in flight
          Routines,    \* goroutines that can run at the same time
          MaxKey       \* bound on the keys minted for a user

ASSUME CacheAssumption == /\ MaxKey \in Nat \ {0}
                          /\ Checks \cap Routines = {}

VARIABLES cache,     \* cache[s]: [key, fresh], key 0 when there is no entry
          inflight,  \* users with a background refresh marked as running
          front,     \* API: the number of the user's stored key, 0 when none
          dead,      \* LiteLLM: users whose stored key was revoked
          fpc, fsub, fkey,   \* per fetch (a check or a goroutine)
          served     \* served[f]: the key the last KeyFor of a check returned

apiVars == <<front, dead>>
cacheVars == <<cache, inflight, apiVars, fpc, fsub, fkey, served>>

Fetchers == Checks \cup Routines

(* An entry always holds a key: an empty answer is never cached. *)
CacheTypeOK ==
    /\ cache \in [Subs -> [key : 0..MaxKey, fresh : BOOLEAN]]
    /\ \A s \in Subs : cache[s].fresh => cache[s].key # 0
    /\ inflight \in SUBSET Subs
    /\ front \in [Subs -> 0..MaxKey]
    /\ dead \in SUBSET Subs
    /\ fpc \in [Fetchers -> {"idle", "asking", "answered", "clearing"}]
    /\ fsub \in [Fetchers -> Subs \cup {NoSub}]
    /\ fkey \in [Fetchers -> 0..MaxKey]
    /\ served \in [Checks -> 0..MaxKey]

CacheInit ==
    /\ cache = [s \in Subs |-> [key |-> 0, fresh |-> FALSE]]
    /\ inflight = {}
    /\ front = [s \in Subs |-> 0]
    /\ dead = {}
    /\ fpc = [f \in Fetchers |-> "idle"]
    /\ fsub = [f \in Fetchers |-> NoSub]
    /\ fkey = [f \in Fetchers |-> 0]
    /\ served = [c \in Checks |-> 0]

Cached(s) == cache[s].key # 0
Start(f, s) == /\ fpc' = [fpc EXCEPT ![f] = "asking"]
               /\ fsub' = [fsub EXCEPT ![f] = s]
               /\ fkey' = [fkey EXCEPT ![f] = 0]
----------------------------------------------------------------------------
(* KeyFor with a fresh entry, or with a stale one whose refresh is already *)
(* under way: the entry is returned.                                       *)
KeyForCached(c, s) ==
    /\ fpc[c] = "idle"
    /\ Cached(s)
    /\ cache[s].fresh \/ s \in inflight
    /\ served' = [served EXCEPT ![c] = cache[s].key]
    /\ UNCHANGED <<cache, inflight, apiVars, fpc, fsub, fkey>>

(* Mutant: the inflight mark is not looked at. *)
KeyForStaleAgain(c, g, s) ==
    /\ fpc[c] = "idle" /\ fpc[g] = "idle"
    /\ Cached(s)
    /\ ~cache[s].fresh
    /\ inflight' = inflight \cup {s}
    /\ Start(g, s)
    /\ served' = [served EXCEPT ![c] = cache[s].key]
    /\ UNCHANGED <<cache, apiVars>>

(* KeyFor with a stale entry: marked, a goroutine g started, and the stale *)
(* key returned at once.                                                   *)
KeyForStale(c, g, s) ==
    /\ fpc[c] = "idle" /\ fpc[g] = "idle"
    /\ Cached(s)
    /\ ~cache[s].fresh
    /\ s \notin inflight
    /\ inflight' = inflight \cup {s}
    /\ Start(g, s)
    /\ served' = [served EXCEPT ![c] = cache[s].key]
    /\ UNCHANGED <<cache, apiVars>>

(* KeyFor without an entry: the check itself fetches. *)
KeyForCold(c, s) ==
    /\ fpc[c] = "idle"
    /\ ~Cached(s)
    /\ Start(c, s)
    /\ UNCHANGED <<cache, inflight, apiVars, served>>

(* The API resolves the key: minted when there is none or it is dead. *)
ApiAnswers(f) ==
    LET s == fsub[f]
        key == IF front[s] = 0 \/ s \in dead THEN front[s] + 1 ELSE front[s]
    IN  /\ fpc[f] = "asking"
        /\ key <= MaxKey
        /\ front' = [front EXCEPT ![s] = key]
        /\ dead' = dead \ {s}
        /\ fkey' = [fkey EXCEPT ![f] = key]
        /\ fpc' = [fpc EXCEPT ![f] = "answered"]
        /\ UNCHANGED <<cache, inflight, fsub, served>>

AfterFetch(f) == IF f \in Routines THEN "clearing" ELSE "idle"

(* Mutant: a failed background fetch leaves its mark behind. *)
FetchFailsMarked(f) ==
    /\ fpc[f] \in {"asking", "answered"}
    /\ fpc' = [fpc EXCEPT ![f] = "idle"]
    /\ UNCHANGED <<cache, inflight, apiVars, fsub, fkey, served>>

(* Not 200, no body, or the 3 s timeout, before or after the API minted:   *)
(* an error for a cold check, nothing for a background fetch.              *)
FetchFails(f) ==
    /\ fpc[f] \in {"asking", "answered"}
    /\ fpc' = [fpc EXCEPT ![f] = AfterFetch(f)]
    /\ UNCHANGED <<cache, inflight, apiVars, fsub, fkey, served>>

(* The answer is cached, whatever the cache holds by now; a cold check     *)
(* returns it.                                                             *)
FetchStores(f) ==
    /\ fpc[f] = "answered"
    /\ cache' = [cache EXCEPT ![fsub[f]] = [key |-> fkey[f], fresh |-> TRUE]]
    /\ fpc' = [fpc EXCEPT ![f] = AfterFetch(f)]
    /\ served' = [c \in Checks |-> IF c = f THEN fkey[f] ELSE served[c]]
    /\ UNCHANGED <<inflight, apiVars, fsub, fkey>>

(* The goroutine clears its mark. *)
ClearMark(g) ==
    /\ fpc[g] = "clearing"
    /\ inflight' = inflight \ {fsub[g]}
    /\ fpc' = [fpc EXCEPT ![g] = "idle"]
    /\ UNCHANGED <<cache, apiVars, fsub, fkey, served>>

(* The TTL of an entry passes. *)
EntryExpires(s) ==
    /\ Cached(s)
    /\ cache[s].fresh
    /\ cache' = [cache EXCEPT ![s].fresh = FALSE]
    /\ UNCHANGED <<inflight, apiVars, fpc, fsub, fkey, served>>

(* The user's stored key is revoked at LiteLLM. *)
KeyRevoked(s) ==
    /\ front[s] \in 1..(MaxKey - 1)
    /\ s \notin dead
    /\ dead' = dead \cup {s}
    /\ UNCHANGED <<cache, inflight, front, fpc, fsub, fkey, served>>

Asked(s) == \/ \E c \in Checks : KeyForCold(c, s)
            \/ \E c \in Checks, g \in Routines : KeyForStale(c, g, s)
Ends(f)  == FetchStores(f) \/ FetchFails(f)

CacheNext ==
    \/ \E c \in Checks, s \in Subs : KeyForCached(c, s)
    \/ \E s \in Subs : Asked(s) \/ EntryExpires(s) \/ KeyRevoked(s)
    \/ \E f \in Fetchers : ApiAnswers(f) \/ Ends(f)
    \/ \E g \in Routines : ClearMark(g)

CacheSpec == CacheInit /\ [][CacheNext]_cacheVars

(* Users keep coming, TTLs pass, a fetch ends, and not every one fails.    *)
CacheFairSpec ==
    /\ CacheSpec
    /\ \A s \in Subs : SF_cacheVars(Asked(s)) /\ WF_cacheVars(EntryExpires(s))
    /\ \A f \in Fetchers : /\ WF_cacheVars(Ends(f))
                           /\ SF_cacheVars(ApiAnswers(f)) /\ SF_cacheVars(FetchStores(f))
    /\ \A g \in Routines : WF_cacheVars(ClearMark(g))
----------------------------------------------------------------------------
(* "Refreshed once in the background": no two goroutines refresh the same  *)
(* user, even in the gap between the cache write and the clearing.         *)
OneRefreshPerUser ==
    \A g, h \in Routines :
        g # h /\ fpc[g] # "idle" /\ fpc[h] # "idle" => fsub[g] # fsub[h]

(* Once a user's key stops being revoked the proxy ends up with that key   *)
(* for good, though a slow fetch may write an older answer over a newer.   *)
CacheConverges == \A s \in Subs : <>[](cache[s].key = front[s] /\ s \notin dead)
=============================================================================
