--------------------------- MODULE FrontKeyProofs ---------------------------
(***************************************************************************)
(* Proofs about FrontKey for every set of requests, users and keys.  The   *)
(* inductive invariant is IInv; its parts say where a key can be while a   *)
(* request is at a given await.                                            *)
(***************************************************************************)
EXTENDS FrontKey, TLAPS

(* A key found dead is out of the store once the request has popped it. *)
RejectedIsDropped ==
    \A c \in Callers :
        rejected[c] # NoKey /\ pc[c] \notin {"alive", "pop", "crashed"} => rejected[c] \in dropped

(* What the local `key` of a request is at each await. *)
KeyAtStep ==
    \A c \in Callers :
        /\ key[c] # NoKey => owner[key[c]] = sub[c]
        /\ pc[c] \in {"alive", "pop", "put", "returned"} => key[c] # NoKey
        /\ pc[c] \in {"idle", "acquire", "wait", "reread", "generate"} => key[c] = NoKey
        /\ pc[c] = "alive" => rejected[c] = NoKey
        /\ pc[c] = "pop" => rejected[c] = key[c]
        /\ pc[c] \in {"alive", "pop"} => key[c] \in dropped \/ frontkey[sub[c]] = key[c]
        /\ pc[c] \in {"put", "release", "returned"} /\ rejected[c] # NoKey => key[c] # rejected[c]

(* A key that is minted but not stored is in the hands of its minter only. *)
FreshKey ==
    \A c \in Callers : pc[c] = "put" =>
        /\ key[c] \notin dropped
        /\ \A s \in Subs : frontkey[s] # key[c]
        /\ \A d \in Callers : d # c => key[d] # key[c] /\ rejected[d] # key[c]

(* The stored and the dropped keys were minted; a stored key for its user. *)
StoredIsMinted ==
    /\ \A s \in Subs : frontkey[s] # NoKey => owner[frontkey[s]] = s
    /\ \A k \in dropped : owner[k] # NoSub
    /\ \A c \in Callers : rejected[c] # NoKey => owner[rejected[c]] # NoSub

(* Without expiry under a live holder the lock names whoever is critical,  *)
(* and nobody else can have stored a key while it mints.                   *)
LockHeld ==
    LockOutlived \/ \A c \in Callers :
        /\ pc[c] \in Critical => lock[sub[c]] = c
        /\ pc[c] \in {"generate", "put"} => frontkey[sub[c]] = NoKey

IInv == /\ TypeOK
        /\ NoResurrection
        /\ RejectedIsDropped
        /\ KeyAtStep
        /\ FreshKey
        /\ StoredIsMinted
        /\ LockHeld
        /\ LockHasHolder

USE ConstantsAssumption

(* The initial states satisfy the inductive invariant. *)
LEMMA InitIInv == Init => IInv
  BY DEF Init, IInv, TypeOK, NoResurrection, RejectedIsDropped, KeyAtStep, FreshKey,
         StoredIsMinted, LockHeld, LockHasHolder, Running, Critical, Final

(* Every step keeps the inductive invariant. *)
LEMMA StepIInv == IInv /\ [Next]_vars => IInv'
<1> SUFFICES ASSUME IInv, [Next]_vars PROVE IInv'
  OBVIOUS
<1> USE DEF IInv, TypeOK, NoResurrection, RejectedIsDropped, KeyAtStep, FreshKey,
            StoredIsMinted, LockHeld, LockHasHolder, Running, Critical, Final, Goto, Hold, Store
<1>1. ASSUME NEW c \in Callers, NEW s \in Subs, Begin(c, s) PROVE IInv'
  BY <1>1 DEF Begin
<1>2. ASSUME NEW c \in Callers, CheckAlive(c) PROVE IInv'
  BY <1>2 DEF CheckAlive, KeyAlive
<1>3. ASSUME NEW c \in Callers, Pop(c) PROVE IInv'
  BY <1>3 DEF Pop
<1>4. ASSUME NEW c \in Callers, Acquire(c) PROVE IInv'
  BY <1>4 DEF Acquire
<1>5. ASSUME NEW c \in Callers, Wait(c) PROVE IInv'
  BY <1>5 DEF Wait
<1>6. ASSUME NEW c \in Callers, Reread(c) PROVE IInv'
  BY <1>6 DEF Reread
<1>7. ASSUME NEW c \in Callers, NEW k \in Keys, Generate(c, k) PROVE IInv'
  BY <1>7 DEF Generate
<1>8. ASSUME NEW c \in Callers, NEW k \in Keys, GenerateLost(c, k) PROVE IInv'
  BY <1>8 DEF GenerateLost
<1>9. ASSUME NEW c \in Callers, GenerateFails(c) PROVE IInv'
  BY <1>9 DEF GenerateFails
<1>10. ASSUME NEW c \in Callers, Put(c) PROVE IInv'
  BY <1>10 DEF Put
<1>11. ASSUME NEW c \in Callers, PutFails(c) PROVE IInv'
  BY <1>11 DEF PutFails
<1>12. ASSUME NEW c \in Callers, Release(c) PROVE IInv'
  BY <1>12 DEF Release
<1>13. ASSUME NEW c \in Callers, Crash(c) PROVE IInv'
  BY <1>13 DEF Crash
<1>14. ASSUME NEW s \in Subs, LockExpires(s) PROVE IInv'
  BY <1>14 DEF LockExpires, HolderAtWork
<1>15. ASSUME NEW k \in Keys, Revoke(k) PROVE IInv'
  BY <1>15 DEF Revoke
<1>16. CASE UNCHANGED vars
  BY <1>16 DEF vars
<1> QED
  BY <1>1, <1>2, <1>3, <1>4, <1>5, <1>6, <1>7, <1>8, <1>9, <1>10, <1>11, <1>12, <1>13,
     <1>14, <1>15, <1>16 DEF Next, Step

(* The inductive invariant holds in every reachable state. *)
THEOREM Invariance == Spec => []IInv
  BY InitIInv, StepIInv, PTL DEF Spec

(* Type correctness: resolve_front_key keeps its store records, locks and  *)
(* locals within their types at every await.                               *)
THEOREM TypeCorrect == Spec => []TypeOK
<1>1. IInv => TypeOK
  BY DEF IInv
<1> QED
  BY <1>1, Invariance, PTL

(* No caller is ever handed another user's key, however requests of        *)
(* different users, crashes and expired locks interleave.                  *)
THEOREM OwnKeyCorrect == Spec => []OwnKey
<1>1. IInv => OwnKey
  BY DEF IInv, TypeOK, OwnKey, KeyAtStep
<1> QED
  BY <1>1, Invariance, PTL

(* A key that was discarded from the store never returns to it, even when  *)
(* the mint lock expires under its holder.                                 *)
THEOREM NoResurrectionCorrect == Spec => []NoResurrection
<1>1. IInv => NoResurrection
  BY DEF IInv
<1> QED
  BY <1>1, Invariance, PTL

(* A request never returns the key it has itself found dead.               *)
THEOREM RejectedNotReturnedCorrect == Spec => []RejectedNotReturned
<1>1. IInv => RejectedNotReturned
  BY DEF IInv, RejectedNotReturned, KeyAtStep
<1> QED
  BY <1>1, Invariance, PTL

(* A mint lock stands for a mint at work or for a replica that died with   *)
(* it, whatever fails on the way, whether or not locks expire under their  *)
(* holder and are then released by somebody else.                          *)
THEOREM LockHasHolderCorrect == Spec => []LockHasHolder
<1>1. IInv => LockHasHolder
  BY DEF IInv
<1> QED
  BY <1>1, Invariance, PTL

(* When a mint never outlives its lock, minting is mutually exclusive per  *)
(* user, replicas dying in the middle included.                            *)
THEOREM MintedUnderLockCorrect == ASSUME ~LockOutlived PROVE Spec => []MintedUnderLock
<1>1. IInv => MintedUnderLock
  BY DEF IInv, TypeOK, MintedUnderLock, LockHeld
<1> QED
  BY <1>1, Invariance, PTL

(* The second read under the lock makes overwriting impossible.            *)
THEOREM NoOverwriteCorrect == ASSUME ~LockOutlived PROVE Spec => NoOverwrite
<1>1. IInv /\ [Next]_vars
        => [\A s \in Subs : frontkey[s] # NoKey => frontkey'[s] \in {frontkey[s], NoKey}]_vars
  BY DEF IInv, TypeOK, LockHeld, Next, Step, Begin, CheckAlive, Pop, Acquire, Wait, Reread,
         Generate, GenerateLost, GenerateFails, Put, PutFails, Release, Crash, LockExpires,
         Revoke, Store, vars
<1> QED
  BY <1>1, Invariance, PTL DEF Spec, NoOverwrite

(* Every step of the lock protocol is a step of the register or leaves it  *)
(* alone: a first or second read is a Take, the pop an Empty, the mint a   *)
(* Mint, the write an Install and a dying request a Forget.                *)
LEMMA StepRegister ==
    ASSUME ~LockOutlived, IInv, [Next]_vars PROVE [Register!Next]_(Register!vars)
<1> USE DEF IInv, TypeOK, KeyAtStep, Goto, Hold, Held, Register!vars
<1>1. ASSUME NEW c \in Callers, NEW s \in Subs, Begin(c, s)
      PROVE Register!Take(c, s) \/ Register!Forget(c)
  BY <1>1 DEF Begin, Register!Take, Register!Forget, Final
<1>2. ASSUME NEW c \in Callers, CheckAlive(c) PROVE UNCHANGED Register!vars
  BY <1>2 DEF CheckAlive
<1>3. ASSUME NEW c \in Callers, Pop(c) PROVE Register!Empty(c, sub[c])
  BY <1>3 DEF Pop, Store, Register!Empty
<1>4. ASSUME NEW c \in Callers, Acquire(c) PROVE UNCHANGED Register!vars
  BY <1>4 DEF Acquire
<1>5. ASSUME NEW c \in Callers, Wait(c) \/ Reread(c)
      PROVE Register!Take(c, sub[c]) \/ Register!Forget(c)
  <2>1. Held' = [Held EXCEPT ![c] = frontkey[sub[c]]]
    BY <1>5 DEF Wait, Reread
  <2> QED
    BY <1>5, <2>1 DEF Wait, Reread, Register!Take, Register!Forget
<1>6. ASSUME NEW c \in Callers, NEW k \in Keys, Generate(c, k) \/ GenerateLost(c, k)
      PROVE Register!Mint(sub[c], k)
  BY <1>6 DEF Generate, GenerateLost, Register!Mint
<1>7. ASSUME NEW c \in Callers, GenerateFails(c) \/ PutFails(c) \/ Release(c)
      PROVE UNCHANGED Register!vars
  BY <1>7 DEF GenerateFails, PutFails, Release
<1>8. ASSUME NEW c \in Callers, Put(c) PROVE Register!Install(c, sub[c], key[c])
  <2>1. key[c] \in Keys /\ owner[key[c]] = sub[c] /\ frontkey[sub[c]] = NoKey
    BY <1>8 DEF Put, LockHeld
  <2>2. key[c] \notin dropped /\ \A t \in Subs : frontkey[t] # key[c]
    BY <1>8 DEF Put, FreshKey
  <2>3. frontkey' = [frontkey EXCEPT ![sub[c]] = key[c]] /\ dropped' = dropped
    BY <1>8, <2>1 DEF Put, Store
  <2>4. Held' = [Held EXCEPT ![c] = key[c]]
    BY <1>8 DEF Put
  <2> QED
    BY <1>8, <2>1, <2>2, <2>3, <2>4 DEF Put, Register!Install
<1>9. ASSUME NEW c \in Callers, Crash(c) PROVE Register!Forget(c)
  BY <1>9 DEF Crash, Register!Forget
<1>10. ASSUME NEW s \in Subs, LockExpires(s) PROVE UNCHANGED Register!vars
  BY <1>10 DEF LockExpires
<1>11. ASSUME NEW k \in Keys, Revoke(k) PROVE UNCHANGED Register!vars
  BY <1>11 DEF Revoke
<1>12. CASE UNCHANGED vars
  BY <1>12 DEF vars
<1>13. ASSUME NEW c \in Callers, Put(c) PROVE key[c] \in Keys
  BY <1>13 DEF Put
<1>14. ASSUME NEW c \in Callers PROVE sub[c] \in Subs
  BY <1>14
<1> HIDE DEF IInv, TypeOK, KeyAtStep, Goto, Hold, Held, Register!vars
<1>15. ASSUME NEW c \in Callers, Step(c) PROVE [Register!Next]_(Register!vars)
  BY <1>2, <1>3, <1>4, <1>5, <1>6, <1>7, <1>8, <1>13, <1>14, <1>15 DEF Step, Register!Next
<1> QED
  BY <1>1, <1>9, <1>10, <1>11, <1>12, <1>14, <1>15 DEF Next, Register!Next

(* The lock protocol implements one register per user, for any number of   *)
(* requests, users and keys, as long as a mint never outlives its lock.    *)
THEOREM RegisterRefinement == ASSUME ~LockOutlived PROVE Spec => ImplementsRegister
<1>1. Init => Register!Init
  BY DEF Init, Register!Init, Held
<1>2. IInv /\ [Next]_vars => [Register!Next]_(Register!vars)
  BY StepRegister
<1> QED
  BY <1>1, <1>2, Invariance, PTL DEF Spec, ImplementsRegister, Register!Spec
----------------------------------------------------------------------------
(* No other request for the user runs between a request's read of the      *)
(* record and its pop.                                                     *)
PopsAlone ==
    \A c, d \in Callers :
        pc[c] \in {"alive", "pop"} /\ pc[d] \in Running /\ sub[c] = sub[d] => c = d

(* What is popped is then the key that was read and found dead. *)
PopsWhatItRead ==
    \A c \in Callers :
        /\ pc[c] \in {"alive", "pop"} => frontkey[sub[c]] = key[c]
        /\ pc[c] = "pop" => key[c] \notin live

LEMMA StepPopsWhatItRead ==
  ASSUME ~AdminRefused, IInv, PopsWhatItRead, PopsAlone, PopsAlone', [Next]_vars
  PROVE  PopsWhatItRead'
<1> USE DEF IInv, TypeOK, KeyAtStep, StoredIsMinted, PopsWhatItRead, PopsAlone, Running, Critical,
            Final, Goto, Hold, Store
<1>1. ASSUME NEW c \in Callers, NEW s \in Subs, Begin(c, s) PROVE PopsWhatItRead'
  BY <1>1 DEF Begin
<1>2. ASSUME NEW c \in Callers, CheckAlive(c) PROVE PopsWhatItRead'
  <2>1. /\ pc[c] = "alive" /\ UNCHANGED <<frontkey, live, sub, key>>
        /\ \A d \in Callers : d # c => pc'[d] = pc[d]
        /\ pc'[c] = "pop" => key[c] \notin live
    BY <1>2 DEF CheckAlive, KeyAlive
  <2> QED BY <2>1
<1>3. ASSUME NEW c \in Callers, Pop(c) PROVE PopsWhatItRead'
  BY <1>3 DEF Pop
<1>4. ASSUME NEW c \in Callers, Acquire(c) PROVE PopsWhatItRead'
  BY <1>4 DEF Acquire
<1>5. ASSUME NEW c \in Callers, Wait(c) PROVE PopsWhatItRead'
  BY <1>5 DEF Wait
<1>6. ASSUME NEW c \in Callers, Reread(c) PROVE PopsWhatItRead'
  BY <1>6 DEF Reread
<1>7. ASSUME NEW c \in Callers, NEW k \in Keys, Generate(c, k) PROVE PopsWhatItRead'
  BY <1>7 DEF Generate
<1>8. ASSUME NEW c \in Callers, NEW k \in Keys, GenerateLost(c, k) PROVE PopsWhatItRead'
  BY <1>8 DEF GenerateLost
<1>9. ASSUME NEW c \in Callers, GenerateFails(c) PROVE PopsWhatItRead'
  BY <1>9 DEF GenerateFails
<1>10. ASSUME NEW c \in Callers, Put(c) PROVE PopsWhatItRead'
  BY <1>10 DEF Put
<1>11. ASSUME NEW c \in Callers, PutFails(c) PROVE PopsWhatItRead'
  BY <1>11 DEF PutFails
<1>12. ASSUME NEW c \in Callers, Release(c) PROVE PopsWhatItRead'
  BY <1>12 DEF Release
<1>13. ASSUME NEW c \in Callers, Crash(c) PROVE PopsWhatItRead'
  BY <1>13 DEF Crash
<1>14. ASSUME NEW s \in Subs, LockExpires(s) PROVE PopsWhatItRead'
  BY <1>14 DEF LockExpires
<1>15. ASSUME NEW k \in Keys, Revoke(k) PROVE PopsWhatItRead'
  BY <1>15 DEF Revoke
<1>16. CASE UNCHANGED vars
  BY <1>16 DEF vars
<1> QED
  BY <1>1, <1>2, <1>3, <1>4, <1>5, <1>6, <1>7, <1>8, <1>9, <1>10, <1>11, <1>12, <1>13,
     <1>14, <1>15, <1>16 DEF Next, Step

(* The docstring's "a revoked or expired key is discarded", and no other,  *)
(* holds where the race of README, Findings, is excluded: when nobody else *)
(* runs for the user between the read of a key and its pop, however many   *)
(* requests mint at other times and whatever replicas die.                 *)
THEOREM DiscardWithoutOverlap ==
  ASSUME ~LockOutlived, ~AdminRefused PROVE Spec /\ []PopsAlone => DiscardedKeyIsDead
<1>1. Init => PopsWhatItRead
  BY DEF Init, PopsWhatItRead
<1>2. IInv /\ PopsWhatItRead /\ PopsAlone /\ PopsAlone' /\ [Next]_vars => PopsWhatItRead'
  BY StepPopsWhatItRead
<1>3. IInv /\ PopsWhatItRead /\ [Next]_vars
        => [\A s \in Subs : frontkey'[s] # frontkey[s] => frontkey[s] \notin live]_vars
  <2> SUFFICES ASSUME IInv, PopsWhatItRead, Next, NEW s \in Subs, frontkey'[s] # frontkey[s]
               PROVE  frontkey[s] \notin live
    OBVIOUS
  <2>1. PICK c \in Callers : Pop(c) \/ Put(c)
    BY DEF Next, Step, Begin, CheckAlive, Acquire, Wait, Reread, Generate, GenerateLost,
           GenerateFails, PutFails, Release, Crash, LockExpires, Revoke
  <2>2. CASE Pop(c)
    BY <2>2 DEF Pop, Store, PopsWhatItRead, IInv, TypeOK
  <2>3. CASE Put(c)
    BY <2>3 DEF Put, Store, LockHeld, IInv, TypeOK
  <2> QED
    BY <2>1, <2>2, <2>3
<1> QED
  BY <1>1, <1>2, <1>3, Invariance, PTL DEF Spec, DiscardedKeyIsDead
=============================================================================
