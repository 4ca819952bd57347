---------------------------- MODULE KeyRegister ----------------------------
(***************************************************************************)
(* What resolve_front_key promises, without locks, reads or round trips:   *)
(* one slot per user.  A key is installed only into an empty slot, only    *)
(* once, and only for the user it was minted for; a slot may be emptied;   *)
(* and whatever a caller holds was, at the moment it took it, the key in   *)
(* its own user's slot.  FrontKey is shown to implement this.              *)
(***************************************************************************)
CONSTANTS Callers, Subs, Keys, NoKey, NoSub

VARIABLES current,  \* current[s]: the key in the slot of user s, or NoKey
          owner,    \* owner[k]: the user key k was minted for, or NoSub
          burnt,    \* keys that have left a slot
          held      \* held[c]: the key caller c took from a slot, or NoKey

vars == <<current, owner, burnt, held>>

Init == /\ current = [s \in Subs |-> NoKey]
        /\ owner = [k \in Keys |-> NoSub]
        /\ burnt = {}
        /\ held = [c \in Callers |-> NoKey]

(* LiteLLM mints k for s; nobody can see it yet. *)
Mint(s, k) == /\ owner[k] = NoSub
              /\ owner' = [owner EXCEPT ![k] = s]
              /\ UNCHANGED <<current, burnt, held>>

(* c installs k, which no slot has ever held, and holds it. *)
Install(c, s, k) == /\ current[s] = NoKey
                    /\ owner[k] = s
                    /\ k \notin burnt
                    /\ \A t \in Subs : current[t] # k
                    /\ current' = [current EXCEPT ![s] = k]
                    /\ held' = [held EXCEPT ![c] = k]
                    /\ UNCHANGED <<owner, burnt>>

(* c takes what is in the slot. *)
Take(c, s) == /\ current[s] # NoKey
              /\ held' = [held EXCEPT ![c] = current[s]]
              /\ UNCHANGED <<current, owner, burnt>>

(* c lets go of what it holds. *)
Forget(c) == /\ held' = [held EXCEPT ![c] = NoKey]
             /\ UNCHANGED <<current, owner, burnt>>

(* The slot is emptied, by a caller that then holds nothing. *)
Empty(c, s) == /\ burnt' = burnt \cup ({current[s]} \ {NoKey})
               /\ current' = [current EXCEPT ![s] = NoKey]
               /\ held' = [held EXCEPT ![c] = NoKey]
               /\ UNCHANGED owner

Next == \/ \E s \in Subs, k \in Keys : Mint(s, k)
        \/ \E c \in Callers, s \in Subs, k \in Keys : Install(c, s, k)
        \/ \E c \in Callers, s \in Subs : Take(c, s) \/ Empty(c, s)
        \/ \E c \in Callers : Forget(c)

Spec == Init /\ [][Next]_vars
=============================================================================
