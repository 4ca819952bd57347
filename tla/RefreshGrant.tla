---------------------------- MODULE RefreshGrant ----------------------------
(***************************************************************************)
(* The refresh_token grant of src/api/app/oauth_as/routes.py, with the     *)
(* revalidation at Dex it makes first, and the part of /oauth/as-callback  *)
(* that replaces the user's shared Dex refresh token.  Requests and logins *)
(* run at the same time on any replica; each await is a step.  Dex,        *)
(* LiteLLM's user table and the grant projection are external.             *)
(*                                                                         *)
(* A Dex refresh token is its generation: Dex honours only the newest one  *)
(* it made for the user.  A token of ours presented by another client is   *)
(* an error answer that changes nothing, and is not modelled.              *)
(***************************************************************************)
EXTENDS Naturals

CONSTANTS Reqs,      \* refresh requests in flight
          Logins,    \* logins; each starts one session
          Users, Services,
          Tokens,    \* the AS refresh tokens that can be generated
          NoToken, NoUser, NoLogin,
          MaxGen,    \* bound on the Dex refresh tokens of a user
          Rotates,   \* does Dex rotate a refresh token on use?
          Faults     \* may a replica die, or an answer of Dex get lost?

ASSUME RefreshAssumption == /\ NoToken \notin Tokens
                            /\ NoUser \notin Users
                            /\ NoLogin \notin Logins
                            /\ MaxGen \in Nat
                            /\ Rotates \in BOOLEAN
                            /\ Faults \in BOOLEAN

VARIABLES dexrt,     \* dexrt[u]: stored Dex refresh token, 0 when absent
          refresh,   \* the AS refresh tokens in the store
          tsub, tscope, session,   \* their records, and the login they stem from
          used,      \* the AS refresh tokens ever generated
          dexGen,    \* Dex: newest refresh token of the user
          honours,   \* Dex: the users it honours
          members,   \* LiteLLM: the users that exist
          granted,   \* projection: <<user, service>>
          pc, tok, rt, tries, alive, asked, newscope,   \* per request
          lpc, lsub, lrt,                               \* per login
          late,      \* history: the user was refused when the request arrived
          stale,     \* history: the grants missing ever since it arrived
          left       \* history: left[l]: services a pair of the session lacked

storeVars == <<dexrt, refresh, tsub, tscope, session, used>>
worldVars == <<dexGen, honours, members, granted>>
scopeVars == <<asked, newscope>>
arrival   == <<late, stale>>
reqVars   == <<pc, tok, rt, tries, alive, scopeVars, arrival>>
loginVars == <<lpc, lsub, lrt>>
vars == <<storeVars, worldVars, reqVars, loginVars, left>>

Cleared == {"put_dexrt", "user_exists", "consume", "scopes"}
Busy == {"read_dexrt", "at_dex", "reread", "pop_dexrt", "refused"} \cup Cleared

TypeOK == /\ dexrt \in [Users -> 0..MaxGen]
          /\ refresh \in SUBSET used /\ used \in SUBSET Tokens
          /\ tsub \in [Tokens -> Users \cup {NoUser}]
          /\ tscope \in [Tokens -> SUBSET Services]
          /\ session \in [Tokens -> Logins \cup {NoLogin}]
          /\ dexGen \in [Users -> 0..MaxGen]
          /\ honours \in SUBSET Users /\ members \in SUBSET Users
          /\ granted \in SUBSET (Users \X Services)
          /\ pc \in [Reqs -> {"idle"} \cup Busy]
          /\ tok \in [Reqs -> Tokens \cup {NoToken}]
          /\ rt \in [Reqs -> 0..MaxGen]
          /\ tries \in [Reqs -> 0..2]
          /\ alive \in [Reqs -> BOOLEAN]
          /\ asked \in [Reqs -> SUBSET Services]
          /\ newscope \in [Reqs -> SUBSET Services]
          /\ late \in [Reqs -> BOOLEAN]
          /\ stale \in [Reqs -> SUBSET Services]
          /\ lpc \in [Logins -> {"away", "put", "issue", "done"}]
          /\ lsub \in [Logins -> Users \cup {NoUser}]
          /\ lrt \in [Logins -> 0..MaxGen]
          /\ left \in [Logins -> SUBSET Services]

Init == /\ dexrt = [u \in Users |-> 0]
        /\ refresh = {} /\ used = {}
        /\ tsub = [t \in Tokens |-> NoUser]
        /\ tscope = [t \in Tokens |-> {}]
        /\ session = [t \in Tokens |-> NoLogin]
        /\ dexGen = [u \in Users |-> 0]
        /\ honours = Users /\ members = Users
        /\ granted = Users \X Services
        /\ pc = [r \in Reqs |-> "idle"]
        /\ tok = [r \in Reqs |-> NoToken]
        /\ rt = [r \in Reqs |-> 0]
        /\ tries = [r \in Reqs |-> 0]
        /\ alive = [r \in Reqs |-> FALSE]
        /\ asked = [r \in Reqs |-> {}]
        /\ newscope = [r \in Reqs |-> {}]
        /\ late = [r \in Reqs |-> FALSE]
        /\ stale = [r \in Reqs |-> {}]
        /\ lpc = [l \in Logins |-> "away"]
        /\ lsub = [l \in Logins |-> NoUser]
        /\ lrt = [l \in Logins |-> 0]
        /\ left = [l \in Logins |-> {}]

Goto(r, step) == pc' = [pc EXCEPT ![r] = step]
User(r) == tsub[tok[r]]

(* The answer of r is out: its locals are gone. *)
Ends(r) ==
    /\ Goto(r, "idle")
    /\ tok' = [tok EXCEPT ![r] = NoToken]
    /\ rt' = [rt EXCEPT ![r] = 0]
    /\ tries' = [tries EXCEPT ![r] = 0]
    /\ alive' = [alive EXCEPT ![r] = FALSE]
    /\ asked' = [asked EXCEPT ![r] = {}]
    /\ newscope' = [newscope EXCEPT ![r] = {}]
    /\ late' = [late EXCEPT ![r] = FALSE]
    /\ stale' = [stale EXCEPT ![r] = {}]

(* Login l is over. *)
LoginEnds(l) ==
    /\ lpc' = [lpc EXCEPT ![l] = "done"]
    /\ lsub' = [lsub EXCEPT ![l] = NoUser]
    /\ lrt' = [lrt EXCEPT ![l] = 0]

GrantedTo(u) == {s \in Services : <<u, s>> \in granted}

(* _issue: a new refresh token with its record. *)
Issue(t, u, scope, l) ==
    /\ t \notin used
    /\ used' = used \cup {t}
    /\ refresh' = refresh \cup {t}
    /\ tsub' = [tsub EXCEPT ![t] = u]
    /\ tscope' = [tscope EXCEPT ![t] = scope]
    /\ session' = [session EXCEPT ![t] = l]
    /\ left' = [left EXCEPT ![l] = @ \cup (Services \ scope)]
----------------------------------------------------------------------------
(* /oauth/as-callback: the code exchange; Dex replaces the refresh token   *)
(* of the user with a new one.                                             *)
LoginAtDex(l, u) ==
    /\ lpc[l] = "away"
    /\ u \in honours
    /\ dexGen[u] < MaxGen
    /\ dexGen' = [dexGen EXCEPT ![u] = @ + 1]
    /\ lrt' = [lrt EXCEPT ![l] = dexGen[u] + 1]
    /\ lsub' = [lsub EXCEPT ![l] = u]
    /\ lpc' = [lpc EXCEPT ![l] = "put"]
    /\ UNCHANGED <<storeVars, honours, members, granted, reqVars, left>>

(* The new Dex token is stored before provisioning. *)
LoginPut(l) ==
    /\ lpc[l] = "put"
    /\ dexrt' = [dexrt EXCEPT ![lsub[l]] = lrt[l]]
    /\ lpc' = [lpc EXCEPT ![l] = "issue"]
    /\ UNCHANGED <<refresh, tsub, tscope, session, used, worldVars, reqVars, lsub, lrt, left>>

(* The session's first pair: of the services it asked for, the granted     *)
(* ones (the code leg is module AuthCode).                                 *)
LoginIssue(l, t, scope) ==
    /\ lpc[l] = "issue"
    /\ Issue(t, lsub[l], scope \cap GrantedTo(lsub[l]), l)
    /\ LoginEnds(l)
    /\ UNCHANGED <<dexrt, worldVars, reqVars>>

(* Provisioning fails, the code is never redeemed, or the replica dies. *)
LoginFails(l) ==
    /\ lpc[l] \in {"put", "issue"}
    /\ lpc[l] = "put" => Faults
    /\ LoginEnds(l)
    /\ UNCHANGED <<storeVars, worldVars, reqVars, left>>
----------------------------------------------------------------------------
(* POST /oauth/token, refresh grant: the record is read, not taken. *)
Present(r, t) ==
    /\ pc[r] = "idle"
    /\ t \in refresh
    /\ tok' = [tok EXCEPT ![r] = t]
    /\ late' = [late EXCEPT ![r] = tsub[t] \notin honours]
    /\ stale' = [stale EXCEPT ![r] = Services \ GrantedTo(tsub[t])]
    /\ Goto(r, "read_dexrt")
    /\ UNCHANGED <<storeVars, worldVars, rt, tries, alive, scopeVars, loginVars, left>>

(* _revalidate_at_dex: the shared Dex token is read. *)
ReadDexrt(r) ==
    /\ pc[r] = "read_dexrt"
    /\ rt' = [rt EXCEPT ![r] = dexrt[User(r)]]
    /\ tries' = [tries EXCEPT ![r] = 1]
    /\ Goto(r, IF dexrt[User(r)] = 0 THEN "refused" ELSE "at_dex")
    /\ UNCHANGED <<storeVars, worldVars, tok, alive, scopeVars, arrival, loginVars, left>>

DexAccepts(r) == User(r) \in honours /\ rt[r] = dexGen[User(r)]

(* _dex_refresh succeeds, with a rotated token or the same one. *)
DexHonours(r) ==
    /\ pc[r] = "at_dex"
    /\ DexAccepts(r)
    /\ Rotates => dexGen[User(r)] < MaxGen
    /\ LET next == IF Rotates THEN dexGen[User(r)] + 1 ELSE rt[r]
       IN  /\ dexGen' = [dexGen EXCEPT ![User(r)] = next]
           /\ rt' = [rt EXCEPT ![r] = next]
    /\ Goto(r, "put_dexrt")
    /\ UNCHANGED <<storeVars, honours, members, granted, tok, tries, alive, scopeVars, arrival,
                   loginVars, left>>

(* Mutant: a refusal is taken for an answer about an older token. *)
DexRefusesIgnored(r) ==
    /\ pc[r] = "at_dex"
    /\ ~DexAccepts(r)
    /\ Goto(r, "put_dexrt")
    /\ UNCHANGED <<storeVars, worldVars, tok, rt, tries, alive, scopeVars, arrival, loginVars,
                   left>>

(* _dex_refresh raises DexRefused. *)
DexRefuses(r) ==
    /\ pc[r] = "at_dex"
    /\ ~DexAccepts(r)
    /\ Goto(r, "reread")
    /\ UNCHANGED <<storeVars, worldVars, tok, rt, tries, alive, scopeVars, arrival, loginVars,
                   left>>

(* Dex is unreachable or answers an error that is not a 400: a 503, and    *)
(* the presented token stays valid.                                        *)
DexUnreachable(r) ==
    /\ pc[r] = "at_dex"
    /\ Ends(r)
    /\ UNCHANGED <<storeVars, worldVars, loginVars, left>>

(* Dex rotated the token and its answer was lost: also a 503. *)
DexAnswerLost(r) ==
    /\ Faults
    /\ pc[r] = "at_dex"
    /\ DexAccepts(r)
    /\ Rotates /\ dexGen[User(r)] < MaxGen
    /\ dexGen' = [dexGen EXCEPT ![User(r)] = @ + 1]
    /\ Ends(r)
    /\ UNCHANGED <<storeVars, honours, members, granted, loginVars, left>>

(* After a refusal: another token on file by now is tried, once. *)
RereadDexrt(r) ==
    /\ pc[r] = "reread"
    /\ LET current == dexrt[User(r)]
       IN  IF current \notin {0, rt[r]} /\ tries[r] = 1
             THEN /\ rt' = [rt EXCEPT ![r] = current]
                  /\ tries' = [tries EXCEPT ![r] = 2]
                  /\ Goto(r, "at_dex")
             ELSE /\ Goto(r, "pop_dexrt")
                  /\ UNCHANGED <<rt, tries>>
    /\ UNCHANGED <<storeVars, worldVars, tok, alive, scopeVars, arrival, loginVars, left>>

(* The refusal stands: the user's Dex token is dropped. *)
PopDexrt(r) ==
    /\ pc[r] = "pop_dexrt"
    /\ dexrt' = [dexrt EXCEPT ![User(r)] = 0]
    /\ Goto(r, "refused")
    /\ UNCHANGED <<refresh, tsub, tscope, session, used, worldVars, tok, rt, tries, alive,
                   scopeVars, arrival, loginVars, left>>

(* invalid_grant, "the identity provider no longer honours this session". *)
Refused(r) ==
    /\ pc[r] = "refused"
    /\ refresh' = refresh \ {tok[r]}
    /\ Ends(r)
    /\ UNCHANGED <<dexrt, tsub, tscope, session, used, worldVars, loginVars, left>>

(* The rotated token is stored over whatever is on file by now. *)
PutDexrt(r) ==
    /\ pc[r] = "put_dexrt"
    /\ dexrt' = [dexrt EXCEPT ![User(r)] = rt[r]]
    /\ Goto(r, "user_exists")
    /\ UNCHANGED <<refresh, tsub, tscope, session, used, worldVars, tok, rt, tries, alive,
                   scopeVars, arrival, loginVars, left>>

(* _user_exists answers. *)
UserExists(r) ==
    /\ pc[r] = "user_exists"
    /\ alive' = [alive EXCEPT ![r] = User(r) \in members]
    /\ Goto(r, "consume")
    /\ UNCHANGED <<storeVars, worldVars, tok, rt, tries, scopeVars, arrival, loginVars, left>>

(* LiteLLM is unreachable: a 503, and the presented token stays valid. *)
UserLookupFails(r) ==
    /\ pc[r] = "user_exists"
    /\ Ends(r)
    /\ UNCHANGED <<storeVars, worldVars, loginVars, left>>

(* What GETDEL of the presented token leads to; gone means someone else    *)
(* consumed it.  The services of the record are then looked up.            *)
Consumed(r, services) ==
    IF tok[r] \in refresh /\ alive[r]
      THEN /\ Goto(r, "scopes")
           /\ asked' = [asked EXCEPT ![r] = services]
           /\ UNCHANGED <<tok, rt, tries, alive, newscope, arrival>>
      ELSE Ends(r)

(* Mutant: the presented token is read again, not taken. *)
ConsumeKeeps(r) ==
    /\ pc[r] = "consume"
    /\ Consumed(r, tscope[tok[r]])
    /\ UNCHANGED <<storeVars, worldVars, loginVars, left>>

(* Mutant: the scopes are derived from the projection alone. *)
ConsumeAsksAll(r) ==
    /\ pc[r] = "consume"
    /\ refresh' = refresh \ {tok[r]}
    /\ Consumed(r, Services)
    /\ UNCHANGED <<dexrt, tsub, tscope, session, used, worldVars, loginVars, left>>

Consume(r) ==
    /\ pc[r] = "consume"
    /\ refresh' = refresh \ {tok[r]}
    /\ Consumed(r, tscope[tok[r]])
    /\ UNCHANGED <<dexrt, tsub, tscope, session, used, worldVars, loginVars, left>>

(* scopes_for: one look at the projection per service of the record, again *)
(* if the record names it again.                                           *)
ScopesFor(r, s) ==
    /\ pc[r] = "scopes"
    /\ s \in asked[r]
    /\ asked' \in {asked, [asked EXCEPT ![r] = @ \ {s}]}
    /\ newscope' = [newscope EXCEPT ![r] = @ \cup ({s} \cap GrantedTo(User(r)))]
    /\ UNCHANGED <<storeVars, worldVars, pc, tok, rt, tries, alive, arrival, loginVars, left>>

(* The new pair. *)
IssuePair(r, t) ==
    /\ pc[r] = "scopes"
    /\ asked[r] = {}
    /\ Issue(t, User(r), newscope[r], session[tok[r]])
    /\ Ends(r)
    /\ UNCHANGED <<dexrt, worldVars, loginVars>>

(* The replica dies in the middle of r. *)
Crash(r) ==
    /\ Faults
    /\ pc[r] \in Busy
    /\ Ends(r)
    /\ UNCHANGED <<storeVars, worldVars, loginVars, left>>
----------------------------------------------------------------------------
(* The TTL runs out of a user's Dex token, or of a refresh token. *)
DexrtExpires(u) ==
    /\ dexrt[u] # 0
    /\ dexrt' = [dexrt EXCEPT ![u] = 0]
    /\ UNCHANGED <<refresh, tsub, tscope, session, used, worldVars, reqVars, loginVars, left>>

RefreshExpires(t) ==
    /\ t \in refresh
    /\ refresh' = refresh \ {t}
    /\ UNCHANGED <<dexrt, tsub, tscope, session, used, worldVars, reqVars, loginVars, left>>

(* The world: a user is disabled at the identity provider, deleted from    *)
(* LiteLLM, revokes a grant or consents to a service again.                *)
Disable(u) ==
    /\ u \in honours
    /\ honours' = honours \ {u}
    /\ UNCHANGED <<storeVars, dexGen, members, granted, reqVars, loginVars, left>>

DeleteUser(u) ==
    /\ u \in members
    /\ members' = members \ {u}
    /\ UNCHANGED <<storeVars, dexGen, honours, granted, reqVars, loginVars, left>>

RevokeGrant(u, s) ==
    /\ <<u, s>> \in granted
    /\ granted' = granted \ {<<u, s>>}
    /\ UNCHANGED <<storeVars, dexGen, honours, members, reqVars, loginVars, left>>

GrantAgain(u, s) ==
    /\ <<u, s>> \notin granted
    /\ granted' = granted \cup {<<u, s>>}
    /\ stale' = [r \in Reqs |-> IF pc[r] # "idle" /\ User(r) = u THEN stale[r] \ {s}
                                                                    ELSE stale[r]]
    /\ UNCHANGED <<storeVars, dexGen, honours, members, pc, tok, rt, tries, alive, scopeVars, late,
                   loginVars, left>>

Step(r) == \/ ReadDexrt(r) \/ DexHonours(r) \/ DexRefuses(r) \/ DexUnreachable(r)
           \/ DexAnswerLost(r) \/ RereadDexrt(r) \/ PopDexrt(r) \/ Refused(r) \/ PutDexrt(r)
           \/ UserExists(r) \/ UserLookupFails(r) \/ Consume(r)
           \/ \E s \in Services : ScopesFor(r, s)
           \/ \E t \in Tokens : IssuePair(r, t)

Login(l) == \/ \E u \in Users : LoginAtDex(l, u)
            \/ LoginPut(l)
            \/ \E t \in Tokens, scope \in SUBSET Services : LoginIssue(l, t, scope)
            \/ LoginFails(l)

Next == \/ \E l \in Logins : Login(l)
        \/ \E r \in Reqs, t \in Tokens : Present(r, t)
        \/ \E r \in Reqs : Step(r) \/ Crash(r)
        \/ \E u \in Users : DexrtExpires(u) \/ Disable(u) \/ DeleteUser(u)
        \/ \E t \in Tokens : RefreshExpires(t)
        \/ \E u \in Users, s \in Services : RevokeGrant(u, s) \/ GrantAgain(u, s)

Spec == Init /\ [][Next]_vars
----------------------------------------------------------------------------
(* Rotation never forks a session: however many requests present the same  *)
(* token at once, and wherever they die, a login has at most one live      *)
(* refresh token.                                                          *)
SessionNeverForks ==
    \A t1, t2 \in refresh : session[t1] = session[t2] => t1 = t2

(* "A user disabled at the identity provider is out at the next refresh":  *)
(* a request that arrives after the user was disabled is never cleared,    *)
(* whatever token a sibling or a login has put on file.                    *)
DisabledIsOut == \A r \in Reqs : late[r] => pc[r] \notin Cleared

(* A session does not get back what it has lost: a service that one of its *)
(* pairs lacked, because it was not asked for at the login or its grant    *)
(* was gone at a refresh, is in no later pair of the session, although the *)
(* user consents to it again and other sessions carry it.  And "a revoked  *)
(* grant drops off": no pair names a service whose grant was missing from  *)
(* the arrival of the request on, though each service is looked up alone.  *)
ServicesOnlyLeave ==
    /\ \A t \in refresh : tscope[t] \cap left[session[t]] = {}
    /\ \A r \in Reqs : pc[r] = "scopes" => newscope[r] \cap stale[r] = {}

(* Dex's answer is taken for the end of the user's sessions only if Dex    *)
(* has stopped honouring the user: an outage, a lost answer, a sibling's   *)
(* rotation, an expired record or a dead replica is not.  Racing siblings  *)
(* and logins, lost answers and dying replicas break it (README, Findings).*)
RefusalMeansDishonoured ==
    \A r \in Reqs : pc[r] = "pop_dexrt" => User(r) \notin honours
=============================================================================
