------------------------- MODULE RefreshGrantProofs -------------------------
(***************************************************************************)
(* Proofs about RefreshGrant for every set of requests, logins, users,     *)
(* services and tokens, with or without rotation and faults.               *)
(***************************************************************************)
EXTENDS RefreshGrant, TLAPS

(* A request whose token is consumed and whose pair is not yet out. *)
InHand(r) == pc[r] = "scopes"

(* A session is in exactly one place: with a login that has not issued     *)
(* yet, in the store, or in the hands of the request that consumed it.     *)
SessionInOnePlace ==
    /\ refresh \subseteq used
    /\ \A t \in used : session[t] \in Logins /\ tsub[t] \in Users
    /\ \A l \in Logins : lpc[l] \in {"put", "issue"} => lsub[l] \in Users
    /\ \A r \in Reqs : pc[r] \in Busy => tok[r] \in used
    /\ \A l \in Logins : lpc[l] # "done" => \A t \in used : session[t] # l
    /\ \A r \in Reqs : InHand(r) => \A t \in refresh : session[t] # session[tok[r]]
    /\ \A q, r \in Reqs : q # r /\ InHand(q) /\ InHand(r) => session[tok[q]] # session[tok[r]]

(* A request that arrived late belongs to a user Dex refuses. *)
LateIsRefused ==
    \A r \in Reqs : late[r] /\ pc[r] \in Busy => User(r) \notin honours

IInv == TypeOK /\ SessionInOnePlace /\ SessionNeverForks /\ LateIsRefused /\ DisabledIsOut

USE RefreshAssumption

(* The initial states satisfy the inductive invariant. *)
LEMMA InitIInv == Init => IInv
  BY DEF Init, IInv, TypeOK, SessionInOnePlace, SessionNeverForks, LateIsRefused,
         DisabledIsOut, InHand, Busy, Cleared, User

(* What consuming the presented token leads to: the end of the request, or *)
(* the looking up of the services, with the token in hand.                 *)
Gone(r) == /\ pc[r] = "consume"
           /\ refresh' = refresh \ {tok[r]}
           /\ Ends(r)
           /\ UNCHANGED <<dexrt, tsub, tscope, session, used, worldVars, loginVars, left>>

Taken(r) == /\ pc[r] = "consume"
            /\ tok[r] \in refresh
            /\ refresh' = refresh \ {tok[r]}
            /\ Goto(r, "scopes")
            /\ asked' = [asked EXCEPT ![r] = tscope[tok[r]]]
            /\ UNCHANGED <<dexrt, tsub, tscope, session, used, worldVars, tok, rt, tries, alive,
                           newscope, arrival, loginVars, left>>

(* Consume is one of the two. *)
LEMMA ConsumeCases == ASSUME NEW r \in Reqs, Consume(r) PROVE Gone(r) \/ Taken(r)
<1>1. CASE tok[r] \in refresh /\ alive[r]
  BY <1>1, Zenon DEF Consume, Consumed, Taken
<1>2. CASE ~(tok[r] \in refresh /\ alive[r])
  BY <1>2, Zenon DEF Consume, Consumed, Gone
<1> QED
  BY <1>1, <1>2

(* Every step keeps the inductive invariant. *)
LEMMA StepIInv == IInv /\ [Next]_vars => IInv'
<1> SUFFICES ASSUME IInv, [Next]_vars PROVE IInv'
  OBVIOUS
<1> USE DEF IInv, TypeOK, SessionInOnePlace, SessionNeverForks, LateIsRefused,
            DisabledIsOut, InHand, Busy, Cleared, User, Goto, Ends, LoginEnds, storeVars,
            worldVars, scopeVars, arrival, reqVars, loginVars
<1>1. ASSUME NEW l \in Logins, NEW u \in Users, LoginAtDex(l, u) PROVE IInv'
  BY <1>1 DEF LoginAtDex
<1>2. ASSUME NEW l \in Logins, LoginPut(l) PROVE IInv'
  BY <1>2 DEF LoginPut
<1>3. ASSUME NEW l \in Logins, NEW t \in Tokens, NEW scope \in SUBSET Services,
             LoginIssue(l, t, scope)
      PROVE  IInv'
  BY <1>3 DEF LoginIssue, Issue, GrantedTo
<1>4. ASSUME NEW l \in Logins, LoginFails(l) PROVE IInv'
  BY <1>4 DEF LoginFails
<1>5. ASSUME NEW r \in Reqs, NEW t \in Tokens, Present(r, t) PROVE IInv'
  <2>1. late' \in [Reqs -> BOOLEAN]
    <3>1. late' = [late EXCEPT ![r] = tsub[t] \notin honours]
      BY <1>5 DEF Present
    <3>2. (tsub[t] \notin honours) \in BOOLEAN
      OBVIOUS
    <3> HIDE DEF IInv
    <3>3. late \in [Reqs -> BOOLEAN]
      BY DEF IInv, TypeOK
    <3> QED
      BY <3>1, <3>2, <3>3
  <2>2. TypeOK'
    BY <1>5, <2>1 DEF Present, GrantedTo
  <2>3. SessionInOnePlace' /\ SessionNeverForks'
    BY <1>5 DEF Present
  <2>4. DisabledIsOut'
    BY <1>5 DEF Present
  <2>5. LateIsRefused'
    BY <1>5 DEF Present
  <2> QED
    BY <2>2, <2>3, <2>4, <2>5
<1>6. ASSUME NEW r \in Reqs, ReadDexrt(r) PROVE IInv'
  BY <1>6 DEF ReadDexrt
<1>7. ASSUME NEW r \in Reqs, DexHonours(r) PROVE IInv'
  BY <1>7 DEF DexHonours, DexAccepts
<1>8. ASSUME NEW r \in Reqs, DexRefuses(r) \/ DexUnreachable(r) PROVE IInv'
  <2>1. CASE DexRefuses(r)
    BY <2>1 DEF DexRefuses
  <2>2. CASE DexUnreachable(r)
    BY <2>2 DEF DexUnreachable
  <2> QED
    BY <1>8, <2>1, <2>2
<1>9. ASSUME NEW r \in Reqs, DexAnswerLost(r) PROVE IInv'
  BY <1>9 DEF DexAnswerLost
<1>10. ASSUME NEW r \in Reqs, RereadDexrt(r) PROVE IInv'
  <2>1. CASE pc' = [pc EXCEPT ![r] = "at_dex"]
    BY <1>10, <2>1 DEF RereadDexrt
  <2>2. CASE pc' = [pc EXCEPT ![r] = "pop_dexrt"]
    BY <1>10, <2>2 DEF RereadDexrt
  <2> QED
    BY <1>10, <2>1, <2>2 DEF RereadDexrt
<1>11. ASSUME NEW r \in Reqs, PopDexrt(r) PROVE IInv'
  BY <1>11 DEF PopDexrt
<1>12. ASSUME NEW r \in Reqs, Refused(r) PROVE IInv'
  BY <1>12 DEF Refused
<1>13. ASSUME NEW r \in Reqs, PutDexrt(r) PROVE IInv'
  BY <1>13 DEF PutDexrt
<1>14. ASSUME NEW r \in Reqs, UserExists(r) \/ UserLookupFails(r) PROVE IInv'
  <2>1. CASE UserExists(r)
    <3>1. alive' \in [Reqs -> BOOLEAN]
      BY <2>1 DEF UserExists
    <3>2. TypeOK'
      BY <2>1, <3>1 DEF UserExists
    <3> QED
      BY <2>1, <3>2 DEF UserExists
  <2>2. CASE UserLookupFails(r)
    BY <2>2 DEF UserLookupFails
  <2> QED
    BY <1>14, <2>1, <2>2
<1>15. ASSUME NEW r \in Reqs, Consume(r) PROVE IInv'
  <2>1. CASE Taken(r)
    BY <2>1 DEF Taken
  <2>2. CASE Gone(r)
    BY <2>2 DEF Gone
  <2> QED
    BY <1>15, <2>1, <2>2, ConsumeCases
<1>16. ASSUME NEW r \in Reqs, NEW s \in Services, ScopesFor(r, s) PROVE IInv'
  BY <1>16 DEF ScopesFor, GrantedTo
<1>17. ASSUME NEW r \in Reqs, NEW t \in Tokens, IssuePair(r, t) PROVE IInv'
  BY <1>17 DEF IssuePair, Issue
<1>18. ASSUME NEW r \in Reqs, Crash(r) PROVE IInv'
  BY <1>18 DEF Crash
<1>19. ASSUME NEW u \in Users, Disable(u) PROVE IInv'
  BY <1>19 DEF Disable
<1>20. ASSUME NEW u \in Users, DeleteUser(u) PROVE IInv'
  BY <1>20 DEF DeleteUser
<1>21. ASSUME NEW u \in Users, NEW s \in Services, RevokeGrant(u, s) PROVE IInv'
  BY <1>21 DEF RevokeGrant
<1>22. ASSUME NEW u \in Users, NEW s \in Services, GrantAgain(u, s) PROVE IInv'
  BY <1>22 DEF GrantAgain
<1>23. ASSUME NEW u \in Users, DexrtExpires(u) PROVE IInv'
  BY <1>23 DEF DexrtExpires
<1>24. ASSUME NEW t \in Tokens, RefreshExpires(t) PROVE IInv'
  BY <1>24 DEF RefreshExpires
<1>25. CASE UNCHANGED vars
  BY <1>25 DEF vars
<1> QED
  BY <1>1, <1>2, <1>3, <1>4, <1>5, <1>6, <1>7, <1>8, <1>9, <1>10, <1>11, <1>12, <1>13, <1>14,
     <1>15, <1>16, <1>17, <1>18, <1>19, <1>20, <1>21, <1>22, <1>23, <1>24, <1>25
  DEF Next, Login, Step

(* The inductive invariant holds in every reachable state. *)
LEMMA Invariance == Spec => []IInv
  BY InitIInv, StepIInv, PTL DEF Spec

(* Type correctness of the refresh grant: requests, logins and the store.  *)
THEOREM TypeCorrect == Spec => []TypeOK
<1>1. IInv => TypeOK
  BY DEF IInv
<1> QED
  BY <1>1, Invariance, PTL

(* A session never forks into two live refresh tokens, for any number of   *)
(* concurrent requests presenting the same token, with replicas dying at   *)
(* any await.                                                              *)
THEOREM SessionNeverForksCorrect == Spec => []SessionNeverForks
<1>1. IInv => SessionNeverForks
  BY DEF IInv
<1> QED
  BY <1>1, Invariance, PTL

(* A user disabled at the identity provider is out at the next refresh,    *)
(* with or without rotation at Dex and whatever siblings have stored.      *)
THEOREM DisabledIsOutCorrect == Spec => []DisabledIsOut
<1>1. IInv => DisabledIsOut
  BY DEF IInv
<1> QED
  BY <1>1, Invariance, PTL

(* What was missing since a request arrived is missing when it looks; the  *)
(* scopes it collects are those of the token it consumed; and no token in  *)
(* the store or in hand names a service its session has lost.              *)
ScopeInv ==
    /\ \A r \in Reqs : pc[r] \in Busy => stale[r] \cap GrantedTo(User(r)) = {}
    /\ \A r \in Reqs : IF InHand(r)
                         THEN /\ newscope[r] \subseteq tscope[tok[r]] \ stale[r]
                              /\ asked[r] \subseteq tscope[tok[r]]
                              /\ tscope[tok[r]] \cap left[session[tok[r]]] = {}
                         ELSE newscope[r] = {}
    /\ \A t \in refresh : tscope[t] \cap left[session[t]] = {}
    /\ \A l \in Logins : lpc[l] # "done" => left[l] = {}

(* Every step keeps it, whatever the user revokes or grants again and      *)
(* whatever the other requests and logins issue.                           *)
LEMMA StepScopeInv == IInv /\ ScopeInv /\ [Next]_vars => ScopeInv'
<1> SUFFICES ASSUME IInv, ScopeInv, [Next]_vars PROVE ScopeInv'
  OBVIOUS
<1> USE DEF IInv, TypeOK, SessionInOnePlace, ScopeInv, InHand, Busy, Cleared, User, GrantedTo,
            Goto, Ends, LoginEnds, storeVars, worldVars, scopeVars, arrival, reqVars, loginVars
<1>1. ASSUME NEW l \in Logins, NEW u \in Users, LoginAtDex(l, u) PROVE ScopeInv'
  BY <1>1 DEF LoginAtDex
<1>2. ASSUME NEW l \in Logins, LoginPut(l) \/ LoginFails(l) PROVE ScopeInv'
  BY <1>2 DEF LoginPut, LoginFails
<1>3. ASSUME NEW l \in Logins, NEW t \in Tokens, NEW scope \in SUBSET Services,
             LoginIssue(l, t, scope)
      PROVE  ScopeInv'
  BY <1>3 DEF LoginIssue, Issue
<1>4. ASSUME NEW r \in Reqs, NEW t \in Tokens, Present(r, t) PROVE ScopeInv'
  BY <1>4 DEF Present
<1>5. ASSUME NEW r \in Reqs,
             ReadDexrt(r) \/ DexHonours(r) \/ DexRefuses(r) \/ DexUnreachable(r)
               \/ DexAnswerLost(r) \/ RereadDexrt(r)
      PROVE  ScopeInv'
  BY <1>5 DEF ReadDexrt, DexHonours, DexRefuses, DexUnreachable, DexAnswerLost, RereadDexrt
<1>6. ASSUME NEW r \in Reqs,
             PopDexrt(r) \/ Refused(r) \/ PutDexrt(r) \/ UserExists(r) \/ UserLookupFails(r)
               \/ Crash(r)
      PROVE  ScopeInv'
  <2>1. CASE PopDexrt(r) \/ PutDexrt(r) \/ UserExists(r)
    BY <2>1 DEF PopDexrt, PutDexrt, UserExists
  <2>2. CASE Refused(r)
    BY <2>2 DEF Refused
  <2>3. CASE UserLookupFails(r)
    BY <2>3 DEF UserLookupFails
  <2>4. CASE Crash(r)
    BY <2>4 DEF Crash
  <2> QED
    BY <1>6, <2>1, <2>2, <2>3, <2>4
<1>7. ASSUME NEW r \in Reqs, Consume(r) PROVE ScopeInv'
  BY <1>7 DEF Consume, Consumed
<1>8. ASSUME NEW r \in Reqs, NEW s \in Services, ScopesFor(r, s) PROVE ScopeInv'
  BY <1>8 DEF ScopesFor
<1>9. ASSUME NEW r \in Reqs, NEW t \in Tokens, IssuePair(r, t) PROVE ScopeInv'
  BY <1>9 DEF IssuePair, Issue
<1>10. ASSUME NEW u \in Users, Disable(u) \/ DeleteUser(u) \/ DexrtExpires(u) PROVE ScopeInv'
  BY <1>10 DEF Disable, DeleteUser, DexrtExpires
<1>11. ASSUME NEW t \in Tokens, RefreshExpires(t) PROVE ScopeInv'
  BY <1>11 DEF RefreshExpires
<1>12. ASSUME NEW u \in Users, NEW s \in Services, RevokeGrant(u, s) PROVE ScopeInv'
  BY <1>12 DEF RevokeGrant
<1>13. ASSUME NEW u \in Users, NEW s \in Services, GrantAgain(u, s) PROVE ScopeInv'
  BY <1>13 DEF GrantAgain
<1>14. CASE UNCHANGED vars
  BY <1>14 DEF vars
<1> QED
  BY <1>1, <1>2, <1>3, <1>4, <1>5, <1>6, <1>7, <1>8, <1>9, <1>10, <1>11, <1>12, <1>13, <1>14
  DEF Next, Login, Step

(* A session never regains a service it has lost, though the user consents *)
(* to it again, and a grant missing from the arrival of a refresh on is in *)
(* no new pair, for any number of concurrent requests, logins, revocations *)
(* and consents.                                                           *)
THEOREM ServicesOnlyLeaveCorrect == Spec => []ServicesOnlyLeave
<1>1. Init => ScopeInv
  BY DEF Init, ScopeInv, InHand, Busy, Cleared
<1>2. ScopeInv => ServicesOnlyLeave
  BY DEF ScopeInv, ServicesOnlyLeave, InHand
<1> QED
  BY <1>1, <1>2, Invariance, StepScopeInv, PTL DEF Spec

----------------------------------------------------------------------------
(* A request between reading the shared Dex token and storing it. *)
Holding(r) == pc[r] \in {"at_dex", "reread", "put_dexrt"}

(* Nobody else is at Dex for a user while a login is, nor, when Dex        *)
(* rotates, while a request of that user holds the shared token.           *)
DexAlone ==
    /\ \A l, m \in Logins :
          lpc[l] = "put" /\ lpc[m] = "put" /\ lsub[l] = lsub[m] => l = m
    /\ \A l \in Logins, r \in Reqs :
          lpc[l] = "put" /\ Holding(r) => lsub[l] # User(r)
    /\ Rotates => \A q, r \in Reqs : Holding(q) /\ Holding(r) /\ User(q) = User(r) => q = r

(* A token Dex has made is stored: the login, or when Dex rotates the      *)
(* request, that obtained it gets the answer and lives until it has put    *)
(* the token on file.                                                      *)
DexTokenStored ==
    /\ \A l \in Logins : lpc[l] = "put" => lpc'[l] # "done"
    /\ Rotates => \A r \in Reqs : /\ pc[r] = "put_dexrt" => pc'[r] # "idle"
                                  /\ ~DexAnswerLost(r)

(* The token on file is Dex's newest unless someone is about to store it,  *)
(* a request at Dex holds the newest, and only refused users are refused.  *)
FileIsCurrent ==
    /\ \A u \in Users :
          \/ dexrt[u] \in {0, dexGen[u]}
          \/ \E l \in Logins : lpc[l] = "put" /\ lsub[l] = u
          \/ Rotates /\ \E r \in Reqs : pc[r] = "put_dexrt" /\ User(r) = u
    /\ \A l \in Logins : lpc[l] = "put" => lrt[l] = dexGen[lsub[l]]
    /\ \A r \in Reqs : pc[r] \in {"at_dex", "put_dexrt"} => rt[r] = dexGen[User(r)]
    /\ \A r \in Reqs : pc[r] \in {"reread", "pop_dexrt"} => User(r) \notin honours

(* Every step keeps it under the two hypotheses. *)
LEMMA StepFileIsCurrent ==
  ASSUME IInv, FileIsCurrent, DexAlone, DexAlone', [DexTokenStored]_vars, [Next]_vars
  PROVE  FileIsCurrent'
<1> USE DEF IInv, TypeOK, SessionInOnePlace, FileIsCurrent, Holding, Busy, Cleared, User, Goto,
            Ends, LoginEnds, storeVars, worldVars, scopeVars, arrival, reqVars, loginVars
<1>0. CASE UNCHANGED vars
  BY <1>0 DEF vars
<1> SUFFICES ASSUME DexTokenStored, Next PROVE FileIsCurrent'
  BY <1>0
<1>1. ASSUME NEW l \in Logins, NEW u \in Users, LoginAtDex(l, u) PROVE FileIsCurrent'
  BY <1>1 DEF LoginAtDex, DexAlone
<1>2. ASSUME NEW l \in Logins, LoginPut(l) PROVE FileIsCurrent'
  BY <1>2 DEF LoginPut, DexAlone
<1>3. ASSUME NEW l \in Logins, NEW t \in Tokens, NEW scope \in SUBSET Services,
             LoginIssue(l, t, scope)
      PROVE  FileIsCurrent'
  BY <1>3 DEF LoginIssue, Issue
<1>4. ASSUME NEW l \in Logins, LoginFails(l) PROVE FileIsCurrent'
  BY <1>4 DEF LoginFails, DexTokenStored
<1>5. ASSUME NEW r \in Reqs, NEW t \in Tokens, Present(r, t) PROVE FileIsCurrent'
  BY <1>5 DEF Present
<1>6. ASSUME NEW r \in Reqs, ReadDexrt(r) PROVE FileIsCurrent'
  <2>1. CASE dexrt[User(r)] = 0
    BY <1>6, <2>1 DEF ReadDexrt
  <2>2. CASE dexrt[User(r)] # 0
    <3>1. dexrt[User(r)] = dexGen[User(r)]
      BY <1>6, <2>2 DEF ReadDexrt, DexAlone
    <3> QED
      BY <1>6, <2>2, <3>1 DEF ReadDexrt
  <2> QED
    BY <2>1, <2>2
<1>7. ASSUME NEW r \in Reqs, DexHonours(r) PROVE FileIsCurrent'
  BY <1>7 DEF DexHonours, DexAccepts, DexAlone
<1>8. ASSUME NEW r \in Reqs, DexRefuses(r) \/ DexUnreachable(r) \/ DexAnswerLost(r)
      PROVE  FileIsCurrent'
  <2>1. CASE DexRefuses(r)
    BY <2>1 DEF DexRefuses, DexAccepts
  <2>2. CASE DexUnreachable(r)
    BY <2>2 DEF DexUnreachable
  <2>3. CASE DexAnswerLost(r)
    BY <2>3 DEF DexAnswerLost, DexTokenStored
  <2> QED
    BY <1>8, <2>1, <2>2, <2>3
<1>9. ASSUME NEW r \in Reqs, RereadDexrt(r) PROVE FileIsCurrent'
  <2>1. CASE pc' = [pc EXCEPT ![r] = "at_dex"]
    <3>1. dexrt[User(r)] = dexGen[User(r)]
      BY <1>9, <2>1 DEF RereadDexrt, DexAlone
    <3> QED
      BY <1>9, <2>1, <3>1 DEF RereadDexrt
  <2>2. CASE pc' = [pc EXCEPT ![r] = "pop_dexrt"]
    BY <1>9, <2>2 DEF RereadDexrt
  <2> QED
    BY <1>9, <2>1, <2>2 DEF RereadDexrt
<1>10. ASSUME NEW r \in Reqs, PopDexrt(r) PROVE FileIsCurrent'
  BY <1>10 DEF PopDexrt
<1>11. ASSUME NEW r \in Reqs, PutDexrt(r) PROVE FileIsCurrent'
  BY <1>11 DEF PutDexrt, DexAlone
<1>12. ASSUME NEW r \in Reqs, Crash(r) PROVE FileIsCurrent'
  BY <1>12 DEF Crash, DexTokenStored
<1>13. ASSUME NEW r \in Reqs,
              Refused(r) \/ UserExists(r) \/ UserLookupFails(r) \/ Consume(r)
                \/ \E s \in Services : ScopesFor(r, s)
       PROVE  FileIsCurrent'
  <2>1. CASE Refused(r)
    BY <2>1 DEF Refused
  <2>2. CASE UserExists(r) \/ \E s \in Services : ScopesFor(r, s)
    BY <2>2 DEF UserExists, ScopesFor
  <2>3. CASE UserLookupFails(r)
    BY <2>3 DEF UserLookupFails
  <2>4. CASE Consume(r)
    <3>1. CASE Taken(r)
      BY <3>1 DEF Taken
    <3>2. CASE Gone(r)
      BY <3>2 DEF Gone
    <3> QED
      BY <2>4, <3>1, <3>2, ConsumeCases
  <2> QED
    BY <1>13, <2>1, <2>2, <2>3, <2>4
<1>14. ASSUME NEW r \in Reqs, NEW t \in Tokens, IssuePair(r, t) PROVE FileIsCurrent'
  BY <1>14 DEF IssuePair, Issue
<1>15. ASSUME NEW u \in Users, Disable(u) \/ DeleteUser(u) \/ DexrtExpires(u)
       PROVE  FileIsCurrent'
  BY <1>15 DEF Disable, DeleteUser, DexrtExpires
<1>16. ASSUME NEW t \in Tokens, RefreshExpires(t) PROVE FileIsCurrent'
  BY <1>16 DEF RefreshExpires
<1>17. ASSUME NEW u \in Users, NEW s \in Services, RevokeGrant(u, s) \/ GrantAgain(u, s)
       PROVE  FileIsCurrent'
  BY <1>17 DEF RevokeGrant, GrantAgain
<1> QED
  BY <1>1, <1>2, <1>3, <1>4, <1>5, <1>6, <1>7, <1>8, <1>9, <1>10, <1>11, <1>12, <1>13, <1>14,
     <1>15, <1>16, <1>17 DEF Next, Login, Step

(* The docstring's intention holds where the races of README, Findings, do *)
(* not happen.  When no login and, if Dex rotates, no second refresh of    *)
(* the user is at Dex at the same time, and no token Dex has made is lost  *)
(* before it is stored, only a user Dex has stopped honouring is taken to  *)
(* be refused: through outages of Dex, expiry of the shared token at any   *)
(* moment, siblings that share a token that does not rotate, and replicas  *)
(* dying anywhere else.                                                    *)
THEOREM RefusalWithoutOverlap ==
  Spec /\ []DexAlone /\ [][DexTokenStored]_vars => []RefusalMeansDishonoured
<1>1. Init => FileIsCurrent
  BY DEF Init, FileIsCurrent
<1>2. IInv /\ FileIsCurrent /\ DexAlone /\ DexAlone' /\ [DexTokenStored]_vars /\ [Next]_vars
        => FileIsCurrent'
  BY StepFileIsCurrent
<1>3. FileIsCurrent => RefusalMeansDishonoured
  BY DEF FileIsCurrent, RefusalMeansDishonoured
<1> QED
  BY <1>1, <1>2, <1>3, Invariance, PTL DEF Spec
=============================================================================
