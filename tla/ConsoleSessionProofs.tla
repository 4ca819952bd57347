------------------------- MODULE ConsoleSessionProofs -------------------------
(***************************************************************************)
(* For every set of users, requests and routes: reloads never stack, the   *)
(* console throws nobody out whose session stands, and an expired document *)
(* stays expired.  And for every set of tabs: the theme agrees with the    *)
(* class on <html> and with what a reload restores.                        *)
(***************************************************************************)
EXTENDS ConsoleSession, ConsoleTheme, FiniteSetTheorems, TLAPS

(* A call of loadSession holds the status at null, alone. *)
LoadsAlone ==
    /\ \A l \in Loads : Active(l) => status = "null"
    /\ \A l, m \in Loads : Active(l) /\ Active(m) => l = m

(* A page has requests under way only over a session that was loaded. *)
PagesOverSession ==
    /\ me # None => hasLoaded
    /\ \A r \in PageReqs : Active(r) => status \in {"200", "401"} /\ me # None

(* A 401 of the session API, and the state it leads to, mean that the      *)
(* session ended after it was last confirmed.                              *)
Refused(r) == req[r].st = "answered" /\ req[r].status = "401"
LapseKnown ==
    /\ cookie = None => lapsed
    /\ \A r \in SessionReqs : Refused(r) => lapsed
    /\ status = "401" /\ hasLoaded => lapsed
    /\ nav = "login" => status = "401" /\ hasLoaded

BootIsIdle == page = "boot" => nav = "none" /\ \A r \in Requests : ~Active(r)

Rest == LoadsAlone /\ PagesOverSession /\ LapseKnown /\ BootIsIdle

Inv == TypeOK /\ Rest
----------------------------------------------------------------------------
Answers == [st : {"idle", "sent", "answered"}, status : Statuses, data : Users \cup {None}]

LEMMA RequestKinds ==
    /\ \A l \in Loads : l \in SessionReqs /\ l \in Requests /\ l \notin PageReqs /\ l # "config"
    /\ \A r \in PageReqs : r \in SessionReqs /\ r \in Requests /\ r \notin Loads /\ r # "config"
    /\ \A r \in Queries : r \in PageReqs
    /\ SessionReqs \subseteq Requests /\ "config" \in Requests
    /\ \A r \in Requests : r \in Loads \/ r \in PageReqs \/ r = "config"
    /\ \A r \in SessionReqs : r \in Loads \/ r \in PageReqs
BY ConsoleAssumption DEF SessionReqs, Requests, PageReqs

LEMMA IdleSent ==
    /\ Idle \in Answers /\ Idle.st = "idle" /\ Idle.status = "null"
    /\ Sent \in Answers /\ Sent.st = "sent" /\ Sent.status = "null"
BY DEF Idle, Sent, Answers, Statuses

(* What the five views and the four screens say about the session store.   *)
LEMMA ViewFacts ==
    ASSUME TypeOK
    PROVE  /\ view = "expired" <=> status = "401" /\ hasLoaded
           /\ Shown = "shell" => status = "200" /\ me # None
           /\ Shown = "login" => status = "401" /\ ~hasLoaded
           /\ Shown = "errorcard" => status = "bad" \/ (status = "200" /\ me = None)
<1>1. status \in {"null", "200", "401", "bad"}
  BY DEF TypeOK, Statuses
<1>2. view = IF status = "null" THEN "loading"
             ELSE IF status = "200" THEN "authed"
             ELSE IF status = "401" THEN (IF hasLoaded THEN "expired" ELSE "signin")
             ELSE "error"
  BY <1>1 DEF view, resolveState
<1>3. Shown = IF view = "authed" THEN (IF me = None THEN "errorcard" ELSE "shell")
              ELSE IF view = "signin" THEN "login"
              ELSE IF view = "error" THEN "errorcard" ELSE "loadingcard"
  BY <1>1, <1>2 DEF Shown
<1> QED BY <1>1, <1>2, <1>3

(* Fetches a step leaves alone, forgets or changes one at a time. *)
LEMMA ReqSet ==
    ASSUME TypeOK, NEW r \in Requests, NEW a \in Answers
    PROVE  /\ [req EXCEPT ![r] = a] \in [Requests -> Answers]
           /\ [req EXCEPT ![r] = a][r] = a
           /\ \A o \in Requests \ {r} : [req EXCEPT ![r] = a][o] = req[o]
BY DEF TypeOK, Answers

LEMMA UnmountedIs ==
    ASSUME NEW q \in [Requests -> Answers]
    PROVE  /\ Unmounted(q) \in [Requests -> Answers]
           /\ \A r \in Requests : Unmounted(q)[r] = Idle \/ Unmounted(q)[r] = q[r]
BY IdleSent DEF Unmounted
----------------------------------------------------------------------------
LEMMA InitEstablishes == Init => Inv
<1> SUFFICES ASSUME Init PROVE Inv
  OBVIOUS
<1> USE DEF Init
<1>1. \A r \in Requests : req[r] = Idle
  OBVIOUS
<1>2. req \in [Requests -> [st : {"idle", "sent", "answered"}, status : Statuses,
                           data : Users \cup {None}]]
  BY IdleSent DEF Answers
<1>3. lapsed \in BOOLEAN
  OBVIOUS
<1>4. TypeOK
  BY <1>2, <1>3, ConsoleAssumption DEF TypeOK, Statuses
<1>5. LoadsAlone /\ PagesOverSession /\ BootIsIdle
  BY <1>1, IdleSent, RequestKinds DEF LoadsAlone, PagesOverSession, BootIsIdle, Active
<1>6. LapseKnown
  BY <1>1, IdleSent, RequestKinds DEF LapseKnown, Refused
<1> QED BY <1>4, <1>5, <1>6 DEF Inv, Rest

(* Every step keeps the types. *)
LEMMA TypeKept == TypeOK /\ [Next]_vars => TypeOK'
<1> SUFFICES ASSUME TypeOK, [Next]_vars PROVE TypeOK'
  OBVIOUS
<1> DEFINE ReqTyped == req' \in [Requests -> Answers]
           StoreTyped == status' \in Statuses /\ me' \in Users \cup {None} /\ hasLoaded' \in BOOLEAN
<1>0. req \in [Requests -> Answers]
  BY DEF TypeOK, Answers
<1> USE DEF docVars, storeVars, viewVars, serverVars
<1>1. ASSUME NEW l \in Loads, Mount(l) PROVE TypeOK'
  <2>1. ReqTyped
    BY <1>0, <1>1, IdleSent, RequestKinds DEF Mount
  <2> QED BY <1>1, <2>1 DEF Mount, loadSession, TypeOK, Answers, Statuses
<1>2. ASSUME NEW l \in Loads, Retry(l) PROVE TypeOK'
  <2>1. ReqTyped
    BY <1>0, <1>2, IdleSent, RequestKinds DEF Retry
  <2> QED BY <1>2, <2>1 DEF Retry, loadSession, TypeOK, Answers, Statuses
<1>3. ASSUME NEW l \in Loads, DeliverLoad(l) PROVE TypeOK'
  <2>1. ReqTyped
    BY <1>0, <1>3, IdleSent, RequestKinds DEF DeliverLoad
  <2>2. req[l] \in Answers
    BY <1>0, RequestKinds
  <2>3. StoreTyped
    BY <1>3, <2>2 DEF DeliverLoad, TypeOK, Answers
  <2> QED BY <1>3, <2>1, <2>3 DEF DeliverLoad, TypeOK, Answers
<1>4. ASSUME DeliverConfig PROVE TypeOK'
  <2>1. ReqTyped
    BY <1>0, <1>4, IdleSent, RequestKinds DEF DeliverConfig
  <2> QED BY <1>4, <2>1 DEF DeliverConfig, TypeOK, Answers
<1>5. ASSUME NEW r \in PageReqs, PageRequests(r) PROVE TypeOK'
  <2>1. ReqTyped
    BY <1>0, <1>5, IdleSent, RequestKinds DEF PageRequests
  <2> QED BY <1>5, <2>1 DEF PageRequests, TypeOK, Answers
<1>6. ASSUME NEW r \in PageReqs, DeliverPage(r) PROVE TypeOK'
  <2>1. [req EXCEPT ![r] = Idle] \in [Requests -> Answers]
    BY <1>0, IdleSent, RequestKinds
  <2>2. ReqTyped
    BY <1>6, <2>1, UnmountedIs DEF DeliverPage
  <2>3. status' \in Statuses
    BY <1>6 DEF DeliverPage, markExpiredStatus, TypeOK, Statuses
  <2>4. UNCHANGED <<docVars, me, hasLoaded, viewVars, serverVars>>
    BY <1>6 DEF DeliverPage
  <2> QED BY <2>2, <2>3, <2>4 DEF TypeOK, Answers
<1>7. ASSUME NEW to \in Routes, NavigateTo(to) PROVE TypeOK'
  <2>1. ReqTyped
    BY <1>0, <1>7, UnmountedIs DEF NavigateTo
  <2> QED BY <1>7, <2>1 DEF NavigateTo, TypeOK, Answers
<1>8. ASSUME RedirectToLogin \/ ClickSso \/ ClickLogout PROVE TypeOK'
  BY <1>8 DEF RedirectToLogin, ClickSso, ClickLogout, TypeOK
<1>10. ASSUME NEW r \in Requests, ServerAnswers(r) PROVE TypeOK'
  <2>1. PICK s \in Statuses \ {"null"}, d \in Users \cup {None} :
          /\ req' = [req EXCEPT ![r] = [st |-> "answered", status |-> s, data |-> d]]
          /\ lapsed' = IF r \in Loads /\ s = "200" THEN FALSE ELSE lapsed
    BY <1>10 DEF ServerAnswers
  <2>2. ReqTyped /\ lapsed' \in BOOLEAN
    BY <1>0, <2>1 DEF Answers, TypeOK
  <2>3. UNCHANGED <<docVars, storeVars, viewVars, cookie>>
    BY <1>10 DEF ServerAnswers
  <2> QED BY <2>2, <2>3 DEF TypeOK, Answers
<1>11. ASSUME SessionEnds \/ \E u \in Users : OtherTabSignsIn(u) PROVE TypeOK'
  BY <1>11 DEF SessionEnds, OtherTabSignsIn, TypeOK
<1>12. ASSUME Unload PROVE TypeOK'
  <2>1. lapsed' \in BOOLEAN /\ cookie' \in Users \cup {None}
    BY <1>12 DEF Unload, TypeOK
  <2> QED BY <1>12, <2>1 DEF Unload, TypeOK
<1>13. ASSUME RestoreFromCache PROVE TypeOK'
  <2>1. restored' \in BOOLEAN
    BY <1>13 DEF RestoreFromCache
  <2> QED BY <1>13, <2>1 DEF RestoreFromCache, TypeOK
<1>14. ASSUME FreshDocument PROVE
         /\ ReqTyped /\ StoreTyped
         /\ page' = "boot" /\ nav' = "none" /\ restored' = FALSE
         /\ config' = "default" /\ pending' = FALSE
  <2>1. ReqTyped
    BY <1>14, IdleSent DEF FreshDocument
  <2> QED BY <1>14, <2>1 DEF FreshDocument, Statuses
<1>15. ASSUME Reload PROVE TypeOK'
  <2>1. lapsed' \in BOOLEAN
    BY <1>15 DEF Reload
  <2> QED BY <1>14, <1>15, <2>1 DEF Reload, TypeOK, Answers
<1>16. ASSUME NEW c \in Users \cup {None}, ReturnFromLogin(c) PROVE TypeOK'
  <2>1. lapsed' \in BOOLEAN /\ cookie' = c /\ route' = "/"
    BY <1>16 DEF ReturnFromLogin
  <2> QED BY <1>14, <1>16, <2>1, ConsoleAssumption DEF ReturnFromLogin, TypeOK, Answers
<1>17. ASSUME UNCHANGED vars PROVE TypeOK'
  BY <1>17 DEF vars, TypeOK
<1> QED BY <1>1, <1>2, <1>3, <1>4, <1>5, <1>6, <1>7, <1>8, <1>10, <1>11, <1>12, <1>13,
           <1>15, <1>16, <1>17 DEF Next

(* Steps that at most forget fetches, and do not touch the session. *)
LEMMA ForgettingKeeps ==
    ASSUME Rest, \A r \in Requests : req'[r] = req[r] \/ req'[r] = Idle,
           UNCHANGED <<storeVars, serverVars>>,
           page' = "boot" => page = "boot" /\ nav' = nav,
           nav' = "login" => nav = "login" \/ (status = "401" /\ hasLoaded)
    PROVE  Rest'
<1> USE DEF storeVars, serverVars
<1>1. \A r \in Requests : Active(r)' => Active(r)
  BY IdleSent DEF Active
<1>2. \A r \in Requests : Refused(r)' => Refused(r)
  BY IdleSent DEF Refused
<1>3. LoadsAlone'
  BY <1>1, RequestKinds DEF Rest, LoadsAlone
<1>4. PagesOverSession'
  BY <1>1, RequestKinds DEF Rest, PagesOverSession
<1>5. LapseKnown'
  BY <1>2, RequestKinds DEF Rest, LapseKnown
<1>6. BootIsIdle'
  BY <1>1 DEF Rest, BootIsIdle
<1> QED BY <1>3, <1>4, <1>5, <1>6 DEF Rest

(* A new document knows of no session and asks nothing yet. *)
LEMMA FreshKeeps ==
    ASSUME FreshDocument, cookie' = None => lapsed'
    PROVE  Rest'
<1>1. \A r \in Requests : req'[r] = Idle
  BY DEF FreshDocument
<1>2. status' = "null" /\ nav' = "none" /\ me' = None
  BY DEF FreshDocument
<1>3. \A r \in Requests : ~Active(r)' /\ ~Refused(r)'
  BY <1>1, IdleSent DEF Active, Refused
<1>4. LoadsAlone' /\ PagesOverSession' /\ BootIsIdle'
  BY <1>2, <1>3, RequestKinds DEF LoadsAlone, PagesOverSession, BootIsIdle
<1>5. LapseKnown'
  BY <1>2, <1>3, RequestKinds DEF LapseKnown
<1> QED BY <1>4, <1>5 DEF Rest

(* A call of loadSession starts when none is under way and no page asks.   *)
LEMMA LoadKeeps ==
    ASSUME TypeOK, Rest, NEW l \in Loads,
           \A r \in Requests : req'[r] \in {Sent, req[r]} /\ (r # l /\ r # "config" => req'[r] = req[r]),
           \A r \in SessionReqs : ~Active(r),
           status' = "null", UNCHANGED <<me, hasLoaded, nav, cookie, lapsed>>,
           nav # "login", page' = "live"
    PROVE  Rest'
<1>1. \A r \in Requests : Active(r)' => Active(r) \/ r = l \/ r = "config"
  BY DEF Active
<1>2. \A r \in Requests : Refused(r)' => Refused(r)
  BY IdleSent DEF Refused
<1>3. LoadsAlone'
  BY <1>1, RequestKinds DEF LoadsAlone
<1>4. PagesOverSession'
  BY <1>1, RequestKinds DEF Rest, PagesOverSession
<1>5. LapseKnown'
  BY <1>2, RequestKinds DEF Rest, LapseKnown
<1>6. BootIsIdle'
  BY DEF BootIsIdle
<1> QED BY <1>3, <1>4, <1>5, <1>6 DEF Rest

(* Every step keeps the rest of the invariant. *)
LEMMA StepKeeps == Inv /\ [Next]_vars => Inv'
<1> SUFFICES ASSUME Inv, [Next]_vars PROVE Inv'
  OBVIOUS
<1>0. TypeOK /\ TypeOK' /\ Rest /\ req \in [Requests -> Answers]
  BY TypeKept DEF Inv, TypeOK, Answers
<1>h. ASSUME Rest' PROVE Inv'
  BY <1>0, <1>h DEF Inv
<1> USE DEF docVars, storeVars, viewVars, serverVars
<1>1. ASSUME NEW l \in Loads, Mount(l) PROVE Inv'
  <2>1. /\ \A r \in Requests : ~Active(r)
        /\ nav # "login" /\ l \in Requests
    BY <1>0, <1>1, RequestKinds DEF Mount, Rest, BootIsIdle
  <2>2. \A r \in Requests : req'[r] \in {Sent, req[r]} /\ (r # l /\ r # "config" => req'[r] = req[r])
    BY <1>0, <1>1, RequestKinds DEF Mount
  <2>3. status' = "null" /\ page' = "live" /\ UNCHANGED <<me, hasLoaded, nav, cookie, lapsed>>
    BY <1>1 DEF Mount, loadSession
  <2>4. Rest'
    BY <1>0, <2>1, <2>2, <2>3, LoadKeeps, RequestKinds
  <2> QED BY <1>1, <1>h, <2>4 DEF Mount
<1>2. ASSUME NEW l \in Loads, Retry(l) PROVE Inv'
  <2>1. status # "null" /\ (status = "bad" \/ (status = "200" /\ me = None))
    BY <1>0, <1>2, ViewFacts DEF Retry
  <2>2. /\ \A r \in SessionReqs : ~Active(r)
        /\ nav # "login"
    BY <1>0, <2>1, RequestKinds DEF Rest, LoadsAlone, PagesOverSession, LapseKnown
  <2>3. \A r \in Requests : req'[r] \in {Sent, req[r]} /\ (r # l /\ r # "config" => req'[r] = req[r])
    BY <1>0, <1>2, RequestKinds DEF Retry
  <2>4. status' = "null" /\ page' = "live" /\ UNCHANGED <<me, hasLoaded, nav, cookie, lapsed>>
    BY <1>2 DEF Retry, loadSession, Live
  <2>5. Rest'
    BY <1>0, <2>2, <2>3, <2>4, LoadKeeps
  <2> QED BY <1>2, <1>h, <2>5 DEF Retry
<1>3. ASSUME NEW l \in Loads, DeliverLoad(l) PROVE Inv'
  <2>1. /\ l \in Requests /\ l \in SessionReqs /\ Active(l) /\ status = "null"
        /\ \A r \in Loads : Active(r) => r = l
        /\ \A r \in PageReqs : ~Active(r)
    BY <1>0, <1>3, RequestKinds DEF DeliverLoad, Active, Rest, LoadsAlone, PagesOverSession
  <2>2. \A r \in Requests : req'[r] = IF r = l THEN Idle ELSE req[r]
    BY <1>0, <1>3, <2>1 DEF DeliverLoad
  <2>3. \A r \in SessionReqs : ~Active(r)' /\ ~Refused(r)'
    BY <2>1, <2>2, IdleSent, RequestKinds DEF Active, Refused
  <2>4. /\ status' = req[l].status /\ UNCHANGED <<page, nav, cookie, lapsed>>
        /\ page = "live"
    BY <1>3 DEF DeliverLoad, Live
  <2>5. nav # "login"
    BY <1>0, <2>1 DEF Rest, LapseKnown
  <2>6. status' = "401" => lapsed
    BY <1>0, <1>3, <2>1, <2>4 DEF DeliverLoad, Rest, LapseKnown, Refused
  <2>7. LoadsAlone' /\ BootIsIdle'
    BY <2>3, <2>4, RequestKinds DEF LoadsAlone, BootIsIdle
  <2>9. me' # None => hasLoaded'
    BY <1>0, <1>3 DEF DeliverLoad, Rest, PagesOverSession, TypeOK
  <2>10. PagesOverSession'
    BY <2>3, <2>9, RequestKinds DEF PagesOverSession
  <2>8. LapseKnown'
    BY <1>0, <2>3, <2>4, <2>5, <2>6 DEF Rest, LapseKnown
  <2> QED BY <1>3, <1>h, <2>7, <2>8, <2>10 DEF DeliverLoad, Rest
<1>4. ASSUME DeliverConfig PROVE Inv'
  <2>1. \A r \in Requests : req'[r] = req[r] \/ req'[r] = Idle
    BY <1>0, <1>4, RequestKinds DEF DeliverConfig
  <2>2. Rest'
    BY <1>0, <1>4, <2>1, ForgettingKeeps DEF DeliverConfig
  <2> QED BY <1>4, <1>h, <2>2 DEF DeliverConfig
<1>5. ASSUME NEW r \in PageReqs, PageRequests(r) PROVE Inv'
  <2>1. status = "200" /\ me # None /\ page = "live"
    BY <1>0, <1>5, ViewFacts DEF PageRequests, InShell, Live
  <2>2. /\ \A o \in Requests : req'[o] = IF o = r THEN Sent ELSE req[o]
        /\ UNCHANGED <<page, nav, status, me, hasLoaded, cookie, lapsed>>
    BY <1>0, <1>5, RequestKinds DEF PageRequests
  <2>3. \A o \in Requests : (Active(o)' => Active(o) \/ o = r) /\ (Refused(o)' => Refused(o))
    BY <2>2, IdleSent DEF Active, Refused
  <2>4. LoadsAlone' /\ BootIsIdle'
    BY <1>0, <2>1, <2>2, <2>3, RequestKinds DEF Rest, LoadsAlone, BootIsIdle
  <2>5. PagesOverSession'
    BY <1>0, <2>1, <2>2, <2>3, RequestKinds DEF Rest, PagesOverSession
  <2>6. LapseKnown'
    BY <1>0, <2>2, <2>3, RequestKinds DEF Rest, LapseKnown
  <2> QED BY <1>5, <1>h, <2>4, <2>5, <2>6 DEF PageRequests, Rest
<1>6. ASSUME NEW r \in PageReqs, DeliverPage(r) PROVE Inv'
  <2>1. /\ r \in Requests /\ r \in SessionReqs /\ Active(r) /\ page = "live"
        /\ status \in {"200", "401"} /\ hasLoaded
        /\ \A l \in Loads : ~Active(l)
    BY <1>0, <1>6, RequestKinds DEF DeliverPage, Live, Active, Rest, LoadsAlone, PagesOverSession
  <2>2. [req EXCEPT ![r] = Idle] \in [Requests -> Answers]
    BY <1>0, <2>1, IdleSent
  <2>3. \A o \in Requests : req'[o] = req[o] \/ req'[o] = Idle
    BY <1>0, <1>6, <2>1, <2>2, UnmountedIs DEF DeliverPage
  <2>4. \A o \in Requests : (Active(o)' => Active(o)) /\ (Refused(o)' => Refused(o))
    BY <2>3, IdleSent DEF Active, Refused
  <2>5. /\ UNCHANGED <<page, nav, me, hasLoaded, cookie, lapsed>>
        /\ status' = IF req[r].status = "401" THEN "401" ELSE status
    BY <1>6, <2>1 DEF DeliverPage, markExpiredStatus
  <2>6. req[r].status = "401" => lapsed
    BY <1>0, <1>6, <2>1 DEF DeliverPage, Rest, LapseKnown, Refused
  <2>7. LoadsAlone' /\ BootIsIdle'
    BY <1>0, <2>1, <2>4, <2>5, RequestKinds DEF Rest, LoadsAlone, BootIsIdle
  <2>8. PagesOverSession'
    BY <1>0, <2>4, <2>5, RequestKinds DEF Rest, PagesOverSession
  <2>9. LapseKnown'
    BY <1>0, <2>1, <2>4, <2>5, <2>6, RequestKinds DEF Rest, LapseKnown
  <2> QED BY <1>6, <1>h, <2>7, <2>8, <2>9 DEF DeliverPage, Rest
<1>7. ASSUME NEW to \in Routes, NavigateTo(to) PROVE Inv'
  <2>1. \A r \in Requests : req'[r] = req[r] \/ req'[r] = Idle
    BY <1>0, <1>7, UnmountedIs DEF NavigateTo
  <2>2. Rest'
    BY <1>0, <1>7, <2>1, ForgettingKeeps DEF NavigateTo
  <2> QED BY <1>7, <1>h, <2>2 DEF NavigateTo
<1>8. ASSUME RedirectToLogin \/ ClickSso \/ ClickLogout PROVE Inv'
  <2>1. view = "expired" <=> status = "401" /\ hasLoaded
    BY <1>0, ViewFacts
  <2>2. /\ UNCHANGED <<page, storeVars, serverVars, req>>
        /\ nav' = "login" => status = "401" /\ hasLoaded
        /\ page = "live"
    BY <1>8, <2>1 DEF RedirectToLogin, ClickSso, ClickLogout, InShell, Live
  <2>3. Rest'
    BY <1>0, <2>2, ForgettingKeeps
  <2> QED BY <1>h, <2>2, <2>3
<1>10. ASSUME NEW r \in Requests, ServerAnswers(r) PROVE Inv'
  <2>1. PICK s \in Statuses \ {"null"}, d \in Users \cup {None} :
          /\ r \in SessionReqs => /\ s = "401" => cookie = None
                                  /\ s = "200" => cookie # None
          /\ req' = [req EXCEPT ![r] = [st |-> "answered", status |-> s, data |-> d]]
          /\ lapsed' = IF r \in Loads /\ s = "200" THEN FALSE ELSE lapsed
    BY <1>10 DEF ServerAnswers
  <2>2. /\ page = "live" /\ req[r] = Sent
        /\ UNCHANGED <<page, nav, status, me, hasLoaded, cookie>>
    BY <1>10 DEF ServerAnswers, Live
  <2>3. /\ \A o \in Requests \ {r} : req'[o] = req[o]
        /\ req'[r] = [st |-> "answered", status |-> s, data |-> d]
    BY <1>0, <2>1
  <2>4. /\ \A o \in Requests : Active(o)' => Active(o)
        /\ \A o \in Requests : Refused(o)' => Refused(o) \/ (o = r /\ s = "401")
    BY <2>2, <2>3, IdleSent DEF Active, Refused
  <2>5. LoadsAlone' /\ PagesOverSession' /\ BootIsIdle'
    BY <1>0, <2>2, <2>4, RequestKinds DEF Rest, LoadsAlone, PagesOverSession, BootIsIdle
  <2>6. CASE r \in Loads /\ s = "200"
    <3>1. /\ Active(r) /\ status = "null" /\ cookie # None
          /\ \A o \in Loads : Active(o) => o = r
          /\ \A o \in PageReqs : ~Active(o)
      BY <1>0, <2>1, <2>2, <2>6, IdleSent, RequestKinds
         DEF Active, Rest, LoadsAlone, PagesOverSession
    <3>2. \A o \in SessionReqs : ~Refused(o)'
      BY <2>3, <2>4, <2>6, <3>1, RequestKinds DEF Active, Refused
    <3>3. LapseKnown'
      BY <1>0, <2>2, <3>1, <3>2 DEF Rest, LapseKnown
    <3> QED BY <1>h, <2>2, <2>5, <3>3 DEF Rest
  <2>7. CASE ~(r \in Loads /\ s = "200")
    <3>1. lapsed' = lapsed
      BY <2>1, <2>7
    <3>2. \A o \in SessionReqs : Refused(o)' => lapsed
      BY <1>0, <2>1, <2>4, RequestKinds DEF Rest, LapseKnown
    <3>3. LapseKnown'
      BY <1>0, <2>2, <3>1, <3>2 DEF Rest, LapseKnown
    <3> QED BY <1>h, <2>2, <2>5, <3>3 DEF Rest
  <2> QED BY <2>6, <2>7
<1>11. ASSUME SessionEnds \/ (\E u \in Users : OtherTabSignsIn(u)) \/ Unload PROVE Inv'
  <2> DEFINE G == /\ UNCHANGED <<nav, status, me, hasLoaded, req>>
                  /\ page' = "boot" => page = "boot"
                  /\ lapsed => lapsed'
                  /\ cookie' = None => lapsed' \/ cookie = None
  <2>1. G
    <3>1. CASE SessionEnds
      BY <3>1 DEF SessionEnds
    <3>2. ASSUME NEW u \in Users, OtherTabSignsIn(u) PROVE G
      BY <3>2, ConsoleAssumption DEF OtherTabSignsIn
    <3>3. CASE Unload
      BY <1>0, <3>3 DEF Unload, Live, TypeOK
    <3> QED BY <1>11, <3>1, <3>2, <3>3
  <2>2. \A r \in Requests : (Active(r)' <=> Active(r)) /\ (Refused(r)' <=> Refused(r))
    BY <2>1 DEF Active, Refused
  <2>3. LoadsAlone' /\ PagesOverSession' /\ BootIsIdle'
    BY <1>0, <2>1, <2>2, RequestKinds DEF Rest, LoadsAlone, PagesOverSession, BootIsIdle
  <2>4. LapseKnown'
    BY <1>0, <2>1, <2>2, RequestKinds DEF Rest, LapseKnown
  <2> QED BY <1>h, <2>1, <2>3, <2>4 DEF Rest
<1>12. ASSUME RestoreFromCache PROVE Inv'
  <2>1. Rest'
    BY <1>0, <1>12, ForgettingKeeps DEF RestoreFromCache
  <2> QED BY <1>12, <1>h, <2>1 DEF RestoreFromCache
<1>13. ASSUME Reload \/ \E c \in Users \cup {None} : ReturnFromLogin(c) PROVE Inv'
  <2>1. FreshDocument /\ (cookie' = None => lapsed')
    BY <1>13 DEF Reload, ReturnFromLogin
  <2> QED BY <1>h, <2>1, FreshKeeps
<1>14. ASSUME UNCHANGED vars PROVE Inv'
  <2>1. Rest'
    BY <1>0, <1>14, ForgettingKeeps DEF vars
  <2> QED BY <1>14, <1>h, <2>1 DEF vars
<1> QED BY <1>1, <1>2, <1>3, <1>4, <1>5, <1>6, <1>7, <1>8, <1>10, <1>11, <1>12, <1>13,
           <1>14 DEF Next
----------------------------------------------------------------------------
LEMMA InvHolds == Spec => []Inv
BY InitEstablishes, StepKeeps, PTL DEF Spec

(* At most one GET /api/session/me is in flight, and no page asks meanwhile. *)
THEOREM LoadsNeverStackCorrect == Spec => []LoadsNeverStack
<1>1. Inv => LoadsNeverStack
  <2> SUFFICES ASSUME Inv PROVE LoadsNeverStack
    OBVIOUS
  <2>1. \A l, m \in {k \in Loads : Active(k)} : l = m
    BY DEF Inv, Rest, LoadsAlone
  <2> DEFINE S == {l \in Loads : Active(l)}
  <2>2. Cardinality(S) <= 1
    <3>1. CASE S = {}
      BY <3>1, FS_EmptySet
    <3>2. CASE S # {}
      <4>1. PICK l \in S : S = {l}
        BY <2>1, <3>2
      <4>2. Cardinality({l}) = 1
        BY FS_Singleton
      <4> QED BY <4>1, <4>2
    <3> QED BY <3>1, <3>2
  <2>3. (\E l \in Loads : Active(l)) => \A r \in PageReqs : ~Active(r)
    BY DEF Inv, Rest, LoadsAlone, PagesOverSession
  <2> QED BY <2>2, <2>3 DEF LoadsNeverStack
<1> QED BY <1>1, InvHolds, PTL

(* The redirect effect of App.tsx fires only for a session that ended after *)
(* the server last confirmed it.                                            *)
THEOREM ThrownOutOnlyIfLapsedCorrect == Spec => []ThrownOutOnlyIfLapsed
<1>1. Inv => ThrownOutOnlyIfLapsed
  BY DEF Inv, Rest, LapseKnown, ThrownOutOnlyIfLapsed
<1> QED BY <1>1, InvHolds, PTL

(* No late answer of /me or of a page undoes markExpired. *)
THEOREM ExpiredIsFinalCorrect == Spec => ExpiredIsFinal
<1>1. Inv /\ [Next]_vars => [Live /\ view = "expired" /\ page' = "live" => view' = "expired"]_vars
  <2> SUFFICES ASSUME Inv, Next, Live, view = "expired", page' = "live"
               PROVE  view' = "expired"
    OBVIOUS
  <2>1. TypeOK /\ TypeOK' /\ Rest
    BY TypeKept DEF Inv
  <2>2. status = "401" /\ hasLoaded /\ page = "live"
    BY <2>1, ViewFacts DEF Live
  <2>3. Shown # "errorcard" /\ \A l \in Loads : ~Active(l)
    BY <2>1, <2>2, ViewFacts DEF Rest, LoadsAlone
  <2>4. status' = "401" /\ hasLoaded'
    <3> USE DEF storeVars
    <3>1. \A l \in Loads : ~Mount(l) /\ ~Retry(l) /\ ~DeliverLoad(l)
      BY <2>2, <2>3 DEF Mount, Retry, DeliverLoad, Active
    <3>2. ~FreshDocument
      BY DEF FreshDocument
    <3>3. ASSUME NEW r \in PageReqs, DeliverPage(r) PROVE status' = "401" /\ hasLoaded'
      BY <2>2, <3>3 DEF DeliverPage, markExpiredStatus
    <3>4. ~Reload /\ \A c \in Users \cup {None} : ~ReturnFromLogin(c)
      BY <3>2 DEF Reload, ReturnFromLogin
    <3>5. UNCHANGED storeVars \/ \E r \in PageReqs : DeliverPage(r)
      BY <3>1, <3>4 DEF Next, DeliverConfig, PageRequests, NavigateTo, RedirectToLogin, ClickSso,
         ClickLogout, ServerAnswers, SessionEnds, OtherTabSignsIn, Unload,
         RestoreFromCache
    <3> QED BY <2>2, <3>3, <3>5
  <2> QED BY <2>1, <2>4, ViewFacts DEF view, resolveState
<1> QED BY <1>1, InvHolds, PTL DEF Spec, ExpiredIsFinal
----------------------------------------------------------------------------
(* A document whose reads still stand: the script painted what the store   *)
(* is about to read, and what the store read is what it painted.           *)
ReadsStand(t) ==
    /\ tab[t].st = "painted" => ~denied /\ tab[t].htmlClass = resolveInitialTheme
    /\ tab[t].st = "live" => /\ tab[t].htmlClass = tab[t].theme
                             /\ denied \/ tab[t].theme = resolveInitialTheme

ThemeInv == ThemeTypeOK /\ \A t \in Tabs \ outdated : ReadsStand(t)

(* The cycle of the toggle stays among the themes. *)
LEMMA NextThemeIsTheme == ASSUME NEW th \in Themes PROVE nextTheme(th) \in Themes
<1> DEFINE i == CHOOSE j \in 1..4 : ThemeOrder[j] = th
<1>1. ThemeOrder[1] = "dark" /\ ThemeOrder[2] = "light" /\ ThemeOrder[3] = "pastel"
      /\ ThemeOrder[4] = "red"
  BY DEF ThemeOrder
<1>2. \E j \in 1..4 : ThemeOrder[j] = th
  BY <1>1 DEF Themes
<1>3. i \in 1..4
  BY <1>2
<1>4. nextTheme(th) = ThemeOrder[(i % 4) + 1]
  BY DEF nextTheme
<1> HIDE DEF i
<1>5. i = 1 \/ i = 2 \/ i = 3 \/ i = 4
  BY <1>3
<1>6. (i % 4) + 1 \in {1, 2, 3, 4}
  BY <1>5
<1> QED
  BY <1>1, <1>4, <1>6 DEF Themes

LEMMA ResolvedTheme ==
    ASSUME ThemeTypeOK
    PROVE  resolveInitialTheme \in Themes /\ prePaintClass \in Themes
BY DEF ThemeTypeOK, resolveInitialTheme, readStoredTheme, prePaintClass, Themes

(* The theme agrees, in every tab whose reads nobody has outdated: what    *)
(* <html> shows (applyThemeClass and the script of index.html), what the   *)
(* store holds (stores/theme.ts) and what resolveInitialTheme will restore. *)
THEOREM ThemeAgreesCorrect == ThemeSpec => []ThemeAgrees
<1>1. ThemeInit => ThemeInv
  BY DEF ThemeInit, ThemeInv, ThemeTypeOK, ReadsStand, Themes
<1>2. ThemeInv /\ [ThemeNext]_themeVars => ThemeInv'
  <2> SUFFICES ASSUME ThemeInv, [ThemeNext]_themeVars
               PROVE  ThemeInv'
    OBVIOUS
  <2>0. ThemeTypeOK /\ resolveInitialTheme \in Themes /\ prePaintClass \in Themes
    BY ResolvedTheme DEF ThemeInv
  <2>1. ASSUME NEW t \in Tabs, PrePaint(t) PROVE ThemeInv'
    <3>1. ThemeTypeOK'
      BY <2>0, <2>1 DEF ThemeTypeOK, PrePaint, Themes
    <3>2. resolveInitialTheme' = resolveInitialTheme
      BY <2>1 DEF PrePaint, resolveInitialTheme, readStoredTheme
    <3>3. ASSUME NEW u \in Tabs, u \notin outdated' PROVE ReadsStand(u)'
      BY <2>0, <2>1, <3>2, <3>3
      DEF ThemeInv, ThemeTypeOK, PrePaint, ReadsStand, prePaintClass
    <3> QED BY <3>1, <3>3 DEF ThemeInv
  <2>2. ASSUME NEW t \in Tabs, CreateStore(t) PROVE ThemeInv'
    <3>1. ThemeTypeOK'
      BY <2>0, <2>2 DEF ThemeTypeOK, CreateStore
    <3>2. resolveInitialTheme' = resolveInitialTheme
      BY <2>2 DEF CreateStore, resolveInitialTheme, readStoredTheme
    <3>3. ASSUME NEW u \in Tabs, u \notin outdated' PROVE ReadsStand(u)'
      BY <2>0, <2>2, <3>2, <3>3 DEF ThemeInv, ThemeTypeOK, CreateStore, ReadsStand
    <3> QED BY <3>1, <3>3 DEF ThemeInv
  <2>3. ASSUME NEW t \in Tabs, Toggle(t) PROVE ThemeInv'
    <3> DEFINE th == nextTheme(tab[t].theme)
    <3>1. th \in Themes
      BY <2>0, NextThemeIsTheme DEF ThemeTypeOK
    <3> HIDE DEF th
    <3>2. /\ tab[t].st = "live" /\ denied' = denied /\ system' = system
          /\ tab' = [tab EXCEPT ![t].htmlClass = th, ![t].theme = th]
          /\ stored' = IF denied THEN stored ELSE th
          /\ outdated' = (IF denied THEN outdated ELSE outdated \cup Others(t)) \ {t}
      BY <2>3 DEF Toggle, setTheme, th
    <3>3. ThemeTypeOK'
      BY <2>0, <3>1, <3>2 DEF ThemeTypeOK, Others
    <3>4. ~denied => resolveInitialTheme' = th
      BY <3>1, <3>2 DEF resolveInitialTheme, readStoredTheme, Themes
    <3>5. denied => resolveInitialTheme' = resolveInitialTheme
      BY <3>2 DEF resolveInitialTheme, readStoredTheme
    <3>6. ASSUME NEW u \in Tabs, u \notin outdated' PROVE ReadsStand(u)'
      <4>1. CASE u = t
        BY <2>0, <3>2, <3>4, <4>1 DEF ThemeTypeOK, ReadsStand
      <4>2. CASE u # t /\ denied
        BY <2>0, <3>2, <3>5, <3>6, <4>2 DEF ThemeInv, ThemeTypeOK, ReadsStand
      <4>3. CASE u # t /\ ~denied
        BY <2>0, <3>2, <3>6, <4>3 DEF ThemeTypeOK, ReadsStand, Others
      <4> QED BY <4>1, <4>2, <4>3
    <3> QED BY <3>3, <3>6 DEF ThemeInv
  <2>4. ASSUME SystemFlips PROVE ThemeInv'
    <3>1. ThemeTypeOK'
      BY <2>0, <2>4 DEF ThemeTypeOK, SystemFlips
    <3>2. readStoredTheme' = readStoredTheme
      BY <2>4 DEF SystemFlips, readStoredTheme
    <3>3. ASSUME NEW u \in Tabs, u \notin outdated' PROVE ReadsStand(u)'
      BY <2>0, <2>4, <3>2, <3>3
      DEF ThemeInv, ThemeTypeOK, SystemFlips, ReadsStand, resolveInitialTheme
    <3> QED BY <3>1, <3>3 DEF ThemeInv
  <2>5. CASE UNCHANGED themeVars
    BY <2>5 DEF themeVars, ThemeInv, ThemeTypeOK, ReadsStand, resolveInitialTheme,
                readStoredTheme
  <2> QED
    BY <2>1, <2>2, <2>3, <2>4, <2>5 DEF ThemeNext
<1>3. ThemeInv => ThemeAgrees
  BY DEF ThemeInv, ReadsStand, ThemeAgrees
<1> QED
  BY <1>1, <1>2, <1>3, PTL DEF ThemeSpec
=============================================================================
