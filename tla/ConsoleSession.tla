--------------------------- MODULE ConsoleSession ---------------------------
(***************************************************************************)
(* The shell of the browser console: App.tsx over the session and config   *)
(* stores, the fetch wrapper with its 401 hook, the sign-in landing and    *)
(* the authenticated frame.  One tab, its document replaced by full page   *)
(* navigations and reloads; the server session behind the cookie, which    *)
(* other tabs and its lifetime change at any moment.  (The theme:          *)
(* ConsoleTheme.)                                                          *)
(***************************************************************************)
EXTENDS Naturals, FiniteSets

CONSTANTS Users,
          None,          \* no user, no session
          Loads,         \* GET /api/session/me calls the tab can have in flight
          Queries,       \* reads of the mounted page, aborted when it unmounts
          Mutations,     \* writes of the mounted page, never aborted
          Routes,        \* the routes of the hash router
          Unknown        \* any other hash

ASSUME ConsoleAssumption ==
    /\ None \notin Users
    /\ Unknown \notin Routes
    /\ "/" \in Routes
    /\ Loads \cap (Queries \cup Mutations) = {}
    /\ Queries \cap Mutations = {}
    /\ "config" \notin Loads \cup Queries \cup Mutations

VARIABLES page,       \* "away": another document; "boot": scripts not run; "live"
          nav,        \* the full page navigation under way, "none" if none
          restored,   \* came back from the back/forward cache already expired
          status, me, hasLoaded,   \* session store
          config,     \* config store: "default" or the server's overlay
          route,      \* the hash
          pending,    \* Login: the CTA was clicked
          req,        \* req[r]: a fetch, its answer once the server gave it
          cookie,     \* server: whose session the cookie names
          lapsed      \* the session ended since /me last answered 200

storeVars == <<status, me, hasLoaded>>
docVars == <<page, nav, restored>>
viewVars == <<config, route, pending>>
serverVars == <<cookie, lapsed>>
vars == <<docVars, storeVars, viewVars, req, serverVars>>

PageReqs == Queries \cup Mutations
SessionReqs == Loads \cup PageReqs     \* the URLs under /api/session/
Requests == SessionReqs \cup {"config"}
Statuses == {"null", "200", "401", "bad"}    \* "bad": 0, other 4xx, 5xx
Idle == [st |-> "idle", status |-> "null", data |-> None]
Sent == [st |-> "sent", status |-> "null", data |-> None]

TypeOK ==
    /\ page \in {"away", "boot", "live"}
    /\ nav \in {"none", "login", "sso", "logout"}
    /\ restored \in BOOLEAN
    /\ status \in Statuses /\ me \in Users \cup {None} /\ hasLoaded \in BOOLEAN
    /\ config \in {"default", "server"}
    /\ route \in Routes \cup {Unknown}
    /\ pending \in BOOLEAN
    /\ req \in [Requests -> [st : {"idle", "sent", "answered"}, status : Statuses,
                             data : Users \cup {None}]]
    /\ cookie \in Users \cup {None} /\ lapsed \in BOOLEAN

(* resolveState: the five shell states. *)
resolveState(s, loaded) ==
    CASE s = "null" -> "loading"
      [] s = "200" -> "authed"
      [] s = "401" -> IF loaded THEN "expired" ELSE "signin"
      [] s = "bad" -> "error"
view == resolveState(status, hasLoaded)
(* What App renders; "expired" is the loading card until the redirect. *)
Shown == CASE view = "authed" -> IF me = None THEN "errorcard" ELSE "shell"
           [] view = "signin" -> "login"
           [] view = "error" -> "errorcard"
           [] view \in {"loading", "expired"} -> "loadingcard"
Live == page = "live"
InShell == Live /\ Shown = "shell"
(* Queries of a page that unmounts are cancelled: apiFetch rethrows the    *)
(* AbortError and nobody sees an answer.                                   *)
Unmounted(q) == [r \in Requests |-> IF r \in Queries THEN Idle ELSE q[r]]
----------------------------------------------------------------------------
Init ==
    /\ page = "boot" /\ nav = "none" /\ restored = FALSE
    /\ status = "null" /\ me = None /\ hasLoaded = FALSE
    /\ config = "default" /\ route \in Routes \cup {Unknown} /\ pending = FALSE
    /\ req = [r \in Requests |-> Idle]
    /\ cookie \in Users \cup {None} /\ lapsed = (cookie = None)

(* A fresh document: every store at its initial state. *)
FreshDocument ==
    /\ page' = "boot" /\ nav' = "none" /\ restored' = FALSE
    /\ status' = "null" /\ me' = None /\ hasLoaded' = FALSE
    /\ config' = "default" /\ pending' = FALSE
    /\ req' = [r \in Requests |-> Idle]

(* Mutant: the store is not set to null when a load starts. *)
loadSessionQuiet(l) ==
    /\ req[l] = Idle
    /\ status' = status
    /\ UNCHANGED <<me, hasLoaded>>

(* loadSession up to its await: the loading card, and a call in flight. *)
loadSession(l) ==
    /\ req[l] = Idle
    /\ status' = "null"
    /\ UNCHANGED <<me, hasLoaded>>

(* App's mount effect: the 401 handler, one loadSession, one loadConfig.   *)
(* The catch-all route sends an unknown hash to the dashboard.             *)
Mount(l) ==
    /\ page = "boot"
    /\ loadSession(l)
    /\ page' = "live"
    /\ req' = [req EXCEPT ![l] = Sent, !["config"] = Sent]
    /\ UNCHANGED <<nav, restored, viewVars, serverVars>>

(* The error card's retry; it is disabled while status is null. *)
Retry(l) ==
    /\ Live /\ Shown = "errorcard"
    /\ status # "null"
    /\ loadSession(l)
    /\ req' = [req EXCEPT ![l] = Sent]
    /\ UNCHANGED <<docVars, viewVars, serverVars>>

markExpiredStatus == IF hasLoaded THEN "401" ELSE status

(* Mutant: a failed /me leaves the loading card up. *)
DeliverLoadOnlyOk(l) ==
    /\ Live /\ req[l].st = "answered"
    /\ req' = [req EXCEPT ![l] = Idle]
    /\ IF req[l].status = "200"
       THEN me' = req[l].data /\ hasLoaded' = TRUE /\ status' = "200"
       ELSE UNCHANGED storeVars
    /\ UNCHANGED <<docVars, viewVars, serverVars>>

(* loadSession after its await: me and hasLoaded only on a 200, status     *)
(* always.  The 401 hook ran just before; with the same status it adds     *)
(* nothing.                                                                *)
DeliverLoad(l) ==
    /\ Live /\ req[l].st = "answered"
    /\ req' = [req EXCEPT ![l] = Idle]
    /\ me' = IF req[l].status = "200" THEN req[l].data ELSE me
    /\ hasLoaded' = (hasLoaded \/ req[l].status = "200")
    /\ status' = req[l].status
    /\ UNCHANGED <<docVars, viewVars, serverVars>>

(* Mutant: the 401 hook is not restricted to /api/session/. *)
DeliverConfigHooked ==
    /\ Live /\ req["config"].st = "answered"
    /\ config' = IF req["config"].status = "200" THEN "server" ELSE config
    /\ status' = IF req["config"].status = "401" THEN markExpiredStatus ELSE status
    /\ req' = IF status' # status THEN [Unmounted(req) EXCEPT !["config"] = Idle]
                                  ELSE [req EXCEPT !["config"] = Idle]
    /\ UNCHANGED <<docVars, me, hasLoaded, route, pending, serverVars>>

(* loadConfig after its await: the overlay on a 200 with a body, else the  *)
(* defaults stay.  Not under /api/session/, so a 401 goes unnoticed.       *)
DeliverConfig ==
    /\ Live /\ req["config"].st = "answered"
    /\ req' = [req EXCEPT !["config"] = Idle]
    /\ config' = IF req["config"].status = "200" THEN "server" ELSE config
    /\ UNCHANGED <<docVars, storeVars, route, pending, serverVars>>

(* Mutant: a page's successful answer is taken as a sign of life. *)
DeliverPageRevives(r) ==
    /\ Live /\ req[r].st = "answered"
    /\ status' = IF req[r].status = "401" THEN markExpiredStatus
                 ELSE IF req[r].status = "200" THEN "200" ELSE status
    /\ req' = LET q == [req EXCEPT ![r] = Idle]
              IN IF status' = "401" THEN Unmounted(q) ELSE q
    /\ UNCHANGED <<docVars, me, hasLoaded, viewVars, serverVars>>

(* apiFetch hands an answer to a page.  A 401 runs the handler: markExpired*)
(* replaces the shell, and the queries of the page are cancelled.          *)
DeliverPage(r) ==
    /\ Live /\ req[r].st = "answered"
    /\ status' = IF req[r].status = "401" THEN markExpiredStatus ELSE status
    /\ req' = LET q == [req EXCEPT ![r] = Idle]
              IN IF status' = "401" THEN Unmounted(q) ELSE q
    /\ UNCHANGED <<docVars, me, hasLoaded, viewVars, serverVars>>

(* A mounted page reads or writes. *)
PageRequests(r) ==
    /\ InShell /\ req[r] = Idle
    /\ req' = [req EXCEPT ![r] = Sent]
    /\ UNCHANGED <<docVars, storeVars, viewVars, serverVars>>

(* A NavLink of the shell, or the '*' route: the page left behind unmounts.*)
NavigateTo(to) ==
    /\ InShell
    /\ to # route
    /\ route = Unknown => to = "/"
    /\ route' = to
    /\ req' = Unmounted(req)
    /\ UNCHANGED <<docVars, storeVars, config, pending, serverVars>>

(* The redirect effect: it runs when view becomes "expired", once, and     *)
(* replaces a navigation already under way.  A document that comes back    *)
(* from the back/forward cache in that view does not change its view, so   *)
(* the effect does not run again.                                          *)
RedirectToLogin ==
    /\ Live /\ view = "expired" /\ nav # "login" /\ ~restored
    /\ nav' = "login"
    /\ UNCHANGED <<page, restored, storeVars, viewVars, req, serverVars>>

(* "Continue with SSO": the link is dead once pending. *)
ClickSso ==
    /\ Live /\ Shown = "login" /\ ~pending
    /\ pending' = TRUE
    /\ nav' = "sso"
    /\ UNCHANGED <<page, restored, storeVars, config, route, req, serverVars>>

(* "Log out" in the user menu. *)
ClickLogout ==
    /\ InShell
    /\ nav' = "logout"
    /\ UNCHANGED <<page, restored, storeVars, viewVars, req, serverVars>>
----------------------------------------------------------------------------
(* The API answers from the cookie of the moment; a proxy or a lost        *)
(* connection answers for it, with anything but a 401 of the session.      *)
ServerAnswers(r) ==
    /\ Live /\ req[r] = Sent
    /\ \E s \in Statuses \ {"null"}, d \in Users \cup {None} :
         /\ r \in SessionReqs => /\ s = "401" => cookie = None
                                 /\ s = "200" => cookie # None
         /\ d # None => r \in Loads /\ s = "200" /\ d = cookie
         /\ req' = [req EXCEPT ![r] = [st |-> "answered", status |-> s, data |-> d]]
         /\ lapsed' = IF r \in Loads /\ s = "200" THEN FALSE ELSE lapsed
    /\ UNCHANGED <<docVars, storeVars, viewVars, cookie>>

(* The session ends: its lifetime, or a logout in another tab. *)
SessionEnds ==
    /\ cookie # None
    /\ cookie' = None /\ lapsed' = TRUE
    /\ UNCHANGED <<docVars, storeVars, viewVars, req>>

(* A login in another tab. *)
OtherTabSignsIn(u) ==
    /\ cookie = None
    /\ cookie' = u
    /\ UNCHANGED <<docVars, storeVars, viewVars, req, lapsed>>

(* The browser carries out the navigation; logout clears the cookie. *)
Unload ==
    /\ Live /\ nav # "none"
    /\ page' = "away"
    /\ cookie' = IF nav = "logout" THEN None ELSE cookie
    /\ lapsed' = (lapsed \/ nav = "logout")
    /\ UNCHANGED <<nav, restored, storeVars, viewVars, req>>

(* The login ceremony ends in a new document, with a session or without. *)
ReturnFromLogin(c) ==
    /\ page = "away"
    /\ c = cookie \/ (nav \in {"login", "sso"} /\ c \in Users)
    /\ cookie' = c /\ lapsed' = (c = None)
    /\ route' = "/"
    /\ FreshDocument

(* The Back button with the document still in the back/forward cache; one  *)
(* with fetches in flight is not kept.                                     *)
RestoreFromCache ==
    /\ page = "away"
    /\ \A r \in Requests : req[r] = Idle
    /\ page' = "live" /\ nav' = "none" /\ restored' = (view = "expired")
    /\ UNCHANGED <<storeVars, viewVars, req, serverVars>>

Reload ==
    /\ Live
    /\ FreshDocument
    /\ lapsed' = (cookie = None)
    /\ UNCHANGED <<route, cookie>>

Next == \/ \E l \in Loads : Mount(l) \/ Retry(l) \/ DeliverLoad(l)
        \/ DeliverConfig
        \/ \E r \in PageReqs : PageRequests(r) \/ DeliverPage(r)
        \/ \E to \in Routes : NavigateTo(to)
        \/ RedirectToLogin \/ ClickSso \/ ClickLogout
        \/ \E r \in Requests : ServerAnswers(r)
        \/ SessionEnds \/ \E u \in Users : OtherTabSignsIn(u)
        \/ Unload \/ RestoreFromCache \/ Reload
        \/ \E c \in Users \cup {None} : ReturnFromLogin(c)

Spec == Init /\ [][Next]_vars

(* A fetch settles (the browser gives up on a silent server), its          *)
(* continuation runs, effects run, navigations are carried out and the     *)
(* script of a loaded document runs.  Nothing is assumed of the user, of   *)
(* the session or of the login ceremony.                                   *)
Fairness == /\ WF_vars(\E l \in Loads : Mount(l))
            /\ \A r \in Requests : WF_vars(ServerAnswers(r))
            /\ \A l \in Loads : WF_vars(DeliverLoad(l))
            /\ WF_vars(DeliverConfig)
            /\ \A r \in PageReqs : WF_vars(DeliverPage(r))
            /\ WF_vars(RedirectToLogin)
            /\ WF_vars(Unload)
FairSpec == Spec /\ Fairness
----------------------------------------------------------------------------
Active(r) == req[r].st # "idle"

(* Reloads never stack (the retry button of ErrorCard, C1 of App.tsx): at  *)
(* most one GET /api/session/me is in flight, and while it is no page has  *)
(* a request under way.                                                    *)
LoadsNeverStack ==
    /\ Cardinality({l \in Loads : Active(l)}) <= 1
    /\ (\E l \in Loads : Active(l)) => \A r \in PageReqs : ~Active(r)

(* The redirect effect throws the user out only when the session really    *)
(* ended after the server last confirmed it: a cold 401, a failure or a    *)
(* 401 of another endpoint never does.                                     *)
ThrownOutOnlyIfLapsed == nav = "login" => lapsed

(* Once the session expired in a document, nothing short of a new document *)
(* brings the shell, the landing or the error card back: no late answer of *)
(* /me or of a page undoes markExpired.                                    *)
ExpiredIsFinal ==
    [][Live /\ view = "expired" /\ page' = "live" => view' = "expired"]_vars

(* The loading card always gives way: to the landing, the shell or an      *)
(* error card after /me, to the login page after the session expired (the  *)
(* "brief placeholder" of App.tsx), or to another document.  A document    *)
(* the Back button restores already expired is the exception.              *)
CardGivesWay == (Live /\ Shown = "loadingcard" /\ ~restored)
                    ~> (~Live \/ Shown # "loadingcard")
=============================================================================
