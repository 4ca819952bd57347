----------------------------- MODULE ConsoleKeys -----------------------------
(***************************************************************************)
(* The keys dashboard of the browser console over the session key API: the *)
(* cached list behind useKeys, the create, delete and block mutations of   *)
(* use-keys.ts, the create and delete dialogs, the rows of KeysTable, and  *)
(* the toast queue.  The server relists the keys of the user, checks and   *)
(* only then acts; answers are delayed or lost; other tabs, administrators *)
(* and ach mint, delete, disable and enable keys meanwhile.  An event      *)
(* handler and the render it causes are one step.                          *)
(***************************************************************************)
EXTENDS Naturals, FiniteSets

CONSTANTS Ids,        \* ids of keys, minted or not
          Foreign,    \* keys minted by another service (managed = false)
          Initial,    \* keys that exist when the dashboard is opened
          NoKey,
          Toggles,    \* block mutations in flight at the same time
          ToastIds,   \* toasts on screen at the same time
          PageSize,   \* keys in the one page /key/list returns
          MaxOps      \* bound on the mutations, of the document and of others

ASSUME KeysAssumption ==
    /\ IsFiniteSet(Ids) /\ Foreign \subseteq Ids /\ Initial \subseteq Ids
    /\ NoKey \notin Ids
    /\ PageSize \in Nat \ {0} /\ MaxOps \in Nat
    /\ "create" \notin Toggles /\ "delete" \notin Toggles

VARIABLES keys, blocked, used,     \* LiteLLM: keys, disabled ones, ids ever minted
          list, hasData, inv, isError, fetch,   \* the query ['session','keys']
          mounted,                 \* the dashboard is the current route
          ops,                     \* mutations so far
          mut,                     \* mut[m]: a mutation and how far it got
          open, result, formError, fresh, seen,  \* create dialog, fresh-keys store
          target, dOwn,            \* delete dialog, and whether its delete runs
          showExternal,            \* KeysTable
          late,                    \* history: keys changed behind the console's back
                                   \* since the list, and since the answer on its
                                   \* way, were read
          revoked,                 \* keys whose deletion the server confirmed
          toasts, timers           \* toast queue and its expiry timers

serverVars == <<keys, blocked, used>>
queryVars == <<list, hasData, inv, isError, fetch, mounted>>
createVars == <<open, result, formError, fresh, seen>>
deleteVars == <<target, dOwn, revoked>>
toastVars == <<toasts, timers>>
mutVars == <<mut, ops>>
vars == <<serverVars, queryVars, mutVars, createVars, deleteVars, showExternal,
          late, toastVars>>

Muts == {"create", "delete"} \cup Toggles
Rows == [id : Ids, blocked : BOOLEAN]
Phases == {"idle", "sent", "checked", "ok", "failed"}
IdleMut == [ph |-> "idle", id |-> NoKey, val |-> FALSE]
NoFetch == [st |-> "none", rows |-> {}]
SentFetch == [st |-> "sent", rows |-> {}]

TypeOK ==
    /\ keys \subseteq used /\ used \subseteq Ids /\ blocked \subseteq Ids
    /\ list \subseteq Rows
    /\ hasData \in BOOLEAN /\ inv \in BOOLEAN /\ isError \in BOOLEAN
    /\ fetch \in [st : {"none", "sent", "ok"}, rows : SUBSET Rows]
    /\ mounted \in BOOLEAN /\ ops \in 0..MaxOps
    /\ mut \in [Muts -> [ph : Phases, id : Ids \cup {NoKey}, val : BOOLEAN]]
    /\ open \in BOOLEAN /\ result \in Ids \cup {NoKey}
    /\ formError \in BOOLEAN
    /\ fresh \subseteq Ids /\ seen \subseteq Ids
    /\ target \in Ids \cup {NoKey} /\ dOwn \in BOOLEAN
    /\ showExternal \in BOOLEAN
    /\ late \in [list : SUBSET Ids, read : SUBSET Ids]
    /\ revoked \subseteq Ids
    /\ toasts \subseteq ToastIds /\ timers \subseteq ToastIds

Init ==
    /\ keys = Initial /\ blocked = {} /\ used = Initial
    /\ list = {} /\ hasData = FALSE /\ inv = FALSE /\ isError = FALSE
    /\ fetch = SentFetch /\ mounted = TRUE
    /\ mut = [m \in Muts |-> IdleMut] /\ ops = 0
    /\ open = FALSE /\ result = NoKey /\ formError = FALSE
    /\ fresh = {} /\ seen = {}
    /\ target = NoKey /\ dOwn = FALSE
    /\ showExternal = FALSE
    /\ late = [list |-> {}, read |-> {}]
    /\ revoked = {}
    /\ toasts = {} /\ timers = {}

isExternal(k) == k \in Foreign
(* The rows KeysTable renders: none while the first read is under way or   *)
(* after a failed one, external ones only on demand.                       *)
VisibleRows == IF ~mounted \/ ~hasData \/ isError THEN {}
               ELSE {r \in list : showExternal \/ ~isExternal(r.id)}
Pending(m) == mut[m].ph # "idle"
Settled(m) == mut[m].ph \in {"ok", "failed"}
Count == ops < MaxOps /\ ops' = ops + 1
Begin(m, k, v) == /\ Count
                  /\ mut' = [mut EXCEPT ![m] = [ph |-> "sent", id |-> k, val |-> v]]
(* A dialog is modal: nothing behind it can be clicked. *)
NoDialog == ~open /\ target = NoKey
----------------------------------------------------------------------------
(* toast(): a new toast with its own timer. *)
toast(t) == /\ t \in ToastIds \ (toasts \cup timers)
            /\ toasts' = toasts \cup {t}
            /\ timers' = timers \cup {t}

dismiss(t) == /\ timers' = timers \ {t}
              /\ toasts' = toasts \ {t}

(* The x of a toast, or its timer. *)
ToastGoes(t) ==
    /\ t \in toasts
    /\ dismiss(t)
    /\ UNCHANGED <<serverVars, queryVars, mutVars, createVars, deleteVars, showExternal, late>>
----------------------------------------------------------------------------
(* invalidateQueries(KEYS_QUERY_KEY): a mounted query is read again, and a *)
(* read under way is dropped, but only when there already is data.         *)
invalidateQueries ==
    /\ inv' = TRUE
    /\ fetch' = IF ~mounted THEN NoFetch
                ELSE IF fetch.st # "none" /\ ~hasData THEN fetch ELSE SentFetch
    /\ UNCHANGED <<list, hasData, isError, mounted>>

(* useKeys resolves: the rows replace the cached ones. *)
DeliverList ==
    /\ fetch.st = "ok"
    /\ list' = fetch.rows /\ hasData' = TRUE /\ inv' = FALSE /\ isError' = FALSE
    /\ fetch' = NoFetch
    /\ late' = [list |-> late.read, read |-> {}]
    /\ UNCHANGED <<mounted, serverVars, mutVars, createVars, deleteVars, showExternal, toastVars>>

(* The read and the one retry of the query client fail: the table gives    *)
(* way to an error, the cached rows stay.                                  *)
ListFails ==
    /\ fetch.st = "sent"
    /\ isError' = TRUE
    /\ fetch' = NoFetch
    /\ UNCHANGED <<list, hasData, inv, mounted, serverVars, mutVars, createVars, deleteVars,
                   showExternal, late, toastVars>>

(* The network comes back: the query client reads again. *)
Reconnect ==
    /\ mounted /\ fetch.st = "none"
    /\ fetch' = SentFetch
    /\ UNCHANGED <<list, hasData, inv, isError, mounted, serverVars, mutVars, createVars,
                   deleteVars, showExternal, late, toastVars>>

(* Another route, also with the Back button over an open dialog: the query *)
(* is aborted and the state of the page is gone; a delete under way goes   *)
(* on without its dialog, and the create dialog, which the shell holds,    *)
(* stays.                                                                  *)
LeaveDashboard ==
    /\ mounted
    /\ mounted' = FALSE /\ fetch' = NoFetch
    /\ target' = NoKey /\ dOwn' = FALSE /\ showExternal' = FALSE
    /\ UNCHANGED <<list, hasData, inv, isError, serverVars, mutVars, createVars, revoked,
                   late, toastVars>>

(* Back on the dashboard: a stale, failed or missing list is read again;   *)
(* a list younger than staleTime is not.                                   *)
EnterDashboard ==
    /\ ~mounted
    /\ mounted' = TRUE
    /\ \/ fetch' = SentFetch
       \/ fetch' = NoFetch /\ hasData /\ ~inv /\ ~isError
    /\ UNCHANGED <<list, hasData, inv, isError, serverVars, mutVars, createVars, deleteVars,
                   showExternal, late, toastVars>>

ToggleExternal ==
    /\ mounted /\ hasData /\ ~isError /\ NoDialog
    /\ \E r \in list : isExternal(r.id)
    /\ showExternal' = ~showExternal
    /\ UNCHANGED <<serverVars, queryVars, mutVars, createVars, deleteVars, late, toastVars>>
----------------------------------------------------------------------------
(* What the result view of the create dialog o shows, and the form view.   *)
shows(r, o) == IF o THEN {r} \ {NoKey} ELSE {}
FormShown == open /\ result = NoKey

(* The fresh-keys store. *)
setFresh(k) == fresh' = fresh \cup {k}
dropFresh(k) == fresh' = fresh \ {k}

(* Mutant: opening the dialog starts from a blank form. *)
OpenCreateBlank ==
    /\ mounted /\ NoDialog
    /\ open' = TRUE
    /\ result' = NoKey
    /\ UNCHANGED <<formError, fresh, seen, serverVars, queryVars, mutVars, deleteVars,
                   showExternal, late, toastVars>>

(* "+ New Key": whatever the dialog holds comes up, the key of a create    *)
(* that ended after the dialog was closed included.                        *)
OpenCreate ==
    /\ mounted /\ NoDialog
    /\ open' = TRUE
    /\ seen' = seen \cup shows(result, TRUE)
    /\ UNCHANGED <<result, formError, fresh, serverVars, queryVars, mutVars, deleteVars,
                   showExternal, late, toastVars>>

(* handleClose: Cancel, done, Escape or a click outside, the last two also *)
(* while the create is in flight.                                          *)
CloseCreate ==
    /\ open
    /\ open' = FALSE /\ result' = NoKey /\ formError' = FALSE
    /\ UNCHANGED <<fresh, seen, serverVars, queryVars, mutVars, deleteVars, showExternal,
                   late, toastVars>>

(* onSubmit with a name or an expiry the validators refuse. *)
SubmitInvalid ==
    /\ FormShown /\ ~Pending("create")
    /\ formError' = TRUE
    /\ UNCHANGED <<open, result, fresh, seen, serverVars, queryVars, mutVars, deleteVars,
                   showExternal, late, toastVars>>

(* onSubmit: POST /api/session/keys. *)
Submit ==
    /\ FormShown /\ ~Pending("create")
    /\ formError' = FALSE
    /\ Begin("create", NoKey, FALSE)
    /\ UNCHANGED <<open, result, fresh, seen, serverVars, queryVars, deleteVars,
                   showExternal, late, toastVars>>

(* The create settles, the dialog open or not: the key is stashed, shown   *)
(* and the list read again; or an error toast and the error in the form.   *)
DeliverCreate ==
    /\ Settled("create")
    /\ mut' = [mut EXCEPT !["create"] = IdleMut]
    /\ IF mut["create"].ph = "ok"
       THEN /\ result' = mut["create"].id
            /\ setFresh(mut["create"].id)
            /\ seen' = seen \cup shows(mut["create"].id, open)
            /\ invalidateQueries
            /\ UNCHANGED <<formError, toastVars>>
       ELSE /\ formError' = TRUE
            /\ \E t \in ToastIds : toast(t)
            /\ UNCHANGED <<result, fresh, seen, queryVars>>
    /\ UNCHANGED <<ops, open, serverVars, deleteVars, showExternal, late>>
----------------------------------------------------------------------------
(* "Revoke key" in the menu of a row; not offered on external keys. *)
ClickRevoke(r) ==
    /\ r \in VisibleRows /\ NoDialog
    /\ ~isExternal(r.id)
    /\ target' = r.id
    /\ UNCHANGED <<dOwn, revoked, serverVars, queryVars, mutVars, createVars, showExternal,
                   late, toastVars>>

(* "Keep Key", Escape or a click outside: refused while the delete runs. *)
CloseDelete ==
    /\ target # NoKey /\ ~dOwn
    /\ target' = NoKey
    /\ UNCHANGED <<dOwn, revoked, serverVars, queryVars, mutVars, createVars, showExternal,
                   late, toastVars>>

(* onConfirm.  (One delete at a time: a bound for a dialog opened again    *)
(* after leaving the page with a delete in flight.)                        *)
ConfirmDelete ==
    /\ target # NoKey /\ ~dOwn /\ ~Pending("delete")
    /\ Begin("delete", target, FALSE)
    /\ dOwn' = TRUE
    /\ UNCHANGED <<target, revoked, serverVars, queryVars, createVars, showExternal,
                   late, toastVars>>

(* Mutant: the success of a delete does not read the list again. *)
DeliverDeleteQuiet ==
    /\ Settled("delete")
    /\ mut' = [mut EXCEPT !["delete"] = IdleMut]
    /\ \E t \in ToastIds : toast(t)
    /\ dOwn' = FALSE
    /\ IF mut["delete"].ph = "ok"
       THEN /\ dropFresh(mut["delete"].id)
            /\ revoked' = revoked \cup {mut["delete"].id}
            /\ target' = IF dOwn THEN NoKey ELSE target
       ELSE /\ UNCHANGED <<fresh, revoked, target>>
    /\ UNCHANGED <<queryVars, ops, open, result, formError, seen, serverVars, showExternal, late>>

(* The delete settles: a toast either way; on success the fresh key is     *)
(* dropped, the list read again and the dialog closed, else it stays open  *)
(* with the error.                                                         *)
DeliverDelete ==
    /\ Settled("delete")
    /\ mut' = [mut EXCEPT !["delete"] = IdleMut]
    /\ \E t \in ToastIds : toast(t)
    /\ dOwn' = FALSE
    /\ IF mut["delete"].ph = "ok"
       THEN /\ dropFresh(mut["delete"].id)
            /\ revoked' = revoked \cup {mut["delete"].id}
            /\ target' = IF dOwn THEN NoKey ELSE target
            /\ invalidateQueries
       ELSE /\ UNCHANGED <<fresh, revoked, target, queryVars>>
    /\ UNCHANGED <<ops, open, result, formError, seen, serverVars, showExternal, late>>

(* "Disable key" or "Enable key", as the row shown says. *)
ClickToggle(t, r) ==
    /\ r \in VisibleRows /\ NoDialog /\ ~Pending(t)
    /\ Begin(t, r.id, ~r.blocked)
    /\ UNCHANGED <<serverVars, queryVars, createVars, deleteVars, showExternal, late, toastVars>>

(* Mutant: the success of a toggle does not read the list again. *)
DeliverToggleQuiet(t) ==
    /\ Settled(t)
    /\ mut' = [mut EXCEPT ![t] = IdleMut]
    /\ IF mut[t].ph = "ok"
       THEN UNCHANGED <<queryVars, toastVars>>
       ELSE /\ \E i \in ToastIds : toast(i)
            /\ UNCHANGED queryVars
    /\ UNCHANGED <<ops, serverVars, createVars, deleteVars, showExternal, late>>

(* The toggle settles: the list is read again, or an error toast. *)
DeliverToggle(t) ==
    /\ Settled(t)
    /\ mut' = [mut EXCEPT ![t] = IdleMut]
    /\ IF mut[t].ph = "ok"
       THEN invalidateQueries /\ UNCHANGED toastVars
       ELSE /\ \E i \in ToastIds : toast(i)
            /\ UNCHANGED queryVars
    /\ UNCHANGED <<ops, serverVars, createVars, deleteVars, showExternal, late>>
----------------------------------------------------------------------------
(* What one /key/list call returns: one page, in LiteLLM's order. *)
Pages == {p \in SUBSET keys : Cardinality(p) = IF Cardinality(keys) < PageSize
                                               THEN Cardinality(keys) ELSE PageSize}
clientOnly == <<queryVars, createVars, deleteVars, showExternal, toastVars>>

(* The key has changed, and nothing tells the console. *)
Unannounced(k) == late' = [list |-> late.list \cup {k}, read |-> late.read \cup {k}]

(* session_list_keys. *)
ServerLists ==
    /\ fetch.st = "sent"
    /\ \E p \in Pages :
         fetch' = [st |-> "ok", rows |-> {[id |-> k, blocked |-> k \in blocked] : k \in p}]
    /\ late' = [late EXCEPT !.read = {}]
    /\ UNCHANGED <<list, hasData, inv, isError, mounted, serverVars, mutVars, createVars,
                   deleteVars, showExternal, toastVars>>

(* session_create_key: refused by a check or by LiteLLM, or minted, and    *)
(* then the one answer that carries the secret arrives or is lost.         *)
ServerMints ==
    /\ mut["create"].ph = "sent"
    /\ \/ /\ mut' = [mut EXCEPT !["create"].ph = "failed"]
          /\ UNCHANGED serverVars
       \/ \E k \in Ids \ (used \cup Foreign), ph \in {"ok", "failed"} :
            /\ keys' = keys \cup {k} /\ used' = used \cup {k}
            /\ mut' = [mut EXCEPT !["create"] = [ph |-> ph, id |-> k, val |-> FALSE]]
            /\ UNCHANGED blocked
    /\ UNCHANGED <<ops, late, clientOnly>>

(* session_delete_key and session_block_key up to the call that acts: the  *)
(* relist, the ownership check and, for a delete, _require_managed.        *)
ServerChecks(m) ==
    /\ mut[m].ph = "sent"
    /\ \/ \E p \in Pages :
            LET allowed == mut[m].id \in p /\ (m = "delete" => ~isExternal(mut[m].id))
            IN mut' = [mut EXCEPT ![m].ph = IF allowed THEN "checked" ELSE "failed"]
       \/ mut' = [mut EXCEPT ![m].ph = "failed"]
    /\ UNCHANGED <<ops, serverVars, late, clientOnly>>

(* delete_litellm_key or block_litellm_key: fails, or acts and the answer  *)
(* then arrives or is lost.                                                *)
ServerActs(m) ==
    /\ mut[m].ph = "checked"
    /\ \/ /\ mut' = [mut EXCEPT ![m].ph = "failed"]
          /\ UNCHANGED <<serverVars, late>>
       \/ /\ mut[m].id \in keys
          /\ \/ mut' = [mut EXCEPT ![m].ph = "ok"] /\ UNCHANGED late
             \/ mut' = [mut EXCEPT ![m].ph = "failed"] /\ Unannounced(mut[m].id)
          /\ IF m = "delete"
             THEN keys' = keys \ {mut[m].id} /\ blocked' = blocked \ {mut[m].id}
             ELSE /\ blocked' = IF mut[m].val THEN blocked \cup {mut[m].id}
                                              ELSE blocked \ {mut[m].id}
                  /\ UNCHANGED keys
          /\ UNCHANGED used
    /\ UNCHANGED <<ops, clientOnly>>

(* Another tab, an administrator in LiteLLM's UI, or the service that owns *)
(* a foreign key, deletes, disables, enables or mints one.                 *)
OtherDeletes(k) ==
    /\ k \in keys /\ Count
    /\ keys' = keys \ {k} /\ blocked' = blocked \ {k}
    /\ Unannounced(k)
    /\ UNCHANGED <<used, mut, clientOnly>>

OtherToggles(k) ==
    /\ k \in keys /\ Count
    /\ blocked' = IF k \in blocked THEN blocked \ {k} ELSE blocked \cup {k}
    /\ Unannounced(k)
    /\ UNCHANGED <<keys, used, mut, clientOnly>>

OtherMints(k) ==
    /\ k \notin used /\ Count
    /\ keys' = keys \cup {k} /\ used' = used \cup {k}
    /\ UNCHANGED <<blocked, mut, late, clientOnly>>

Next ==
    \/ DeliverList \/ ListFails \/ Reconnect \/ LeaveDashboard \/ EnterDashboard \/ ToggleExternal
    \/ OpenCreate \/ CloseCreate \/ SubmitInvalid \/ Submit \/ DeliverCreate
    \/ \E r \in Rows : ClickRevoke(r) \/ \E t \in Toggles : ClickToggle(t, r)
    \/ CloseDelete \/ ConfirmDelete \/ DeliverDelete
    \/ \E t \in Toggles : DeliverToggle(t)
    \/ \E t \in ToastIds : ToastGoes(t)
    \/ ServerLists \/ ServerMints
    \/ \E m \in Muts \ {"create"} : ServerChecks(m) \/ ServerActs(m)
    \/ \E k \in Ids : OtherDeletes(k) \/ OtherToggles(k) \/ OtherMints(k)

Spec == Init /\ [][Next]_vars

----------------------------------------------------------------------------
(* The secret of a key is sent once.  When the answer arrives it is kept   *)
(* until the dialog has shown it, even if the dialog was closed while the  *)
(* create was in flight and whatever else is done meanwhile.               *)
SecretNeverDropped == \A k \in fresh : k \in seen \/ result = k

(* After the server confirmed a deletion, a list not marked for another    *)
(* read does not show the key: no read that began before the deletion      *)
(* overwrites the list.                                                    *)
RevokedStaysGone ==
    /\ revoked \cap keys = {}
    /\ hasData /\ ~inv => \A r \in list : r.id \notin revoked

(* When every mutation has settled, every row of a list not marked for     *)
(* another read is a key that exists, enabled or disabled as the row says, *)
(* although deletes and toggles started from stale rows and overlapped     *)
(* with reads; but for the keys that changed behind the console's back     *)
(* after that read: by others, or by a call whose answer was lost (its     *)
(* failure reads nothing again).                                           *)
SettledRowsAreTrue ==
    hasData /\ ~inv /\ (\A m \in Muts : ~Pending(m))
        => \A r \in list : r.id \in late.list \/ (r.id \in keys /\ (r.blocked <=> r.id \in blocked))
==============================================================================
