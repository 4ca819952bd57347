-------------------------- MODULE ConsoleKeysProofs --------------------------
(***************************************************************************)
(* For every set of keys, every page size and any number of overlapping    *)
(* mutations and of changes by others: the secret of a created key is      *)
(* never dropped unseen, a confirmed deletion stays out of the list, and a *)
(* settled list is wrong only where it was changed behind its back.        *)
(***************************************************************************)
EXTENDS ConsoleKeys, TLAPS

USE DEF FormShown, shows, setFresh, dropFresh

(* The answer of a create finds the dialog empty; an open dialog shows     *)
(* what it holds.                                                          *)
SecretKept ==
    /\ Pending("create") => result = NoKey
    /\ open => result \in seen \cup {NoKey}
    /\ SecretNeverDropped

(* A key whose deletion was confirmed, or is about to be, is gone and its  *)
(* id is not minted again.                                                 *)
DeleteDone ==
    /\ revoked \subseteq used \ keys
    /\ mut["delete"].ph = "ok" => mut["delete"].id \in used \ keys

(* Deleting and disabling start from a list: no first read is under way,   *)
(* so their invalidateQueries always drops the read of before.             *)
ActsOnData == target # NoKey \/ (\E m \in Muts \ {"create"} : Pending(m)) => hasData

(* A mutation that took effect, its answer on the way, will read again. *)
WillReread(k) == \E m \in Muts \ {"create"} : mut[m].ph = "ok" /\ mut[m].id = k
RowTrue(r) == (r.id \in keys /\ (r.blocked <=> r.id \in blocked)) \/ WillReread(r.id)

(* The rows on their way, and the rows that will not be read again. *)
FetchTrue == fetch.st = "ok" =>
    \A r \in fetch.rows : r.id \in used \ revoked /\ (r.id \in late.read \/ RowTrue(r))
ListTrue == hasData /\ ~inv =>
    \A r \in list : r.id \in used \ revoked /\ (r.id \in late.list \/ RowTrue(r))

Core == DeleteDone /\ ActsOnData /\ FetchTrue /\ ListTrue
----------------------------------------------------------------------------
LateType == [list : SUBSET Ids, read : SUBSET Ids]
MutType == [ph : Phases, id : Ids \cup {NoKey}, val : BOOLEAN]
FetchType == [st : {"none", "sent", "ok"}, rows : SUBSET Rows]

LEMMA Shapes ==
    /\ IdleMut \in MutType /\ IdleMut.ph = "idle"
    /\ \A k \in Ids \cup {NoKey}, v \in BOOLEAN :
         [ph |-> "sent", id |-> k, val |-> v] \in MutType
    /\ NoFetch \in FetchType /\ NoFetch.st = "none"
    /\ SentFetch \in FetchType /\ SentFetch.st = "sent"
BY DEF IdleMut, MutType, Phases, NoFetch, SentFetch, FetchType

LEMMA MutKinds ==
    /\ "create" \in Muts /\ "delete" \in Muts /\ "delete" \in Muts \ {"create"}
    /\ Toggles \subseteq Muts \ {"create", "delete"}
    /\ \A m \in Muts \ {"create"} : m = "delete" \/ m \in Toggles
BY KeysAssumption DEF Muts

LEMMA InvalidateType ==
    ASSUME TypeOK, invalidateQueries
    PROVE  /\ inv' = TRUE /\ fetch' \in FetchType
           /\ hasData => fetch' \in {NoFetch, SentFetch}
           /\ fetch' \in {fetch, NoFetch, SentFetch}
           /\ UNCHANGED <<list, hasData, isError, mounted>>
BY Shapes DEF invalidateQueries, TypeOK, FetchType

LEMMA ToastType ==
    ASSUME TypeOK, NEW t \in ToastIds, toast(t)
    PROVE  toasts' \subseteq ToastIds /\ timers' \subseteq ToastIds
BY DEF toast, TypeOK

(* An answer that confirms something names the key. *)
OkHasKey == \A m \in Muts : mut[m].ph = "ok" => mut[m].id \in Ids
Typed == TypeOK /\ OkHasKey

LEMMA TypeKept == Typed /\ [Next]_vars => Typed'
<1> SUFFICES ASSUME Typed, [Next]_vars PROVE Typed'
  OBVIOUS
<1> USE DEF serverVars, queryVars, createVars, deleteVars, toastVars, mutVars, clientOnly
<1>0. TypeOK /\ mut \in [Muts -> MutType] /\ fetch \in FetchType
  BY DEF Typed, TypeOK, MutType, FetchType
<1>a. ASSUME UNCHANGED mut PROVE OkHasKey'
  BY <1>a DEF Typed, OkHasKey
<1>b. ASSUME NEW m \in Muts, NEW c \in MutType, c.ph = "ok" => c.id \in Ids,
             mut' = [mut EXCEPT ![m] = c]
      PROVE  mut' \in [Muts -> MutType] /\ OkHasKey'
  BY <1>0, <1>b DEF Typed, OkHasKey
<1>c. ASSUME mut' \in [Muts -> MutType] /\ OkHasKey', mut' \in [Muts -> MutType] => TypeOK'
      PROVE  Typed'
  BY <1>c DEF Typed
<1>1. CASE DeliverList \/ ListFails \/ Reconnect \/ LeaveDashboard \/ EnterDashboard
  <2>1. list' \subseteq Rows /\ fetch' \in FetchType
    <3>1. CASE DeliverList
      <4>1. fetch.rows \in SUBSET Rows
        BY <1>0 DEF FetchType
      <4> QED BY <3>1, <4>1, Shapes DEF DeliverList
    <3>2. CASE ListFails \/ Reconnect \/ LeaveDashboard \/ EnterDashboard
      BY <1>0, <3>2, Shapes DEF ListFails, Reconnect, LeaveDashboard, EnterDashboard, TypeOK
    <3> QED BY <1>1, <3>1, <3>2
  <2>2. late' \in LateType
    BY <1>0, <1>1 DEF DeliverList, ListFails, Reconnect, LeaveDashboard, EnterDashboard, TypeOK,
                      LateType
  <2>3. TypeOK'
    BY <1>0, <1>1, <2>1, <2>2 DEF DeliverList, ListFails, Reconnect, LeaveDashboard,
                                  EnterDashboard, TypeOK, FetchType, LateType
  <2> QED BY <1>1, <1>a, <2>3 DEF DeliverList, ListFails, Reconnect, LeaveDashboard,
                                  EnterDashboard, Typed
<1>2. CASE ToggleExternal \/ OpenCreate \/ CloseCreate \/ SubmitInvalid \/ CloseDelete
  <2>1. TypeOK'
    BY <1>0, <1>2 DEF ToggleExternal, OpenCreate, CloseCreate, SubmitInvalid, CloseDelete, TypeOK
  <2> QED BY <1>2, <1>a, <2>1 DEF ToggleExternal, OpenCreate, CloseCreate, SubmitInvalid,
                                  CloseDelete, Typed
<1>3. ASSUME NEW m \in Muts, NEW k \in Ids \cup {NoKey}, NEW v \in BOOLEAN, Begin(m, k, v)
      PROVE  mut' \in [Muts -> MutType] /\ OkHasKey' /\ ops' \in 0..MaxOps
  <2>1. ops' \in 0..MaxOps
    BY <1>0, <1>3, KeysAssumption DEF Begin, Count, TypeOK
  <2> DEFINE c == [ph |-> "sent", id |-> k, val |-> v]
  <2>2. c \in MutType /\ c.ph # "ok"
    BY Shapes
  <2>3. mut' = [mut EXCEPT ![m] = c]
    BY <1>3 DEF Begin
  <2> HIDE DEF c
  <2> QED BY <1>b, <2>1, <2>2, <2>3
<1>4. CASE Submit
  <2>1. mut' \in [Muts -> MutType] /\ OkHasKey' /\ ops' \in 0..MaxOps
    BY <1>3, <1>4, MutKinds DEF Submit
  <2> QED BY <1>0, <1>4, <2>1 DEF Submit, TypeOK, MutType, Typed
<1>5. CASE ConfirmDelete
  <2>1. mut' \in [Muts -> MutType] /\ OkHasKey' /\ ops' \in 0..MaxOps
    BY <1>0, <1>3, <1>5, MutKinds DEF ConfirmDelete, TypeOK
  <2> QED BY <1>0, <1>5, <2>1 DEF ConfirmDelete, TypeOK, MutType, Typed
<1>6. ASSUME NEW r \in Rows, NEW t \in Toggles, ClickToggle(t, r) PROVE Typed'
  <2>1. r.id \in Ids /\ (~r.blocked) \in BOOLEAN
    BY DEF Rows
  <2>2. mut' \in [Muts -> MutType] /\ OkHasKey' /\ ops' \in 0..MaxOps
    BY <1>3, <1>6, <2>1, MutKinds DEF ClickToggle
  <2> QED BY <1>0, <1>6, <2>2 DEF ClickToggle, TypeOK, MutType, Typed
<1>7. ASSUME NEW r \in Rows, ClickRevoke(r) PROVE Typed'
  BY <1>0, <1>7, <1>a DEF ClickRevoke, TypeOK, Rows, Typed
<1>8. ASSUME NEW m \in Muts, mut' = [mut EXCEPT ![m] = IdleMut]
      PROVE  mut' \in [Muts -> MutType] /\ OkHasKey'
  BY <1>8, <1>b, Shapes
<1>9. CASE DeliverCreate
  <2>1. mut' \in [Muts -> MutType] /\ OkHasKey'
    BY <1>8, <1>9, MutKinds DEF DeliverCreate
  <2>2. CASE mut["create"].ph = "ok"
    <3>1. mut["create"].id \in Ids
      BY <2>2, MutKinds DEF Typed, OkHasKey
    <3>2. invalidateQueries
      BY <1>9, <2>2 DEF DeliverCreate
    <3>3. /\ fetch' \in FetchType /\ inv' = TRUE
          /\ UNCHANGED <<list, hasData, isError, mounted>>
      BY <1>0, <3>2, InvalidateType
    <3> QED BY <1>0, <1>9, <2>1, <2>2, <3>1, <3>3 DEF DeliverCreate, TypeOK, MutType, FetchType, Typed
  <2>3. CASE mut["create"].ph # "ok"
    BY <1>0, <1>9, <2>1, <2>3, ToastType DEF DeliverCreate, TypeOK, MutType, Typed
  <2> QED BY <2>2, <2>3
<1>10. CASE DeliverDelete
  <2>1. mut' \in [Muts -> MutType] /\ OkHasKey'
    BY <1>8, <1>10, MutKinds DEF DeliverDelete
  <2>2. toasts' \subseteq ToastIds /\ timers' \subseteq ToastIds
    BY <1>0, <1>10, ToastType DEF DeliverDelete
  <2>3. CASE mut["delete"].ph = "ok"
    <3>1. mut["delete"].id \in Ids
      BY <2>3, MutKinds DEF Typed, OkHasKey
    <3>2. invalidateQueries
      BY <1>10, <2>3 DEF DeliverDelete
    <3>3. /\ fetch' \in FetchType /\ inv' = TRUE
          /\ UNCHANGED <<list, hasData, isError, mounted>>
      BY <1>0, <3>2, InvalidateType
    <3> QED BY <1>0, <1>10, <2>1, <2>2, <2>3, <3>1, <3>3
            DEF DeliverDelete, TypeOK, MutType, FetchType, Typed
  <2>4. CASE mut["delete"].ph # "ok"
    BY <1>0, <1>10, <2>1, <2>2, <2>4 DEF DeliverDelete, TypeOK, MutType, Typed
  <2> QED BY <2>3, <2>4
<1>11. ASSUME NEW t \in Toggles, DeliverToggle(t) PROVE Typed'
  <2>1. mut' \in [Muts -> MutType] /\ OkHasKey'
    BY <1>8, <1>11, MutKinds DEF DeliverToggle
  <2>2. CASE mut[t].ph = "ok"
    <3>1. invalidateQueries
      BY <1>11, <2>2 DEF DeliverToggle
    <3>2. /\ fetch' \in FetchType /\ inv' = TRUE
          /\ UNCHANGED <<list, hasData, isError, mounted>>
      BY <1>0, <3>1, InvalidateType
    <3> QED BY <1>0, <1>11, <2>1, <2>2, <3>2 DEF DeliverToggle, TypeOK, MutType, FetchType, Typed
  <2>3. CASE mut[t].ph # "ok"
    BY <1>0, <1>11, <2>1, <2>3, ToastType DEF DeliverToggle, TypeOK, MutType, Typed
  <2> QED BY <2>2, <2>3
<1>12. ASSUME NEW t \in ToastIds, ToastGoes(t) PROVE Typed'
  BY <1>0, <1>12, <1>a DEF ToastGoes, dismiss, TypeOK, Typed
<1>13. CASE ServerLists
  <2>1. fetch' \in FetchType
    <3>1. PICK p \in Pages :
            fetch' = [st |-> "ok", rows |-> {[id |-> k, blocked |-> k \in blocked] : k \in p}]
      BY <1>13 DEF ServerLists
    <3>2. p \subseteq Ids
      BY <1>0 DEF Pages, TypeOK
    <3>3. {[id |-> k, blocked |-> k \in blocked] : k \in p} \in SUBSET Rows
      <4>1. ASSUME NEW k \in p PROVE [id |-> k, blocked |-> k \in blocked] \in Rows
        <5>1. ASSUME NEW b \in BOOLEAN PROVE [id |-> k, blocked |-> b] \in Rows
          BY <3>2 DEF Rows
        <5>2. (k \in blocked) \in BOOLEAN
          OBVIOUS
        <5> QED BY <5>1, <5>2
      <4> QED BY <4>1, Zenon
    <3> QED BY <3>1, <3>3 DEF FetchType
  <2>2. late' \in LateType
    BY <1>0, <1>13 DEF ServerLists, TypeOK, LateType
  <2> QED BY <1>0, <1>13, <1>a, <2>1, <2>2 DEF ServerLists, TypeOK, FetchType, LateType, Typed
<1>14. ASSUME NEW m \in Muts, NEW p \in Phases \ {"ok"}, mut' = [mut EXCEPT ![m].ph = p]
       PROVE  mut' \in [Muts -> MutType] /\ OkHasKey'
  <2>1. [mut[m] EXCEPT !.ph = p] \in MutType /\ [mut[m] EXCEPT !.ph = p].ph = p
    BY <1>0 DEF MutType
  <2> QED BY <1>14, <1>b, <2>1
<1>15. CASE ServerMints
  <2>1. CASE mut' = [mut EXCEPT !["create"].ph = "failed"] /\ UNCHANGED serverVars
    <3>1. mut' \in [Muts -> MutType] /\ OkHasKey'
      BY <1>14, <2>1, MutKinds DEF Phases
    <3> QED BY <1>0, <1>15, <2>1, <3>1 DEF ServerMints, TypeOK, MutType, Typed
  <2>2. ASSUME NEW k \in Ids \ (used \cup Foreign), NEW ph \in {"ok", "failed"},
               keys' = keys \cup {k}, used' = used \cup {k},
               mut' = [mut EXCEPT !["create"] = [ph |-> ph, id |-> k, val |-> FALSE]],
               UNCHANGED blocked
        PROVE  Typed'
    <3> DEFINE c == [ph |-> ph, id |-> k, val |-> FALSE]
    <3>1. c \in MutType /\ c.id \in Ids
      BY DEF MutType, Phases
    <3>2. mut' = [mut EXCEPT !["create"] = c]
      BY <2>2
    <3> HIDE DEF c
    <3>3. mut' \in [Muts -> MutType] /\ OkHasKey'
      BY <1>b, <3>1, <3>2, MutKinds
    <3> QED BY <1>0, <1>15, <2>2, <3>3 DEF ServerMints, TypeOK, MutType, Typed
  <2> QED BY <1>15, <2>1, <2>2 DEF ServerMints
<1>16. ASSUME NEW m \in Muts \ {"create"}, ServerChecks(m) PROVE Typed'
  <2>1. \E p \in Phases \ {"ok"} : mut' = [mut EXCEPT ![m].ph = p]
    BY <1>16 DEF ServerChecks, Phases
  <2>2. mut' \in [Muts -> MutType] /\ OkHasKey'
    BY <1>14, <2>1
  <2> QED BY <1>0, <1>16, <2>2 DEF ServerChecks, TypeOK, MutType, Typed
<1>d. ASSUME NEW k \in Ids, Unannounced(k) PROVE late' \in LateType
  BY <1>0, <1>d DEF Unannounced, TypeOK, LateType
<1>17. ASSUME NEW m \in Muts \ {"create"}, ServerActs(m) PROVE Typed'
  <2>1. PICK p \in {"ok", "failed"} : /\ mut' = [mut EXCEPT ![m].ph = p]
                                      /\ p = "ok" => mut[m].id \in Ids
    BY <1>0, <1>17 DEF ServerActs, TypeOK
  <2>2. [mut[m] EXCEPT !.ph = p] \in MutType
    BY <1>0 DEF MutType, Phases
  <2>3. mut' \in [Muts -> MutType] /\ OkHasKey'
    BY <1>0, <1>b, <2>1, <2>2 DEF MutType
  <2>4. keys' \subseteq keys /\ used' = used /\ blocked' \subseteq Ids
    BY <1>0, <1>17 DEF ServerActs, TypeOK
  <2>5. late' \in LateType
    <3>1. UNCHANGED late \/ (mut[m].id \in Ids /\ Unannounced(mut[m].id))
      BY <1>0, <1>17 DEF ServerActs, TypeOK
    <3> QED BY <1>0, <1>d, <3>1 DEF TypeOK, LateType
  <2> QED BY <1>0, <1>17, <2>3, <2>4, <2>5 DEF ServerActs, TypeOK, MutType, LateType, Typed
<1>18. ASSUME NEW k \in Ids, OtherDeletes(k) \/ OtherToggles(k) \/ OtherMints(k) PROVE Typed'
  <2>1. late' \in LateType
    BY <1>0, <1>d, <1>18 DEF OtherDeletes, OtherToggles, OtherMints, TypeOK, LateType
  <2>2. ops' \in 0..MaxOps
    BY <1>0, <1>18, KeysAssumption DEF OtherDeletes, OtherToggles, OtherMints, Count, TypeOK
  <2>3. keys' \subseteq used' /\ used' \subseteq Ids /\ blocked' \subseteq Ids
    BY <1>0, <1>18 DEF OtherDeletes, OtherToggles, OtherMints, TypeOK
  <2> QED BY <1>0, <1>18, <1>a, <2>1, <2>2, <2>3
          DEF OtherDeletes, OtherToggles, OtherMints, TypeOK, LateType, Typed
<1>19. CASE UNCHANGED vars
  BY <1>0, <1>19, <1>a DEF vars, TypeOK, Typed
<1> QED BY <1>1, <1>2, <1>4, <1>5, <1>6, <1>7, <1>9, <1>10, <1>11, <1>12, <1>13, <1>15, <1>16,
           <1>17, <1>18, <1>19 DEF Next
----------------------------------------------------------------------------
Inv == Typed /\ SecretKept /\ Core

LEMMA InitEstablishes == Init => Inv
<1> SUFFICES ASSUME Init PROVE Inv
  OBVIOUS
<1>1. \A m \in Muts : mut[m] = IdleMut
  BY DEF Init
<1>2. mut \in [Muts -> MutType] /\ fetch \in FetchType
  BY Shapes DEF Init
<1>3. TypeOK
  <2>1. ops \in 0..MaxOps
    BY KeysAssumption DEF Init
  <2>2. /\ keys \subseteq used /\ used \subseteq Ids /\ blocked \subseteq Ids
        /\ fresh \subseteq Ids /\ seen \subseteq Ids /\ revoked \subseteq Ids
        /\ toasts \subseteq ToastIds /\ timers \subseteq ToastIds /\ list \subseteq Rows
    BY KeysAssumption DEF Init
  <2>3. /\ result = NoKey /\ target = NoKey
        /\ mounted \in BOOLEAN /\ hasData \in BOOLEAN /\ inv \in BOOLEAN /\ isError \in BOOLEAN
        /\ open \in BOOLEAN /\ formError \in BOOLEAN /\ dOwn \in BOOLEAN
        /\ showExternal \in BOOLEAN /\ late \in LateType
    BY DEF Init, LateType
  <2> QED BY <1>2, <2>1, <2>2, <2>3 DEF TypeOK, MutType, FetchType, LateType
<1>4. \A m \in Muts : mut[m].ph = "idle"
  BY <1>1, Shapes
<1>5. SecretKept
  BY <1>4, MutKinds DEF Init, SecretKept, SecretNeverDropped, Pending
<1>6. Core
  BY <1>4, MutKinds, Shapes DEF Init, Core, DeleteDone, ActsOnData, FetchTrue, ListTrue, Pending
<1> QED BY <1>3, <1>4, <1>5, <1>6 DEF Inv, Typed, OkHasKey

LEMMA SecretStep == Inv /\ [Next]_vars => SecretKept'
<1> SUFFICES ASSUME Inv, [Next]_vars PROVE SecretKept'
  OBVIOUS
<1> USE DEF serverVars, queryVars, createVars, deleteVars, toastVars, mutVars, clientOnly
<1>0. mut \in [Muts -> MutType] /\ SecretKept
  BY DEF Inv, Typed, TypeOK, MutType
<1>h. ASSUME UNCHANGED createVars, Pending("create")' => Pending("create") PROVE SecretKept'
  BY <1>0, <1>h DEF SecretKept, SecretNeverDropped
<1>1. CASE OpenCreate \/ CloseCreate \/ SubmitInvalid
  BY <1>0, <1>1 DEF OpenCreate, CloseCreate, SubmitInvalid, SecretKept, SecretNeverDropped, Pending
<1>2. CASE Submit
  BY <1>0, <1>2 DEF Submit, SecretKept, SecretNeverDropped
<1>3. CASE DeliverCreate
  <2>1. result = NoKey /\ ~Pending("create")'
    BY <1>0, <1>3, Shapes, MutKinds DEF DeliverCreate, SecretKept, Settled, Pending
  <2>2. \A k \in fresh : k # NoKey
    BY KeysAssumption DEF Inv, Typed, TypeOK
  <2> QED BY <1>0, <1>3, <2>1, <2>2 DEF DeliverCreate, SecretKept, SecretNeverDropped
<1>4. CASE DeliverDelete
  <2>1. Pending("create")' => Pending("create")
    BY <1>0, <1>4, MutKinds DEF DeliverDelete, Pending
  <2>2. UNCHANGED <<open, result, seen>> /\ fresh' \subseteq fresh
    BY <1>4 DEF DeliverDelete
  <2> QED BY <1>0, <2>1, <2>2 DEF SecretKept, SecretNeverDropped
<1>5. CASE ServerMints
  BY <1>0, <1>5, <1>h DEF ServerMints, Pending
<1>6. ASSUME NEW m \in Muts \ {"create"}, mut'["create"] = mut["create"], UNCHANGED createVars
      PROVE  SecretKept'
  BY <1>6, <1>h DEF Pending
<1>7. CASE ConfirmDelete
  BY <1>0, <1>6, <1>7, MutKinds DEF ConfirmDelete, Begin
<1>8. ASSUME NEW r \in Rows, NEW t \in Toggles, ClickToggle(t, r) PROVE SecretKept'
  BY <1>0, <1>6, <1>8, MutKinds DEF ClickToggle, Begin
<1>9. ASSUME NEW t \in Toggles, DeliverToggle(t) PROVE SecretKept'
  BY <1>0, <1>6, <1>9, MutKinds DEF DeliverToggle
<1>10. ASSUME NEW m \in Muts \ {"create"}, ServerChecks(m) \/ ServerActs(m) PROVE SecretKept'
  BY <1>0, <1>6, <1>10, MutKinds DEF ServerChecks, ServerActs
<1>11. ASSUME UNCHANGED <<createVars, mut>> PROVE SecretKept'
  BY <1>11, <1>h DEF Pending
<1>12. CASE DeliverList \/ ListFails \/ Reconnect \/ LeaveDashboard \/ EnterDashboard
  BY <1>11, <1>12 DEF DeliverList, ListFails, Reconnect, LeaveDashboard, EnterDashboard
<1>13. CASE ToggleExternal \/ CloseDelete \/ ServerLists \/ UNCHANGED vars
  BY <1>11, <1>13 DEF ToggleExternal, CloseDelete, ServerLists, vars
<1>14. ASSUME NEW r \in Rows, ClickRevoke(r) PROVE SecretKept'
  BY <1>11, <1>14 DEF ClickRevoke
<1>15. ASSUME NEW t \in ToastIds, ToastGoes(t) PROVE SecretKept'
  BY <1>11, <1>15 DEF ToastGoes
<1>16. ASSUME NEW k \in Ids, OtherDeletes(k) \/ OtherToggles(k) \/ OtherMints(k) PROVE SecretKept'
  BY <1>11, <1>16 DEF OtherDeletes, OtherToggles, OtherMints
<1> QED BY <1>1, <1>2, <1>3, <1>4, <1>5, <1>7, <1>8, <1>9, <1>10, <1>12, <1>13, <1>14, <1>15,
           <1>16 DEF Next
----------------------------------------------------------------------------
(* Rows stay true, but for the late ones, while no confirmed mutation is   *)
(* forgotten and whatever changes under them is late or will be read       *)
(* again.                                                                  *)
Kept(k) == (k \in keys' <=> k \in keys) /\ (k \in blocked' <=> k \in blocked)

LEMMA RowsKeep ==
    ASSUME NEW S, NEW L, NEW M, L \subseteq M,
           \A r \in S : r.id \in used \ revoked /\ (r.id \in L \/ RowTrue(r)),
           UNCHANGED revoked, used \subseteq used',
           \A k \in used : k \in M \/ Kept(k) \/ WillReread(k)',
           \A k : WillReread(k) => WillReread(k)'
    PROVE  \A r \in S : r.id \in used' \ revoked' /\ (r.id \in M \/ RowTrue(r)')
<1> SUFFICES ASSUME NEW r \in S, r.id \notin M
             PROVE  r.id \in used' \ revoked' /\ RowTrue(r)'
  OBVIOUS
<1>1. r.id \in used \ revoked /\ RowTrue(r) /\ (Kept(r.id) \/ WillReread(r.id)')
  OBVIOUS
<1> QED BY <1>1 DEF RowTrue, Kept

(* What the console does on its own: it may forget a read, and it never    *)
(* forgets a confirmed toggle.                                             *)
LEMMA ClientKeeps ==
    ASSUME Core,
           \A m \in Muts \ {"create"} : mut[m].ph = "ok" => mut'[m] = mut[m],
           mut'["delete"].ph = "ok" => mut'["delete"] = mut["delete"],
           target' # NoKey \/ (\E m \in Muts \ {"create"} : Pending(m)') => hasData,
           UNCHANGED <<keys, blocked, used, list, hasData, revoked, late>>,
           fetch' \in {fetch, NoFetch, SentFetch}, inv' \in {inv, TRUE}
    PROVE  Core'
<1>1. \A k : WillReread(k) => WillReread(k)'
  BY MutKinds DEF WillReread
<1>2. \A k : Kept(k)
  BY DEF Kept
<1>3. DeleteDone'
  BY DEF Core, DeleteDone
<1>4. ActsOnData'
  BY DEF ActsOnData
<1>5. FetchTrue'
  BY <1>1, <1>2, RowsKeep, Shapes DEF Core, FetchTrue
<1>6. ListTrue'
  BY <1>1, <1>2, RowsKeep DEF Core, ListTrue
<1> QED BY <1>3, <1>4, <1>5, <1>6 DEF Core

(* A read begun before the mutation is dropped: nothing is shown as final. *)
LEMMA RereadKeeps ==
    ASSUME DeleteDone', hasData, UNCHANGED hasData, inv' = TRUE, fetch' \in {NoFetch, SentFetch}
    PROVE  Core'
BY Shapes DEF Core, ActsOnData, FetchTrue, ListTrue

LEMMA CoreStep == Inv /\ [Next]_vars => Core'
<1> SUFFICES ASSUME Inv, [Next]_vars PROVE Core'
  OBVIOUS
<1> USE DEF serverVars, queryVars, createVars, deleteVars, toastVars, mutVars, clientOnly
<1>0. /\ TypeOK /\ OkHasKey /\ Core /\ mut \in [Muts -> MutType]
      /\ target # NoKey \/ (\E m \in Muts \ {"create"} : Pending(m)) => hasData
  BY DEF Inv, Typed, TypeOK, MutType, Core, ActsOnData
<1>a. ASSUME UNCHANGED <<keys, blocked, used, list, hasData, inv, revoked, late, mut>>,
             fetch' \in {fetch, NoFetch, SentFetch}, target' # NoKey => hasData
      PROVE  Core'
  BY <1>0, <1>a, ClientKeeps DEF Pending
<1>b. ASSUME NEW m \in Muts, \A n \in Muts : n # m => mut'[n] = mut[n],
             m # "create" => mut[m].ph # "ok", m = "delete" => mut'[m].ph # "ok",
             m # "create" => hasData \/ mut'[m].ph = "idle",
             UNCHANGED <<keys, blocked, used, list, hasData, revoked, late>>,
             target' \in {target, NoKey},
             fetch' \in {fetch, NoFetch, SentFetch}, inv' \in {inv, TRUE}
      PROVE  Core'
  <2>1. \A n \in Muts \ {"create"} : mut[n].ph = "ok" => mut'[n] = mut[n]
    BY <1>b, MutKinds
  <2>2. mut'["delete"].ph = "ok" => mut'["delete"] = mut["delete"]
    BY <1>b, MutKinds
  <2>3. target' # NoKey \/ (\E n \in Muts \ {"create"} : Pending(n)') => hasData
    BY <1>0, <1>b DEF Pending
  <2> QED BY <1>0, <1>b, <2>1, <2>2, <2>3, ClientKeeps
<1>1. CASE ListFails \/ Reconnect \/ LeaveDashboard \/ EnterDashboard \/ ToggleExternal
  BY <1>0, <1>1, <1>a DEF ListFails, Reconnect, LeaveDashboard, EnterDashboard, ToggleExternal
<1>2. CASE OpenCreate \/ CloseCreate \/ SubmitInvalid \/ CloseDelete
  BY <1>0, <1>2, <1>a DEF OpenCreate, CloseCreate, SubmitInvalid, CloseDelete
<1>3. ASSUME NEW r \in Rows, ClickRevoke(r) PROVE Core'
  <2>1. hasData
    BY <1>3 DEF ClickRevoke, VisibleRows
  <2> QED BY <1>3, <1>a, <2>1 DEF ClickRevoke
<1>4. ASSUME NEW t \in ToastIds, ToastGoes(t) PROVE Core'
  BY <1>0, <1>4, <1>a DEF ToastGoes
<1>5. CASE UNCHANGED vars
  BY <1>0, <1>5, <1>a DEF vars
<1>6. CASE Submit
  <2>1. \A n \in Muts : n # "create" => mut'[n] = mut[n]
    BY <1>0, <1>6 DEF Submit, Begin
  <2> QED BY <1>6, <1>b, <2>1, MutKinds DEF Submit
<1>7. CASE ConfirmDelete
  <2>1. \A n \in Muts : n # "delete" => mut'[n] = mut[n]
    BY <1>0, <1>7 DEF ConfirmDelete, Begin
  <2>2. mut["delete"].ph = "idle" /\ mut'["delete"].ph = "sent" /\ hasData
    BY <1>0, <1>7, MutKinds DEF ConfirmDelete, Begin, Pending
  <2> QED BY <1>7, <1>b, <2>1, <2>2, MutKinds DEF ConfirmDelete
<1>8. ASSUME NEW r \in Rows, NEW t \in Toggles, ClickToggle(t, r) PROVE Core'
  <2>1. \A n \in Muts : n # t => mut'[n] = mut[n]
    BY <1>0, <1>8 DEF ClickToggle, Begin
  <2>2. mut[t].ph = "idle" /\ hasData
    BY <1>8 DEF ClickToggle, VisibleRows, Pending
  <2> QED BY <1>8, <1>b, <2>1, <2>2, MutKinds DEF ClickToggle
<1>9. CASE DeliverCreate
  <2>1. \A n \in Muts : n # "create" => mut'[n] = mut[n]
    BY <1>0, <1>9 DEF DeliverCreate
  <2>2. /\ fetch' \in {fetch, NoFetch, SentFetch} /\ inv' \in {inv, TRUE}
        /\ UNCHANGED <<list, hasData>>
    BY <1>0, <1>9, InvalidateType DEF DeliverCreate
  <2> QED BY <1>9, <1>b, <2>1, <2>2, MutKinds DEF DeliverCreate
<1>10. CASE DeliverDelete
  <2>1. /\ \A n \in Muts : n # "delete" => mut'[n] = mut[n]
        /\ mut'["delete"].ph = "idle"
    BY <1>0, <1>10, MutKinds, Shapes DEF DeliverDelete
  <2>2. hasData
    BY <1>0, <1>10, MutKinds DEF DeliverDelete, Settled, Pending
  <2>3. CASE mut["delete"].ph = "ok"
    <3>1. invalidateQueries
      BY <1>10, <2>3 DEF DeliverDelete
    <3>2. inv' = TRUE /\ UNCHANGED hasData /\ fetch' \in {NoFetch, SentFetch}
      BY <1>0, <2>2, <3>1, InvalidateType
    <3>3. DeleteDone'
      BY <1>0, <1>10, <2>1, <2>3 DEF DeliverDelete, Core, DeleteDone
    <3> QED BY <2>2, <3>2, <3>3, RereadKeeps
  <2>4. CASE mut["delete"].ph # "ok"
    <3>1. UNCHANGED <<revoked, target, queryVars>>
      BY <1>10, <2>4 DEF DeliverDelete
    <3> QED BY <1>10, <1>b, <2>1, <2>2, <2>4, <3>1, MutKinds DEF DeliverDelete
  <2> QED BY <2>3, <2>4
<1>11. ASSUME NEW t \in Toggles, DeliverToggle(t) PROVE Core'
  <2>1. /\ \A n \in Muts : n # t => mut'[n] = mut[n]
        /\ mut'[t].ph = "idle"
    BY <1>0, <1>11, MutKinds, Shapes DEF DeliverToggle
  <2>2. hasData
    BY <1>0, <1>11, MutKinds DEF DeliverToggle, Settled, Pending
  <2>3. CASE mut[t].ph = "ok"
    <3>1. invalidateQueries
      BY <1>11, <2>3 DEF DeliverToggle
    <3>2. inv' = TRUE /\ UNCHANGED hasData /\ fetch' \in {NoFetch, SentFetch}
      BY <1>0, <2>2, <3>1, InvalidateType
    <3>3. DeleteDone'
      BY <1>0, <1>11, <2>1, MutKinds DEF DeliverToggle, Core, DeleteDone
    <3> QED BY <2>2, <3>2, <3>3, RereadKeeps
  <2>4. CASE mut[t].ph # "ok"
    <3>1. UNCHANGED queryVars
      BY <1>11, <2>4 DEF DeliverToggle
    <3> QED BY <1>11, <1>b, <2>1, <2>2, <2>4, <3>1, MutKinds DEF DeliverToggle
  <2> QED BY <2>3, <2>4
<1>12. ASSUME NEW m \in Muts \ {"create"}, ServerChecks(m) PROVE Core'
  <2>1. /\ \A n \in Muts : n # m => mut'[n] = mut[n]
        /\ mut[m].ph = "sent" /\ mut'[m].ph \in {"checked", "failed"}
    BY <1>0, <1>12 DEF ServerChecks, MutType
  <2>2. hasData
    BY <1>0, <2>1 DEF Pending
  <2> QED BY <1>12, <1>b, <2>1, <2>2 DEF ServerChecks
<1>13. CASE DeliverList
  <2>1. /\ fetch.st = "ok" /\ list' = fetch.rows /\ late'.list = late.read
        /\ UNCHANGED <<keys, blocked, used, revoked, mut, target>> /\ hasData' /\ fetch' = NoFetch
    BY <1>13 DEF DeliverList
  <2>2. \A k : Kept(k) /\ (WillReread(k) => WillReread(k)')
    BY <2>1 DEF Kept, WillReread
  <2>3. ListTrue'
    BY <1>0, <2>1, <2>2, RowsKeep DEF Core, FetchTrue, ListTrue
  <2>4. DeleteDone' /\ FetchTrue' /\ ActsOnData'
    BY <1>0, <2>1, Shapes DEF Core, DeleteDone, FetchTrue, ActsOnData
  <2> QED BY <2>3, <2>4 DEF Core
<1>14. CASE ServerLists
  <2>1. PICK p \in Pages :
          fetch' = [st |-> "ok", rows |-> {[id |-> k, blocked |-> k \in blocked] : k \in p}]
    BY <1>14 DEF ServerLists
  <2>2. p \subseteq keys /\ p \subseteq used \ revoked
    BY <1>0 DEF Pages, Core, DeleteDone, TypeOK
  <2>3. fetch'.rows = {[id |-> k, blocked |-> k \in blocked] : k \in p}
    BY <2>1
  <2>4. /\ UNCHANGED <<keys, blocked, used, revoked, mut, target, hasData, inv, list>>
        /\ late'.list = late.list
    BY <1>0, <1>14 DEF ServerLists, TypeOK
  <2>5. ASSUME NEW r \in fetch'.rows PROVE r.id \in used' \ revoked' /\ RowTrue(r)'
    <3>1. PICK k \in p : r = [id |-> k, blocked |-> k \in blocked]
      BY <2>3, Zenon
    <3>2. r.id = k /\ (r.blocked <=> k \in blocked)
      BY <3>1
    <3> QED BY <2>2, <2>4, <3>2 DEF RowTrue
  <2>6. \A k : Kept(k) /\ (WillReread(k) => WillReread(k)')
    BY <2>4 DEF Kept, WillReread
  <2>7. ListTrue'
    BY <1>0, <2>4, <2>6, RowsKeep DEF Core, ListTrue
  <2>8. DeleteDone' /\ ActsOnData'
    BY <1>0, <2>4 DEF Core, DeleteDone, ActsOnData, Pending
  <2> QED BY <2>5, <2>7, <2>8 DEF Core, FetchTrue
<1>c. ASSUME used \subseteq used', UNCHANGED <<fetch, hasData, inv, list, revoked>>,
             late.list \subseteq late'.list, late.read \subseteq late'.read,
             \A k \in used : (k \in late'.list /\ k \in late'.read) \/ Kept(k) \/ WillReread(k)',
             \A k : WillReread(k) => WillReread(k)'
      PROVE  FetchTrue' /\ ListTrue'
  BY <1>0, <1>c, RowsKeep DEF Core, FetchTrue, ListTrue
<1>d. ASSUME NEW k, Unannounced(k)
      PROVE  /\ late.list \subseteq late'.list /\ late.read \subseteq late'.read
             /\ k \in late'.list /\ k \in late'.read
  BY <1>d DEF Unannounced
<1>15. ASSUME \A n \in Muts : n # "create" => mut'[n] = mut[n],
              NEW k \in Ids \ used, keys' = keys \cup {k}, used' = used \cup {k},
              UNCHANGED <<blocked, revoked, late, list, hasData, inv, fetch, target>>
       PROVE  Core'
  <2>1. \A j : WillReread(j) => WillReread(j)'
    BY <1>15 DEF WillReread
  <2>2. \A j \in used : Kept(j)
    BY <1>15 DEF Kept
  <2>3. FetchTrue' /\ ListTrue'
    BY <1>c, <1>15, <2>1, <2>2
  <2>4. DeleteDone' /\ ActsOnData'
    BY <1>0, <1>15, MutKinds DEF Core, DeleteDone, ActsOnData, Pending
  <2> QED BY <2>3, <2>4 DEF Core
<1>16. CASE ServerMints
  <2>1. /\ mut["create"].ph = "sent" /\ \A n \in Muts : n # "create" => mut'[n] = mut[n]
        /\ UNCHANGED <<revoked, late, list, hasData, inv, fetch, target>>
    BY <1>0, <1>16 DEF ServerMints
  <2>2. CASE UNCHANGED serverVars
    BY <1>b, <2>1, <2>2, MutKinds
  <2>3. CASE \E k \in Ids \ used : keys' = keys \cup {k} /\ used' = used \cup {k} /\ UNCHANGED blocked
    BY <1>15, <2>1, <2>3
  <2> QED BY <1>16, <2>2, <2>3 DEF ServerMints
<1>17. ASSUME NEW m \in Muts \ {"create"}, ServerActs(m) PROVE Core'
  <2>1. /\ mut[m].ph = "checked" /\ \A n \in Muts : n # m => mut'[n] = mut[n]
        /\ mut'[m].ph \in {"ok", "failed"} /\ mut'[m].id = mut[m].id
        /\ UNCHANGED <<used, revoked, list, hasData, inv, fetch, target>>
    BY <1>0, <1>17 DEF ServerActs, MutType
  <2>2. hasData
    BY <1>0, <2>1 DEF Pending
  <2>3. CASE mut' = [mut EXCEPT ![m].ph = "failed"] /\ UNCHANGED <<serverVars, late>>
    <3>1. mut'[m].ph = "failed"
      BY <1>0, <2>3 DEF MutType
    <3> QED BY <1>b, <2>1, <2>2, <2>3, <3>1
  <2>4. ASSUME mut[m].id \in keys,
               (mut'[m].ph = "ok" /\ UNCHANGED late) \/ Unannounced(mut[m].id),
               IF m = "delete"
               THEN keys' = keys \ {mut[m].id} /\ blocked' = blocked \ {mut[m].id}
               ELSE /\ blocked' = IF mut[m].val THEN blocked \cup {mut[m].id}
                                                ELSE blocked \ {mut[m].id}
                    /\ UNCHANGED keys
        PROVE  Core'
    <3>1. \A j : WillReread(j) => WillReread(j)'
      BY <2>1 DEF WillReread
    <3>2. late.list \subseteq late'.list /\ late.read \subseteq late'.read
      BY <1>d, <2>4
    <3>3. ASSUME NEW j \in used
          PROVE  (j \in late'.list /\ j \in late'.read) \/ Kept(j) \/ WillReread(j)'
      <4>1. CASE j # mut[m].id
        BY <2>4, <4>1 DEF Kept
      <4>2. CASE j = mut[m].id /\ mut'[m].ph = "ok"
        BY <2>1, <4>2 DEF WillReread
      <4>3. CASE j = mut[m].id /\ Unannounced(mut[m].id)
        BY <1>d, <4>3
      <4> QED BY <2>4, <4>1, <4>2, <4>3
    <3>4. FetchTrue' /\ ListTrue'
      BY <1>c, <2>1, <3>1, <3>2, <3>3
    <3>5. DeleteDone'
      BY <1>0, <2>1, <2>4, MutKinds DEF Core, DeleteDone, TypeOK
    <3>6. ActsOnData'
      BY <2>1, <2>2 DEF ActsOnData
    <3> QED BY <3>4, <3>5, <3>6 DEF Core
  <2>5. mut' = [mut EXCEPT ![m].ph = "ok"] => mut'[m].ph = "ok"
    BY <1>0 DEF MutType
  <2> QED BY <1>17, <2>3, <2>4, <2>5 DEF ServerActs
<1>18. ASSUME NEW k \in Ids, OtherDeletes(k) \/ OtherToggles(k) PROVE Core'
  <2>1. /\ keys' \subseteq keys /\ \A j \in used : j # k => Kept(j)
        /\ UNCHANGED <<used, revoked, mut, list, hasData, inv, fetch, target>>
        /\ Unannounced(k)
    BY <1>18 DEF OtherDeletes, OtherToggles, Kept
  <2>2. \A j : WillReread(j) => WillReread(j)'
    BY <2>1 DEF WillReread
  <2>3. FetchTrue' /\ ListTrue'
    BY <1>c, <1>d, <2>1, <2>2
  <2>4. DeleteDone' /\ ActsOnData'
    BY <1>0, <2>1 DEF Core, DeleteDone, ActsOnData, Pending
  <2> QED BY <2>3, <2>4 DEF Core
<1>19. ASSUME NEW k \in Ids, OtherMints(k) PROVE Core'
  BY <1>15, <1>19 DEF OtherMints
<1> QED BY <1>1, <1>2, <1>3, <1>4, <1>5, <1>6, <1>7, <1>8, <1>9, <1>10, <1>11, <1>12, <1>13,
           <1>14, <1>16, <1>17, <1>18, <1>19 DEF Next

LEMMA InvHolds == Spec => []Inv
<1>1. Inv /\ [Next]_vars => Inv'
  BY TypeKept, SecretStep, CoreStep DEF Inv
<1> QED BY InitEstablishes, <1>1, PTL DEF Spec
----------------------------------------------------------------------------
(* The secret of a create whose answer arrives is kept until the dialog    *)
(* has shown it, closed in flight or not.                                  *)
THEOREM SecretNeverDroppedCorrect == Spec => []SecretNeverDropped
<1>1. Inv => SecretNeverDropped
  BY DEF Inv, SecretKept
<1> QED BY <1>1, InvHolds, PTL

(* A key whose deletion was confirmed is gone, and no list that stands     *)
(* shows it, whatever reads were under way.                                *)
THEOREM RevokedStaysGoneCorrect == Spec => []RevokedStaysGone
<1>1. Inv => RevokedStaysGone
  BY DEF Inv, Core, DeleteDone, ListTrue, RowTrue, RevokedStaysGone
<1> QED BY <1>1, InvHolds, PTL

(* With every mutation settled, the rows of a list that stands are keys    *)
(* that exist, disabled or not as the rows say, but for the ones changed   *)
(* behind the console's back since they were read.                         *)
THEOREM SettledRowsAreTrueCorrect == Spec => []SettledRowsAreTrue
<1>1. Inv => SettledRowsAreTrue
  <2> SUFFICES ASSUME Inv, hasData, ~inv, \A m \in Muts : ~Pending(m),
                      NEW r \in list, r.id \notin late.list
               PROVE  r.id \in keys /\ (r.blocked <=> r.id \in blocked)
    BY DEF SettledRowsAreTrue
  <2>1. ~WillReread(r.id)
    BY DEF WillReread, Pending
  <2>2. RowTrue(r)
    BY DEF Inv, Core, ListTrue
  <2> QED BY <2>1, <2>2 DEF RowTrue
<1> QED BY <1>1, InvHolds, PTL
=============================================================================
