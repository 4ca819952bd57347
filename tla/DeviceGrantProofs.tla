------------------------- MODULE DeviceGrantProofs -------------------------
(***************************************************************************)
(* Proofs about DeviceGrant for every set of browsers, polls, devices,     *)
(* clients and users.                                                      *)
(***************************************************************************)
EXTENDS DeviceGrant, TLAPS

(* Where an approval can be: in the hands of a browser that logged in for  *)
(* the code, in the record, with the poll that took it, or in a pair.      *)
ApprovalTrail ==
    /\ \A b \in Browsers : bpc[b] # "away" => bdev[b] \in Devices /\ starter[bdev[b]] # NoClient
    /\ \A b \in Browsers :
         bpc[b] \in InSettle /\ verdict[b] = "approved" =>
             bsub[b] \in Users /\ <<bdev[b], bsub[b]>> \in approvals
    /\ \A d \in index : starter[d] # NoClient
    /\ \A d \in Devices :
         device[d].status = "approved" =>
             device[d].sub \in Users /\ <<d, device[d].sub>> \in approvals
    /\ \A d \in Devices : device[d].status # "absent" => starter[d] # NoClient
    /\ \A p \in Polls :
         ppc[p] # "idle" =>
             pdev[p] \in Devices /\ pclient[p] \in Clients /\ starter[pdev[p]] = pclient[p]
    /\ \A p \in Polls :
         ppc[p] = "issue" => psub[p] \in Users /\ <<pdev[p], psub[p]>> \in approvals

TrailInv == TypeOK /\ ApprovalTrail /\ TokensAreApproved

(* When callbacks do not race, an approval of a code is in one place: with *)
(* the callback about to write it, in the record, with the poll that took  *)
(* it, or redeemed.                                                        *)
OneSettler ==
    /\ \A d \in Devices :
         /\ redeemed[d] <= 1
         /\ starter[d] = NoClient => redeemed[d] = 0
         /\ device[d].status # "absent" => redeemed[d] = 0
    /\ \A b \in Browsers : bpc[b] = "settle_put" =>
         /\ redeemed[bdev[b]] = 0 /\ device[bdev[b]].status \notin Settled
         /\ \A a \in Browsers : bpc[a] = "settle_put" /\ bdev[a] = bdev[b] => a = b
    /\ \A p \in Polls : ppc[p] = "issue" =>
         /\ redeemed[pdev[p]] = 0 /\ device[pdev[p]].status = "absent"
         /\ \A b \in Browsers : bpc[b] = "settle_put" => bdev[b] # pdev[p]
         /\ \A q \in Polls : ppc[q] = "issue" /\ pdev[q] = pdev[p] => p = q

USE NoneAssumption

(* The initial states satisfy the trail invariant. *)
LEMMA InitTrail == Init => TrailInv
  BY DEF Init, TrailInv, TypeOK, ApprovalTrail, TokensAreApproved, Absent, Record, Settled,
         InSettle

(* Every step keeps the trail of approvals. *)
LEMMA StepTrail == TrailInv /\ [Next]_vars => TrailInv'
<1> SUFFICES ASSUME TrailInv, [Next]_vars PROVE TrailInv'
  OBVIOUS
<1> USE DEF TrailInv, TypeOK, ApprovalTrail, TokensAreApproved, Absent, Record, Settled,
            InSettle, BrowserAt, PollAt, browserVars, pollVars, ending
<1>1. ASSUME NEW d \in Devices, NEW c \in Clients, DeviceAuthorization(d, c) PROVE TrailInv'
  BY <1>1 DEF DeviceAuthorization
<1>2. ASSUME NEW b \in Browsers, NEW d \in Devices, DeviceConfirm(b, d) PROVE TrailInv'
  BY <1>2 DEF DeviceConfirm
<1>3. ASSUME NEW b \in Browsers, AsCallbackAbandons(b) PROVE TrailInv'
  BY <1>3 DEF AsCallbackAbandons
<1>4. ASSUME NEW b \in Browsers, AsCallbackDenies(b) PROVE TrailInv'
  BY <1>4 DEF AsCallbackDenies
<1>5. ASSUME NEW b \in Browsers, NEW u \in Users, AsCallbackApproves(b, u) PROVE TrailInv'
  BY <1>5 DEF AsCallbackApproves
<1>6. ASSUME NEW b \in Browsers, SettleRead(b) PROVE TrailInv'
  BY <1>6 DEF SettleRead
<1>7. ASSUME NEW b \in Browsers, SettlePut(b) PROVE TrailInv'
  BY <1>7 DEF SettlePut
<1>8. ASSUME NEW b \in Browsers, SettlePop(b) PROVE TrailInv'
  BY <1>8 DEF SettlePop
<1>9. ASSUME NEW b \in Browsers, BrowserCrash(b) PROVE TrailInv'
  BY <1>9 DEF BrowserCrash
<1>10. ASSUME NEW p \in Polls, NEW d \in Devices, NEW c \in Clients, PollRead(p, d, c)
       PROVE TrailInv'
  BY <1>10 DEF PollRead
<1>11. ASSUME NEW p \in Polls, PollPopDenied(p) PROVE TrailInv'
  <2>1. TypeOK'
    BY <1>11 DEF PollPopDenied
  <2> QED
    BY <1>11, <2>1 DEF PollPopDenied
<1>12. ASSUME NEW p \in Polls, PollTake(p) PROVE TrailInv'
  <2> DEFINE d == pdev[p]
  <2>1. d \in Devices /\ device' = [device EXCEPT ![d] = Absent]
    BY <1>12 DEF PollTake
  <2>2. device[d].sub \in Users \cup {NoUser} /\ psub' = [psub EXCEPT ![p] = device[d].sub]
    BY <1>12, <2>1 DEF PollTake, Taken
  <2>3. TypeOK'
    BY <1>12, <2>1, <2>2 DEF PollTake, Taken
  <2>4. TokensAreApproved'
    BY <1>12 DEF PollTake
  <2>5. ApprovalTrail'
    BY <1>12, <2>1, <2>2 DEF PollTake, Taken
  <2> QED
    BY <2>3, <2>4, <2>5
<1>15. ASSUME NEW p \in Polls, PollIssue(p) PROVE TrailInv'
  <2> DEFINE t == <<pdev[p], pclient[p], psub[p]>>
  <2>1. /\ pdev[p] \in Devices /\ pclient[p] \in Clients /\ psub[p] \in Users
        /\ starter[pdev[p]] = pclient[p] /\ <<pdev[p], psub[p]>> \in approvals
    BY <1>15 DEF PollIssue
  <2>2. /\ tokens' = tokens \cup {t} /\ starter' = starter /\ approvals' = approvals
        /\ redeemed' = [redeemed EXCEPT ![pdev[p]] = @ + 1]
    BY <1>15 DEF PollIssue
  <2>3. TypeOK'
    BY <1>15, <2>1, <2>2 DEF PollIssue
  <2>4. TokensAreApproved'
    <3> SUFFICES ASSUME NEW w \in tokens'
                 PROVE  starter'[w[1]] = w[2] /\ <<w[1], w[3]>> \in approvals'
      BY DEF TokensAreApproved
    <3>1. CASE w \in tokens
      BY <2>2, <3>1
    <3>2. CASE w = t
      BY <2>1, <2>2, <3>2
    <3> QED
      BY <2>2, <3>1, <3>2
  <2>5. ApprovalTrail'
    BY <1>15 DEF PollIssue
  <2> QED
    BY <2>3, <2>4, <2>5
<1>16. ASSUME NEW p \in Polls, PollDies(p) PROVE TrailInv'
  BY <1>16 DEF PollDies
<1>13. ASSUME NEW d \in Devices, DeviceExpires(d) \/ IndexExpires(d) PROVE TrailInv'
  <2>1. CASE DeviceExpires(d)
    <3>1. TypeOK'
      BY <2>1 DEF DeviceExpires
    <3> QED
      BY <2>1, <3>1 DEF DeviceExpires
  <2>2. CASE IndexExpires(d)
    BY <2>2 DEF IndexExpires
  <2> QED
    BY <1>13, <2>1, <2>2
<1>14. CASE UNCHANGED vars
  BY <1>14 DEF vars
<1> QED
  BY <1>1, <1>2, <1>3, <1>4, <1>5, <1>6, <1>7, <1>8, <1>9, <1>10, <1>11, <1>12, <1>13, <1>14,
     <1>15, <1>16 DEF Next, Browser, PollEnds

(* The trail invariant holds in every reachable state. *)
LEMMA Trail == Spec => []TrailInv
  BY InitTrail, StepTrail, PTL DEF Spec

(* Pairs are only issued to the asking client, for a person who logged in  *)
(* for that code, with any number of browsers and polls.                   *)
THEOREM TokensAreApprovedCorrect == Spec => []TokensAreApproved
<1>1. TrailInv => TokensAreApproved
  BY DEF TrailInv
<1> QED
  BY <1>1, Trail, PTL

(* Steps of callbacks that do not race keep an approval in one place.      *)
LEMMA StepOneSettler ==
    ASSUME ~PagesRace, TrailInv, OneSettler, [Next]_vars
    PROVE  OneSettler'
<1> USE DEF TrailInv, TypeOK, ApprovalTrail, OneSettler, Absent, Record, Settled,
            InSettle, BrowserAt, PollAt, browserVars, pollVars, ending
<1>1. ASSUME NEW d \in Devices, NEW c \in Clients, DeviceAuthorization(d, c) PROVE OneSettler'
  BY <1>1 DEF DeviceAuthorization
<1>2. ASSUME NEW b \in Browsers, Browser(b) PROVE OneSettler'
  <2>1. CASE SettlePut(b)
    BY <2>1 DEF SettlePut
  <2>2. CASE SettleRead(b)
    BY <2>2 DEF SettleRead, Apart
  <2>3. CASE SettlePop(b) \/ BrowserCrash(b)
    BY <2>3 DEF SettlePop, BrowserCrash
  <2>4. CASE AsCallbackAbandons(b) \/ AsCallbackDenies(b)
    BY <2>4 DEF AsCallbackAbandons, AsCallbackDenies
  <2>5. CASE \E d \in Devices : DeviceConfirm(b, d)
    BY <2>5 DEF DeviceConfirm
  <2>6. CASE \E u \in Users : AsCallbackApproves(b, u)
    BY <2>6 DEF AsCallbackApproves
  <2> QED
    BY <1>2, <2>1, <2>2, <2>3, <2>4, <2>5, <2>6 DEF Browser
<1>3. ASSUME NEW p \in Polls, NEW d \in Devices, NEW c \in Clients, PollRead(p, d, c)
      PROVE OneSettler'
  BY <1>3 DEF PollRead
<1>4. ASSUME NEW p \in Polls, PollPopDenied(p) PROVE OneSettler'
  BY <1>4 DEF PollPopDenied
<1>5. ASSUME NEW p \in Polls, PollTake(p) PROVE OneSettler'
  BY <1>5 DEF PollTake, Taken
<1>6. ASSUME NEW p \in Polls, PollIssue(p) PROVE OneSettler'
  BY <1>6 DEF PollIssue
<1>7. ASSUME NEW p \in Polls, PollDies(p) PROVE OneSettler'
  BY <1>7 DEF PollDies
<1>8. ASSUME NEW d \in Devices, DeviceExpires(d) \/ IndexExpires(d) PROVE OneSettler'
  <2>1. CASE DeviceExpires(d)
    <3>1. device' = [device EXCEPT ![d] = Absent]
          /\ UNCHANGED <<starter, bpc, bdev, ppc, pdev, redeemed>>
      BY <2>1 DEF DeviceExpires
    <3> QED
      BY <3>1
  <2>2. CASE IndexExpires(d)
    BY <2>2 DEF IndexExpires
  <2> QED
    BY <1>8, <2>1, <2>2
<1>9. CASE UNCHANGED vars
  BY <1>9 DEF vars
<1> QED
  BY <1>1, <1>2, <1>3, <1>4, <1>5, <1>6, <1>7, <1>8, <1>9 DEF Next, PollEnds

(* An approval is in one place in every reachable state. *)
LEMMA SettleWindow == ASSUME ~PagesRace PROVE Spec => []OneSettler
<1>1. Init => OneSettler
  BY DEF Init, OneSettler, Absent
<1>2. TrailInv /\ OneSettler /\ [Next]_vars => OneSettler'
  BY StepOneSettler
<1> QED
  BY <1>1, <1>2, Trail, PTL DEF Spec

(* Any number of pages may confirm one code, before and after it is        *)
(* settled: unless two callbacks read it pending before either writes, it  *)
(* yields at most one pair, however many polls race for it, whatever       *)
(* expires and wherever replicas die.                                      *)
THEOREM SingleRedemptionCorrect ==
    ASSUME ~PagesRace PROVE Spec => []SingleRedemption
<1>1. OneSettler => SingleRedemption
  BY DEF OneSettler, SingleRedemption
<1> QED
  BY <1>1, SettleWindow, PTL

(* Under the same assumption a verdict is never replaced, by whichever of  *)
(* the pages open for the code and however late its callback comes.        *)
THEOREM SettledOnceCorrect ==
    ASSUME ~PagesRace PROVE Spec => SettledOnce
<1> DEFINE Kept == \A d \in Devices :
                     device[d].status \in Settled => device'[d] \in {device[d], Absent}
<1>1. ASSUME TrailInv, OneSettler, [Next]_vars PROVE Kept
  <2>0. device \in [Devices -> Record]
    BY <1>1 DEF TrailInv, TypeOK
  <2>1. ASSUME NEW d \in Devices, NEW c \in Clients, DeviceAuthorization(d, c) PROVE Kept
    BY <1>1, <2>0, <2>1 DEF DeviceAuthorization, TrailInv, ApprovalTrail, Settled
  <2>2. ASSUME NEW b \in Browsers, SettlePut(b) PROVE Kept
    <3>1. bdev[b] \in Devices /\ device[bdev[b]].status \notin Settled
      BY <1>1, <2>2 DEF SettlePut, TrailInv, ApprovalTrail, OneSettler
    <3>2. \A d \in Devices : d # bdev[b] => device'[d] = device[d]
      BY <2>0, <2>2 DEF SettlePut
    <3> QED
      BY <3>1, <3>2
  <2>3. ASSUME NEW d \in Devices, device' = [device EXCEPT ![d] = Absent] PROVE Kept
    BY <2>0, <2>3
  <2>4. ASSUME NEW p \in Polls, PollEnds(p) \/ PollDies(p) PROVE Kept
    <3>1. pdev[p] \in Devices
      BY <1>1, <2>4 DEF PollEnds, PollPopDenied, PollTake, PollIssue, PollDies, TrailInv,
         ApprovalTrail
    <3> QED
      BY <2>3, <2>4, <3>1 DEF PollEnds, PollPopDenied, PollTake, PollIssue, PollDies
  <2>5. CASE UNCHANGED device
    BY <2>5
  <2> QED
    BY <1>1, <2>1, <2>2, <2>3, <2>4, <2>5
       DEF Next, DeviceExpires, vars, Browser, DeviceConfirm, AsCallbackAbandons, AsCallbackDenies,
           AsCallbackApproves, SettleRead, SettlePop, BrowserCrash, PollRead, IndexExpires
<1>2. TrailInv /\ OneSettler /\ [Next]_vars => [Kept]_vars
  BY <1>1
<1> QED
  BY <1>2, Trail, SettleWindow, PTL DEF Spec, SettledOnce
=============================================================================
