---------------------------- MODULE DeviceGrant ----------------------------
(***************************************************************************)
(* The device authorization grant of src/api/app/oauth_as/routes.py: a     *)
(* terminal asks for a device code and polls /oauth/token; a person types  *)
(* the user code in a browser, logs in at Dex, and the callback settles    *)
(* the record.  Browsers and polls run at the same time on any replica;    *)
(* each call to the store is one atomic step.  Dex is external.            *)
(***************************************************************************)
EXTENDS Naturals

CONSTANTS Browsers,   \* verification pages open somewhere
          Polls,      \* /oauth/token requests in flight
          Devices,    \* device codes that can be generated
          Clients,    \* registered OAuth clients
          Users,      \* people Dex knows
          NoUser, NoClient, NoDevice,
          PagesRace   \* may two callbacks read one pending record before
                      \* either has written it?

ASSUME NoneAssumption == /\ NoUser \notin Users
                         /\ NoClient \notin Clients
                         /\ NoDevice \notin Devices
                         /\ PagesRace \in BOOLEAN

VARIABLES device,     \* device[d]: the "device" record: its status and sub
          starter,    \* starter[d]: client_id of the record, NoClient if unissued
          index,      \* the device codes whose "device_user" entry exists
          bpc, bdev, verdict, bsub,   \* per browser: step, device_code, outcome
          ppc, pdev, pclient, psub,   \* per poll: step, device_code, client_id,
                                      \* sub of the record it took
          approvals,  \* history: <<d, u>>: u logged in at Dex to approve d
          tokens,     \* history: <<d, c, u>>: a pair was issued
          redeemed,   \* history: redeemed[d]: pairs issued for d
          lapsed,     \* history: codes whose approved record expired
          spent       \* history: codes taken by a poll that issued nothing

browserVars == <<bpc, bdev, verdict, bsub>>
pollVars    == <<ppc, pdev, pclient, psub>>
ending      == <<lapsed, spent>>
vars == <<device, starter, index, browserVars, pollVars, approvals, tokens, redeemed, ending>>

Record == [status : {"absent", "pending", "approved", "denied"}, sub : Users \cup {NoUser}]
Absent == [status |-> "absent", sub |-> NoUser]
Settled == {"approved", "denied"}
InSettle == {"settle_read", "settle_put", "settle_pop"}

TypeOK == /\ device \in [Devices -> Record]
          /\ starter \in [Devices -> Clients \cup {NoClient}]
          /\ index \in SUBSET Devices
          /\ bpc \in [Browsers -> {"away", "at_dex"} \cup InSettle]
          /\ bdev \in [Browsers -> Devices \cup {NoDevice}]
          /\ verdict \in [Browsers -> Settled]
          /\ bsub \in [Browsers -> Users \cup {NoUser}]
          /\ ppc \in [Polls -> {"idle", "pop_denied", "take", "issue"}]
          /\ pdev \in [Polls -> Devices \cup {NoDevice}]
          /\ pclient \in [Polls -> Clients \cup {NoClient}]
          /\ psub \in [Polls -> Users \cup {NoUser}]
          /\ approvals \in SUBSET (Devices \X Users)
          /\ tokens \in SUBSET (Devices \X Clients \X Users)
          /\ redeemed \in [Devices -> Nat]
          /\ lapsed \in SUBSET Devices
          /\ spent \in SUBSET Devices

Init == /\ device = [d \in Devices |-> Absent]
        /\ starter = [d \in Devices |-> NoClient]
        /\ index = {}
        /\ bpc = [b \in Browsers |-> "away"]
        /\ bdev = [b \in Browsers |-> NoDevice]
        /\ verdict = [b \in Browsers |-> "denied"]
        /\ bsub = [b \in Browsers |-> NoUser]
        /\ ppc = [p \in Polls |-> "idle"]
        /\ pdev = [p \in Polls |-> NoDevice]
        /\ pclient = [p \in Polls |-> NoClient]
        /\ psub = [p \in Polls |-> NoUser]
        /\ approvals = {}
        /\ tokens = {}
        /\ redeemed = [d \in Devices |-> 0]
        /\ lapsed = {} /\ spent = {}

BrowserAt(b, step) == bpc' = [bpc EXCEPT ![b] = step]
PollAt(p, step)    == ppc' = [ppc EXCEPT ![p] = step]
----------------------------------------------------------------------------
(* POST /oauth/device_authorization: a fresh code, its record and index.   *)
(* Nobody knows either code before the answer, so the two puts are one.    *)
DeviceAuthorization(d, c) ==
    /\ starter[d] = NoClient
    /\ starter' = [starter EXCEPT ![d] = c]
    /\ device' = [device EXCEPT ![d] = [status |-> "pending", sub |-> NoUser]]
    /\ index' = index \cup {d}
    /\ UNCHANGED <<browserVars, pollVars, approvals, tokens, redeemed, ending>>

(* POST /oauth/device: the index is read, not taken; a pending is stored   *)
(* and the browser is sent to Dex.                                         *)
DeviceConfirm(b, d) ==
    /\ bpc[b] = "away"
    /\ d \in index
    /\ BrowserAt(b, "at_dex")
    /\ bdev' = [bdev EXCEPT ![b] = d]
    /\ UNCHANGED <<device, starter, index, verdict, bsub, pollVars, approvals, tokens,
                   redeemed, ending>>

(* /oauth/as-callback without a settlement: the pending expired or was     *)
(* never followed; Dex gave no email or no refresh token; provisioning     *)
(* failed.  The device record stays as it is.                              *)
AsCallbackAbandons(b) ==
    /\ bpc[b] = "at_dex"
    /\ BrowserAt(b, "away")
    /\ UNCHANGED <<device, starter, index, bdev, verdict, bsub, pollVars, approvals,
                   tokens, redeemed, ending>>

(* The code exchange with Dex raised: the device is to be denied. *)
AsCallbackDenies(b) ==
    /\ bpc[b] = "at_dex"
    /\ BrowserAt(b, "settle_read")
    /\ verdict' = [verdict EXCEPT ![b] = "denied"]
    /\ bsub' = [bsub EXCEPT ![b] = NoUser]
    /\ UNCHANGED <<device, starter, index, bdev, pollVars, approvals, tokens, redeemed,
                   ending>>

(* u logged in: the device is to be approved for u. *)
AsCallbackApproves(b, u) ==
    /\ bpc[b] = "at_dex"
    /\ BrowserAt(b, "settle_read")
    /\ verdict' = [verdict EXCEPT ![b] = "approved"]
    /\ bsub' = [bsub EXCEPT ![b] = u]
    /\ approvals' = approvals \cup {<<bdev[b], u>>}
    /\ UNCHANGED <<device, starter, index, bdev, pollVars, tokens, redeemed, ending>>

(* No other callback has read b's code as pending and is about to write. *)
Apart(b) == \A a \in Browsers \ {b} : bpc[a] = "settle_put" => bdev[a] # bdev[b]

(* Mutant: the status is not looked at. *)
SettleReadUnchecked(b) ==
    /\ bpc[b] = "settle_read"
    /\ PagesRace \/ Apart(b)
    /\ BrowserAt(b, IF device[bdev[b]] = Absent THEN "away" ELSE "settle_put")
    /\ UNCHANGED <<device, starter, index, bdev, verdict, bsub, pollVars, approvals,
                   tokens, redeemed, ending>>

(* _device_settle reads the record and gives up unless it is pending. *)
SettleRead(b) ==
    /\ bpc[b] = "settle_read"
    /\ PagesRace \/ Apart(b)
    /\ BrowserAt(b, IF device[bdev[b]].status = "pending" THEN "settle_put" ELSE "away")
    /\ UNCHANGED <<device, starter, index, bdev, verdict, bsub, pollVars, approvals,
                   tokens, redeemed, ending>>

(* _device_settle writes the verdict over whatever is stored by now. *)
SettlePut(b) ==
    /\ bpc[b] = "settle_put"
    /\ device' = [device EXCEPT ![bdev[b]] = [status |-> verdict[b], sub |-> bsub[b]]]
    /\ BrowserAt(b, "settle_pop")
    /\ UNCHANGED <<starter, index, bdev, verdict, bsub, pollVars, approvals, tokens,
                   redeemed, ending>>

(* _device_settle drops the user-code index. *)
SettlePop(b) ==
    /\ bpc[b] = "settle_pop"
    /\ index' = index \ {bdev[b]}
    /\ BrowserAt(b, "away")
    /\ UNCHANGED <<device, starter, bdev, verdict, bsub, pollVars, approvals, tokens,
                   redeemed, ending>>

(* The replica running the callback dies. *)
BrowserCrash(b) ==
    /\ bpc[b] \in InSettle
    /\ BrowserAt(b, "away")
    /\ UNCHANGED <<device, starter, index, bdev, verdict, bsub, pollVars, approvals,
                   tokens, redeemed, ending>>
----------------------------------------------------------------------------
(* Mutant: the client_id of the record is not compared. *)
PollReadAnyClient(p, d, c) ==
    /\ ppc[p] = "idle"
    /\ device[d].status \in Settled
    /\ PollAt(p, IF device[d].status = "denied" THEN "pop_denied" ELSE "take")
    /\ pdev' = [pdev EXCEPT ![p] = d]
    /\ pclient' = [pclient EXCEPT ![p] = c]
    /\ UNCHANGED <<device, starter, index, browserVars, psub, approvals, tokens,
                   redeemed, ending>>

(* Mutant: an approved record is taken for a pending one. *)
PollReadNever(p, d, c) ==
    /\ ppc[p] = "idle"
    /\ device[d].status = "denied"
    /\ starter[d] = c
    /\ PollAt(p, "pop_denied")
    /\ pdev' = [pdev EXCEPT ![p] = d]
    /\ pclient' = [pclient EXCEPT ![p] = c]
    /\ UNCHANGED <<device, starter, index, browserVars, psub, approvals, tokens,
                   redeemed, ending>>

(* POST /oauth/token, device grant: the read.  A missing record, another   *)
(* client's or a pending one is an error answer that changes nothing.      *)
PollRead(p, d, c) ==
    /\ ppc[p] = "idle"
    /\ device[d].status \in Settled
    /\ starter[d] = c
    /\ PollAt(p, IF device[d].status = "denied" THEN "pop_denied" ELSE "take")
    /\ pdev' = [pdev EXCEPT ![p] = d]
    /\ pclient' = [pclient EXCEPT ![p] = c]
    /\ UNCHANGED <<device, starter, index, browserVars, psub, approvals, tokens,
                   redeemed, ending>>

(* Denied: the record is removed, access_denied. *)
PollPopDenied(p) ==
    /\ ppc[p] = "pop_denied"
    /\ device' = [device EXCEPT ![pdev[p]] = Absent]
    /\ PollAt(p, "idle")
    /\ UNCHANGED <<starter, index, browserVars, pdev, pclient, psub, approvals, tokens,
                   redeemed,
                   ending>>

(* What the poll does with the record it took: nothing there is            *)
(* expired_token; a record without a sub (a denial written in between) is  *)
(* a KeyError; an approved one is issued for.                              *)
Taken(p) ==
    /\ PollAt(p, IF device[pdev[p]].status = "approved" THEN "issue" ELSE "idle")
    /\ psub' = [psub EXCEPT ![p] = device[pdev[p]].sub]

(* Mutant: the record is read, not taken. *)
PollTakeKeeps(p) ==
    /\ ppc[p] = "take"
    /\ redeemed[pdev[p]] < 2
    /\ Taken(p)
    /\ UNCHANGED <<device, starter, index, browserVars, pdev, pclient, approvals, tokens,
                   redeemed,
                   ending>>

(* Approved: GETDEL. *)
PollTake(p) ==
    /\ ppc[p] = "take"
    /\ Taken(p)
    /\ device' = [device EXCEPT ![pdev[p]] = Absent]
    /\ UNCHANGED <<starter, index, browserVars, pdev, pclient, approvals, tokens,
                   redeemed, ending>>

(* _issue: the pair for the record that was taken. *)
PollIssue(p) ==
    /\ ppc[p] = "issue"
    /\ tokens' = tokens \cup {<<pdev[p], pclient[p], psub[p]>>}
    /\ redeemed' = [redeemed EXCEPT ![pdev[p]] = @ + 1]
    /\ PollAt(p, "idle")
    /\ UNCHANGED <<device, starter, index, browserVars, pdev, pclient, psub, approvals,
                   ending>>

(* The replica running the poll dies, or the store refuses the pair: past  *)
(* the take, the code is spent and nobody has the tokens.                  *)
PollDies(p) ==
    /\ ppc[p] # "idle"
    /\ PollAt(p, "idle")
    /\ spent' = IF ppc[p] = "issue" THEN spent \cup {pdev[p]} ELSE spent
    /\ UNCHANGED <<device, starter, index, browserVars, pdev, pclient, psub, approvals, tokens,
                   redeemed, lapsed>>

(* DEVICE_TTL runs out for the record, or for the index entry. *)
DeviceExpires(d) ==
    /\ device[d] # Absent
    /\ device' = [device EXCEPT ![d] = Absent]
    /\ lapsed' = IF device[d].status = "approved" THEN lapsed \cup {d} ELSE lapsed
    /\ UNCHANGED <<starter, index, browserVars, pollVars, approvals, tokens, redeemed, spent>>

IndexExpires(d) ==
    /\ d \in index
    /\ index' = index \ {d}
    /\ UNCHANGED <<device, starter, browserVars, pollVars, approvals, tokens, redeemed,
                   ending>>

Browser(b) == \/ \E d \in Devices : DeviceConfirm(b, d)
              \/ AsCallbackAbandons(b)
              \/ AsCallbackDenies(b)
              \/ \E u \in Users : AsCallbackApproves(b, u)
              \/ SettleRead(b) \/ SettlePut(b) \/ SettlePop(b) \/ BrowserCrash(b)

PollEnds(p) == PollPopDenied(p) \/ PollTake(p) \/ PollIssue(p)

Next == \/ \E d \in Devices, c \in Clients : DeviceAuthorization(d, c)
        \/ \E b \in Browsers : Browser(b)
        \/ \E p \in Polls, d \in Devices, c \in Clients : PollRead(p, d, c)
        \/ \E p \in Polls : PollEnds(p) \/ PollDies(p)
        \/ \E d \in Devices : DeviceExpires(d) \/ IndexExpires(d)

Spec == Init /\ [][Next]_vars

(* The terminal that asked for a code polls it every DEVICE_INTERVAL       *)
(* seconds, and not every one of its requests dies with a replica.         *)
FairSpec ==
    /\ Spec
    /\ \A d \in Devices, c \in Clients : SF_vars(\E p \in Polls : PollRead(p, d, c))
    /\ \A p \in Polls : SF_vars(PollEnds(p))
----------------------------------------------------------------------------
(* A pair is issued for a device code only to the client that asked for    *)
(* the code, and only for a person who logged in at Dex for that code,     *)
(* whatever denials, expiries, crashes and other browsers came in between. *)
TokensAreApproved ==
    \A t \in tokens : starter[t[1]] = t[2] /\ <<t[1], t[3]>> \in approvals

(* An approved code is redeemed at most once (the comment on the take),    *)
(* though several polls read it as approved; as long as no two callbacks   *)
(* race to settle it.                                                      *)
SingleRedemption == \A d \in Devices : redeemed[d] <= 1

(* A settled record never changes its verdict: it can only disappear       *)
(* (_device_settle: None when the record is gone or already settled).  So  *)
(* a second page that confirms the code, even one whose index entry a dead *)
(* replica left behind, changes nothing; as long as no two callbacks race. *)
SettledOnce ==
    [][\A d \in Devices :
         device[d].status \in Settled => device'[d] \in {device[d], Absent}]_vars

(* An approved code yields a pair to the client that keeps polling it,     *)
(* unless its record expires first or the poll that took it dies before it *)
(* has stored the pair: nothing else, no pending page, no other client's   *)
(* poll and no lost race between polls, eats an approval.                  *)
ApprovedIsRedeemed ==
    \A d \in Devices :
        device[d].status = "approved" ~> redeemed[d] > 0 \/ d \in lapsed \cup spent
=============================================================================
