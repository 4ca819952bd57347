------------------------------ MODULE AuthCode ------------------------------
(***************************************************************************)
(* The authorization code ceremony of src/api/app/oauth_as/routes.py:      *)
(* /oauth/authorize, the login at Dex, the chain of consent screens at the *)
(* service brokers, and the redemption of the code.  Each HTTP request is  *)
(* a handler; a browser may repeat any of them, so several handlers can    *)
(* run for one authorization.  Every store call, and every look at the     *)
(* grants, is one atomic step.  Dex, the brokers and their grant           *)
(* projection are external.                                                *)
(***************************************************************************)
EXTENDS Naturals, Sequences

CONSTANTS Flows,     \* authorization requests
          Handlers,  \* callback requests in flight
          Clients, Users, Services,
          NoClient, NoUser, NoFlow,
          Scopes     \* the lists of services a request may name, with repeats

ASSUME CodeAssumption == /\ NoClient \notin Clients
                         /\ NoUser \notin Users
                         /\ NoFlow \notin Flows
ASSUME ScopesAssumption == Scopes \subseteq Seq(Services)

VARIABLES known,     \* "client" records that have not expired
          pending,   \* flows with a "pending" record
          chain,     \* the "chain" records: flow, sub, todo
          code,      \* the "code" records: flow, sub, scope
          fclient, fscopes,   \* per flow: client_id, the services as requested
          hpc, hrec,          \* per handler: step and the record it popped
          ask, got,           \* per handler: services to look up, granted ones
          granted,   \* projection: <<user, service>>
          logins,    \* history: <<flow, user>>: who logged in at Dex for it
          consents,  \* history: every <<user, service>> ever granted
          pairs,     \* history: token pairs issued: flow, client, sub, scope
          issued     \* history: number of pairs per flow

storeVars == <<known, pending, chain, code>>
flowVars  == <<fclient, fscopes>>
handlerVars == <<hpc, hrec, ask, got>>
history   == <<logins, consents, pairs, issued>>
vars == <<storeVars, flowVars, handlerVars, granted, history>>

NoRec == [flow |-> NoFlow, sub |-> NoUser, todo |-> <<>>]
Rec   == [flow : Flows \cup {NoFlow}, sub : Users \cup {NoUser}, todo : Seq(Services)]
Steps == {"idle", "exchange", "todo", "chain", "finish"}

TypeOK == /\ known \in SUBSET Clients
          /\ pending \in SUBSET Flows
          /\ chain \in SUBSET Rec
          /\ code \in SUBSET [flow : Flows, sub : Users, scope : SUBSET Services]
          /\ fclient \in [Flows -> Clients \cup {NoClient}]
          /\ fscopes \in [Flows -> Seq(Services)]
          /\ hpc \in [Handlers -> Steps]
          /\ hrec \in [Handlers -> Rec]
          /\ ask \in [Handlers -> Seq(Services)]
          /\ got \in [Handlers -> SUBSET Services]
          /\ granted \in SUBSET consents
          /\ issued \in [Flows -> Nat]

Init == /\ known = {} /\ pending = {} /\ chain = {} /\ code = {}
        /\ fclient = [f \in Flows |-> NoClient]
        /\ fscopes = [f \in Flows |-> <<>>]
        /\ hpc = [h \in Handlers |-> "idle"]
        /\ hrec = [h \in Handlers |-> NoRec]
        /\ ask = [h \in Handlers |-> <<>>]
        /\ got = [h \in Handlers |-> {}]
        /\ granted = {}
        /\ logins = {} /\ consents = {} /\ pairs = {}
        /\ issued = [f \in Flows |-> 0]

Granted(u, s) == <<u, s>> \in granted

(* Handler h goes on with rec; two of its steps first walk the scopes. *)
Goto(h, step, rec) ==
    /\ hpc' = [hpc EXCEPT ![h] = step]
    /\ hrec' = [hrec EXCEPT ![h] = rec]
    /\ ask' = [ask EXCEPT ![h] = IF step \in {"todo", "finish"} THEN fscopes[rec.flow] ELSE <<>>]
    /\ got' = [got EXCEPT ![h] = {}]
Done(h) == Goto(h, "idle", NoRec)
----------------------------------------------------------------------------
(* POST /oauth/register with acceptable redirect URIs. *)
Register(c) ==
    /\ c \notin known
    /\ known' = known \cup {c}
    /\ UNCHANGED <<pending, chain, code, flowVars, handlerVars, granted, history>>

(* CLIENT_TTL runs out for a client nobody used. *)
ClientExpires(c) ==
    /\ c \in known
    /\ known' = known \ {c}
    /\ UNCHANGED <<pending, chain, code, flowVars, handlerVars, granted, history>>

(* GET /oauth/authorize by a known client, redirect URI, scopes and PKCE   *)
(* in order: the client's TTL is renewed and the request is pending.       *)
(* Anything else is an error answer that changes nothing.                  *)
Authorize(f, c, scopes) ==
    /\ fclient[f] = NoClient
    /\ c \in known
    /\ fclient' = [fclient EXCEPT ![f] = c]
    /\ fscopes' = [fscopes EXCEPT ![f] = scopes]
    /\ pending' = pending \cup {f}
    /\ UNCHANGED <<known, chain, code, handlerVars, granted, history>>

PendingExpires(f) ==
    /\ f \in pending
    /\ pending' = pending \ {f}
    /\ UNCHANGED <<known, chain, code, flowVars, handlerVars, granted, history>>

(* Mutant: the pending request is read, not taken. *)
AsCallbackKeeps(h, f) ==
    /\ hpc[h] = "idle"
    /\ f \in pending
    /\ Goto(h, "exchange", [NoRec EXCEPT !.flow = f])
    /\ UNCHANGED <<storeVars, flowVars, granted, history>>

(* GET /oauth/as-callback: the pending request is taken. *)
AsCallback(h, f) ==
    /\ hpc[h] = "idle"
    /\ f \in pending
    /\ pending' = pending \ {f}
    /\ Goto(h, "exchange", [NoRec EXCEPT !.flow = f])
    /\ UNCHANGED <<known, chain, code, flowVars, granted, history>>

(* The code exchange with Dex names u, and u is provisioned in LiteLLM.    *)
LoginSucceeds(h, u) ==
    /\ hpc[h] = "exchange"
    /\ Goto(h, "todo", [hrec[h] EXCEPT !.sub = u])
    /\ logins' = logins \cup {<<hrec[h].flow, u>>}
    /\ UNCHANGED <<storeVars, flowVars, granted, consents, pairs, issued>>

(* The exchange raised, no email, no Dex refresh token, or provisioning    *)
(* failed: the ceremony ends and the client starts again.                  *)
LoginFails(h) ==
    /\ hpc[h] = "exchange"
    /\ Done(h)
    /\ UNCHANGED <<storeVars, flowVars, granted, history>>

(* The next requested service is looked up, in the order of the request;   *)
(* the ones without a grant are to do.                                     *)
LookTodo(h) ==
    LET s == Head(ask[h])
    IN  /\ hpc[h] = "todo"
        /\ ask[h] # <<>>
        /\ ask' = [ask EXCEPT ![h] = Tail(@)]
        /\ hrec' = [hrec EXCEPT ![h].todo = IF Granted(hrec[h].sub, s) THEN @ ELSE Append(@, s)]
        /\ UNCHANGED <<storeVars, flowVars, hpc, got, granted, history>>

ComputeTodo(h) ==
    /\ hpc[h] = "todo"
    /\ ask[h] = <<>>
    /\ Goto(h, IF hrec[h].todo = <<>> THEN "finish" ELSE "chain", hrec[h])
    /\ UNCHANGED <<storeVars, flowVars, granted, history>>

(* Mutant: what is left is derived again from the grants. *)
SkipRederives(h, rec) == Goto(h, "todo", [rec EXCEPT !.todo = <<>>])

(* _skip_and_continue: the next service without a grant, or the code. *)
SkipAndContinue(h, rec) ==
    LET rest == Tail(rec.todo)
    IN  Goto(h, IF rest = <<>> THEN "finish" ELSE "chain", [rec EXCEPT !.todo = rest])

(* _chain_next: the browser is sent to the broker of the first service.    *)
ChainNext(h) ==
    /\ hpc[h] = "chain"
    /\ chain' = chain \cup {hrec[h]}
    /\ Done(h)
    /\ UNCHANGED <<known, pending, code, flowVars, granted, history>>

(* The broker cannot be registered at: its scope is skipped. *)
BrokerDown(h) ==
    /\ hpc[h] = "chain"
    /\ SkipAndContinue(h, hrec[h])
    /\ UNCHANGED <<storeVars, flowVars, granted, history>>

(* At the broker: the user consents and the broker stores the grant. *)
Consent(rec) ==
    /\ rec \in chain
    /\ granted' = granted \cup {<<rec.sub, rec.todo[1]>>}
    /\ consents' = consents \cup {<<rec.sub, rec.todo[1]>>}
    /\ UNCHANGED <<storeVars, flowVars, handlerVars, logins, pairs, issued>>

(* GET /oauth/broker-callback, with a code or with an error. *)
BrokerCallback(h, rec) ==
    /\ hpc[h] = "idle"
    /\ rec \in chain
    /\ chain' = chain \ {rec}
    /\ SkipAndContinue(h, rec)
    /\ UNCHANGED <<known, pending, code, flowVars, granted, history>>

ChainExpires(rec) ==
    /\ rec \in chain
    /\ chain' = chain \ {rec}
    /\ UNCHANGED <<known, pending, code, flowVars, handlerVars, granted, history>>

(* Mutant: the scopes looked up are the ones asked for. *)
LookScopeTrusts(h) ==
    /\ hpc[h] = "finish"
    /\ ask[h] # <<>>
    /\ ask' = [ask EXCEPT ![h] = Tail(@)]
    /\ got' = [got EXCEPT ![h] = @ \cup {Head(ask[h])}]
    /\ UNCHANGED <<storeVars, flowVars, hpc, hrec, granted, history>>

(* scopes_for: the next requested service is looked up again. *)
LookScope(h) ==
    LET s == Head(ask[h])
    IN  /\ hpc[h] = "finish"
        /\ ask[h] # <<>>
        /\ ask' = [ask EXCEPT ![h] = Tail(@)]
        /\ got' = [got EXCEPT ![h] = IF Granted(hrec[h].sub, s) THEN @ \cup {s} ELSE @]
        /\ UNCHANGED <<storeVars, flowVars, hpc, hrec, granted, history>>

(* _finish: the code carries the requested services found granted.         *)
Finish(h) ==
    /\ hpc[h] = "finish"
    /\ ask[h] = <<>>
    /\ code' = code \cup {[flow |-> hrec[h].flow, sub |-> hrec[h].sub, scope |-> got[h]]}
    /\ Done(h)
    /\ UNCHANGED <<known, pending, chain, flowVars, granted, history>>

(* The replica running h dies. *)
HandlerDies(h) ==
    /\ hpc[h] # "idle"
    /\ Done(h)
    /\ UNCHANGED <<storeVars, flowVars, granted, history>>

(* Mutant: the client of the code is not compared. *)
RedeemAnyClient(k, c, proved) ==
    /\ k \in code
    /\ code' = code \ {k}
    /\ pairs' = pairs \cup {[flow |-> k.flow, client |-> c, sub |-> k.sub, scope |-> k.scope]}
    /\ issued' = [issued EXCEPT ![k.flow] = @ + 1]
    /\ UNCHANGED <<known, pending, chain, flowVars, handlerVars, granted, logins, consents>>

(* POST /oauth/token, authorization_code: the code is taken first; another *)
(* client, redirect URI or PKCE verifier (~proved) gets nothing and has    *)
(* burnt it.                                                               *)
Redeem(k, c, proved) ==
    /\ k \in code
    /\ code' = code \ {k}
    /\ IF c = fclient[k.flow] /\ proved
         THEN /\ pairs' = pairs \cup {[flow |-> k.flow, client |-> c, sub |-> k.sub,
                                       scope |-> k.scope]}
              /\ issued' = [issued EXCEPT ![k.flow] = @ + 1]
         ELSE UNCHANGED <<pairs, issued>>
    /\ UNCHANGED <<known, pending, chain, flowVars, handlerVars, granted, logins, consents>>

CodeExpires(k) ==
    /\ k \in code
    /\ code' = code \ {k}
    /\ UNCHANGED <<known, pending, chain, flowVars, handlerVars, granted, history>>

(* A user revokes a grant at the broker. *)
Revoke(u, s) ==
    /\ Granted(u, s)
    /\ granted' = granted \ {<<u, s>>}
    /\ UNCHANGED <<storeVars, flowVars, handlerVars, history>>

Step(h) == \/ \E u \in Users : LoginSucceeds(h, u)
           \/ LoginFails(h) \/ LookTodo(h) \/ ComputeTodo(h) \/ ChainNext(h) \/ BrokerDown(h)
           \/ LookScope(h) \/ Finish(h) \/ HandlerDies(h)

Return(rec) == (\E h \in Handlers : BrokerCallback(h, rec)) \/ ChainExpires(rec)

Next == \/ \E c \in Clients : Register(c) \/ ClientExpires(c)
        \/ \E f \in Flows, c \in Clients, scopes \in Scopes : Authorize(f, c, scopes)
        \/ \E f \in Flows : PendingExpires(f) \/ \E h \in Handlers : AsCallback(h, f)
        \/ \E h \in Handlers : Step(h)
        \/ \E rec \in chain : Consent(rec) \/ Return(rec)
        \/ \E k \in code, c \in Clients, proved \in BOOLEAN : Redeem(k, c, proved)
        \/ \E k \in code : CodeExpires(k)
        \/ \E u \in Users, s \in Services : Revoke(u, s)

Spec == Init /\ [][Next]_vars

(* A handler is never stuck at an await; a pending or chain record is      *)
(* followed by its browser or expires.                                     *)
FairSpec ==
    /\ Spec
    /\ \A h \in Handlers : WF_vars(Step(h))
    /\ \A f \in Flows : WF_vars(PendingExpires(f))
    /\ WF_vars(\E rec \in chain : Return(rec))
----------------------------------------------------------------------------
(* One authorization request yields at most one token pair, however often  *)
(* the browser repeats a callback and the client its redemption.           *)
OnePairPerAuthorization == \A f \in Flows : issued[f] <= 1

(* A pair goes to the client that asked, for a person who logged in at Dex *)
(* in that very ceremony.                                                  *)
PairIsTheCeremonys ==
    \A p \in pairs : p.client = fclient[p.flow] /\ <<p.flow, p.sub>> \in logins

(* "An error means the user declined: the token is issued without that     *)
(* scope": a pair never names a service its user did not consent to, nor   *)
(* one that was not asked for, though the grants change under the chain.   *)
DeclinedIsLeftOut ==
    \A p \in pairs : \A s \in p.scope :
        /\ \E i \in DOMAIN fscopes[p.flow] : fscopes[p.flow][i] = s
        /\ <<p.sub, s>> \in consents

InProgress(f) == \/ f \in pending
                 \/ \E rec \in chain : rec.flow = f
                 \/ \E h \in Handlers : hrec[h].flow = f

(* Every ceremony ends: declining, revoking or a broker that is down never *)
(* sends the browser round the chain for ever.                             *)
CeremonyEnds == \A f \in Flows : InProgress(f) ~> ~InProgress(f)
=============================================================================
