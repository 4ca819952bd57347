-------------------------- MODULE TokenPathProofs --------------------------
(***************************************************************************)
(* Proofs about the way of an access token: the ceremony that issues it    *)
(* (AuthCode), the proxy that maps it to a LiteLLM key (Gateway) and the   *)
(* cache that holds the key (KeyCache), for any number of authorization    *)
(* requests, handlers, users, services, headers, checks and goroutines.    *)
(***************************************************************************)
EXTENDS AuthCode, Gateway, KeyCache, FiniteSetTheorems, WellFoundedInduction, TLAPS

USE CodeAssumption

(* The record of an idle handler. *)
LEMMA NoRecIsRec == NoRec \in Rec
  BY DEF NoRec, Rec

(* The services a list names. *)
Named(f) == {fscopes[f][i] : i \in DOMAIN fscopes[f]}

(* A flow's request, and every walk over it, is a list of services of the  *)
(* request: what is still to look up, and what was found granted.          *)
WalkInv ==
    \A h \in Handlers : hpc[h] = "finish" =>
        /\ \A i \in DOMAIN ask[h] : ask[h][i] \in Named(hrec[h].flow)
        /\ got[h] \subseteq Named(hrec[h].flow)
        /\ \A s \in got[h] : <<hrec[h].sub, s>> \in consents

----------------------------------------------------------------------------
(* The ceremony of a flow is in one place at a time: not begun, pending,   *)
(* in the hands of one handler, in one chain record, in one code, or over. *)
Holds(h, f) == hpc[h] # "idle" /\ hrec[h].flow = f
Chained(f)  == \E rec \in chain : rec.flow = f
Coded(f)    == \E k \in code : k.flow = f

Unbegun(f)  == f \notin pending /\ (\A h \in Handlers : ~Holds(h, f))
               /\ ~Chained(f) /\ ~Coded(f) /\ issued[f] = 0

InOnePlace(f) ==
    /\ fclient[f] = NoClient => Unbegun(f)
    /\ f \in pending => (\A h \in Handlers : ~Holds(h, f)) /\ ~Chained(f) /\ ~Coded(f)
                       /\ issued[f] = 0
    /\ \A h \in Handlers : Holds(h, f) => ~Chained(f) /\ ~Coded(f) /\ issued[f] = 0
    /\ \A g, h \in Handlers : Holds(g, f) /\ Holds(h, f) => g = h
    /\ Chained(f) => ~Coded(f) /\ issued[f] = 0
    /\ Coded(f) => issued[f] = 0
    /\ issued[f] <= 1

OncePerFlow ==
    /\ \A f \in Flows : InOnePlace(f)
    /\ \A r1, r2 \in chain : r1.flow = r2.flow => r1 = r2
    /\ \A k1, k2 \in code : k1.flow = k2.flow => k1 = k2

(* A handler at work has a flow; past the login it has the person who      *)
(* logged in for it, and at the chain a service to go to.                  *)
HandlerInv ==
    \A h \in Handlers : hpc[h] # "idle" =>
        /\ hrec[h].flow \in Flows
        /\ hpc[h] # "exchange" => hrec[h].sub \in Users /\ <<hrec[h].flow, hrec[h].sub>> \in logins
        /\ hpc[h] = "chain" => hrec[h].todo # <<>>

(* A browser sent to a broker is sent to the first of at least one service *)
(* (todo[0]), for the person who logged in.                                *)
ChainInv ==
    \A rec \in chain : /\ rec.flow \in Flows /\ rec.sub \in Users
                       /\ <<rec.flow, rec.sub>> \in logins
                       /\ rec.todo # <<>>

(* What a code or a pair carries was asked for and consented to. *)
Proper(k) == /\ k.flow \in Flows
             /\ fclient[k.flow] # NoClient
             /\ <<k.flow, k.sub>> \in logins
             /\ k.scope \subseteq Named(k.flow)
             /\ \A s \in k.scope : <<k.sub, s>> \in consents

CeremonyInv == /\ \A k \in code : Proper(k)
               /\ \A p \in pairs : Proper(p) /\ p.client = fclient[p.flow]

IInv == TypeOK /\ OncePerFlow /\ HandlerInv /\ ChainInv /\ WalkInv /\ CeremonyInv

(* The initial states satisfy the inductive invariant. *)
LEMMA InitIInv == Init => IInv
<1> SUFFICES ASSUME Init PROVE IInv
  OBVIOUS
<1>1. NoRec \in Rec
  BY NoRecIsRec
<1>2. TypeOK
  BY <1>1 DEF Init, TypeOK, Steps
<1>3. OncePerFlow
  BY DEF Init, OncePerFlow, InOnePlace, Unbegun, Holds, Chained, Coded
<1>4. HandlerInv /\ ChainInv /\ WalkInv /\ CeremonyInv
  BY DEF Init, HandlerInv, ChainInv, WalkInv, CeremonyInv
<1> QED
  BY <1>2, <1>3, <1>4 DEF IInv

(* What a handler's move changes, handler by handler. *)
LEMMA GotoMoves ==
  ASSUME TypeOK, NEW h \in Handlers, NEW step, NEW rec, Goto(h, step, rec)
  PROVE  /\ hpc'[h] = step /\ hrec'[h] = rec /\ got'[h] = {}
         /\ step \in {"todo", "finish"} => ask'[h] = fscopes[rec.flow]
         /\ \A g \in Handlers \ {h} : /\ hpc'[g] = hpc[g] /\ hrec'[g] = hrec[g]
                                      /\ ask'[g] = ask[g] /\ got'[g] = got[g]
  BY DEF Goto, TypeOK

(* A look at the grants leaves the flow and the person of every handler.   *)
LEMMA LookKeeps ==
  ASSUME TypeOK, NEW h \in Handlers, LookTodo(h) \/ LookScope(h)
  PROVE  /\ hpc' = hpc /\ hpc[h] \in {"todo", "finish"}
         /\ \A g \in Handlers : hrec'[g].flow = hrec[g].flow /\ hrec'[g].sub = hrec[g].sub
         /\ \A g \in Handlers \ {h} : hrec'[g] = hrec[g] /\ ask'[g] = ask[g] /\ got'[g] = got[g]
         /\ UNCHANGED <<storeVars, flowVars, granted, history>>
<1>1. CASE LookTodo(h)
  <2> DEFINE t == IF Granted(hrec[h].sub, Head(ask[h])) THEN hrec[h].todo
                  ELSE Append(hrec[h].todo, Head(ask[h]))
  <2>1. /\ hrec' = [hrec EXCEPT ![h] = [hrec[h] EXCEPT !.todo = t]]
        /\ ask' = [ask EXCEPT ![h] = Tail(ask[h])]
        /\ hpc' = hpc /\ hpc[h] = "todo"
        /\ UNCHANGED <<storeVars, flowVars, got, granted, history>>
    BY <1>1 DEF LookTodo
  <2> HIDE DEF t
  <2>2. /\ [hrec[h] EXCEPT !.todo = t].flow = hrec[h].flow
        /\ [hrec[h] EXCEPT !.todo = t].sub = hrec[h].sub
    BY DEF TypeOK, Rec
  <2> QED
    BY <2>1, <2>2 DEF TypeOK
<1>2. CASE LookScope(h)
  BY <1>2 DEF LookScope, TypeOK
<1> QED
  BY <1>1, <1>2

(* The step of a handler keeps the types; a todo stays a todo. *)
LEMMA StepType == IInv /\ [Next]_vars => TypeOK'
<1> SUFFICES ASSUME IInv, [Next]_vars PROVE TypeOK'
  OBVIOUS
<1> USE DEF TypeOK, Steps, storeVars, flowVars, handlerVars, history
<1>0. TypeOK /\ HandlerInv /\ ChainInv
  BY DEF IInv
<1>1. NoRec \in Rec
  BY NoRecIsRec
<1> DEFINE HandlersTyped == /\ hpc \in [Handlers -> Steps]
                            /\ hrec \in [Handlers -> Rec]
                            /\ ask \in [Handlers -> Seq(Services)]
                            /\ got \in [Handlers -> SUBSET Services]
<1>2. ASSUME NEW h \in Handlers, NEW step \in Steps, NEW rec \in Rec, Goto(h, step, rec),
             step \in {"todo", "finish"} => rec.flow \in Flows
      PROVE  HandlersTyped'
  <2>1. (IF step \in {"todo", "finish"} THEN fscopes[rec.flow] ELSE <<>>) \in Seq(Services)
    BY <1>0, <1>2
  <2> QED
    BY <1>0, <1>2, <2>1 DEF Goto
<1>3. ASSUME NEW h \in Handlers, Done(h) PROVE HandlersTyped'
  BY <1>1, <1>2, <1>3 DEF Done
<1>4. ASSUME NEW h \in Handlers, NEW rec \in Rec, rec.flow \in Flows, rec.todo # <<>>,
             SkipAndContinue(h, rec)
      PROVE  HandlersTyped'
  <2> DEFINE rest == Tail(rec.todo)
  <2>0. rest \in Seq(Services)
    BY <1>4 DEF Rec
  <2> HIDE DEF rest
  <2>1. [rec EXCEPT !.todo = rest] \in Rec /\ [rec EXCEPT !.todo = rest].flow \in Flows
    BY <1>4, <2>0 DEF Rec
  <2> USE DEF rest
  <2> QED
    BY <1>2, <1>4, <2>1 DEF SkipAndContinue
<1>5. ASSUME NEW c \in Clients, Register(c) \/ ClientExpires(c) PROVE TypeOK'
  BY <1>0, <1>5 DEF Register, ClientExpires
<1>6. ASSUME NEW f \in Flows, NEW c \in Clients, NEW scopes \in Scopes,
             Authorize(f, c, scopes)
      PROVE  TypeOK'
  BY <1>0, <1>6, ScopesAssumption DEF Authorize
<1>7. ASSUME NEW f \in Flows, PendingExpires(f) PROVE TypeOK'
  BY <1>0, <1>7 DEF PendingExpires
<1>8. ASSUME NEW f \in Flows, NEW h \in Handlers, AsCallback(h, f) PROVE TypeOK'
  <2>1. [NoRec EXCEPT !.flow = f] \in Rec
    BY <1>1 DEF Rec
  <2> QED
    BY <1>0, <1>2, <1>8, <2>1 DEF AsCallback
<1>9. ASSUME NEW h \in Handlers, NEW u \in Users, LoginSucceeds(h, u) PROVE TypeOK'
  <2>1. [hrec[h] EXCEPT !.sub = u] \in Rec /\ [hrec[h] EXCEPT !.sub = u].flow \in Flows
    <3>1. hrec[h] \in Rec /\ hrec[h].flow \in Flows
      BY <1>0, <1>9 DEF LoginSucceeds, HandlerInv
    <3> QED
      BY <3>1 DEF Rec
  <2> QED
    BY <1>0, <1>2, <1>9, <2>1 DEF LoginSucceeds
<1>10. ASSUME NEW h \in Handlers, LoginFails(h) \/ HandlerDies(h) PROVE TypeOK'
  BY <1>0, <1>3, <1>10 DEF LoginFails, HandlerDies
<1>11. ASSUME NEW h \in Handlers, ComputeTodo(h) PROVE TypeOK'
  <2>1. hrec[h].flow \in Flows /\ hrec[h] \in Rec
    BY <1>0, <1>11 DEF ComputeTodo, HandlerInv
  <2> QED
    BY <1>0, <1>2, <1>11, <2>1 DEF ComputeTodo
<1>22. ASSUME NEW h \in Handlers, LookTodo(h) PROVE TypeOK'
  <2> DEFINE s == Head(ask[h])
             todo == IF Granted(hrec[h].sub, s) THEN hrec[h].todo ELSE Append(hrec[h].todo, s)
  <2>1. s \in Services /\ Tail(ask[h]) \in Seq(Services)
    BY <1>0, <1>22 DEF LookTodo
  <2>2. hrec[h] \in Rec /\ hrec[h].todo \in Seq(Services) /\ todo \in Seq(Services)
    BY <1>0, <2>1 DEF Rec
  <2>3. hrec' = [hrec EXCEPT ![h] = [hrec[h] EXCEPT !.todo = todo]]
    BY <1>22 DEF LookTodo
  <2>4. [hrec[h] EXCEPT !.todo = todo] \in Rec
    BY <2>2 DEF Rec
  <2>5. hrec' \in [Handlers -> Rec]
    BY <1>0, <2>3, <2>4
  <2> QED
    BY <1>0, <1>22, <2>1, <2>5 DEF LookTodo
<1>23. ASSUME NEW h \in Handlers, LookScope(h) PROVE TypeOK'
  <2>1. Head(ask[h]) \in Services /\ Tail(ask[h]) \in Seq(Services)
    BY <1>0, <1>23 DEF LookScope
  <2> QED
    BY <1>0, <1>23, <2>1 DEF LookScope
<1>12. ASSUME NEW h \in Handlers, ChainNext(h) PROVE TypeOK'
  BY <1>0, <1>3, <1>12 DEF ChainNext
<1>13. ASSUME NEW h \in Handlers, BrokerDown(h) PROVE TypeOK'
  BY <1>0, <1>4, <1>13 DEF BrokerDown, HandlerInv
<1>14. ASSUME NEW h \in Handlers, Finish(h) PROVE TypeOK'
  <2>1. hrec[h].flow \in Flows /\ hrec[h].sub \in Users
    BY <1>0, <1>14 DEF Finish, HandlerInv
  <2> QED
    BY <1>0, <1>3, <1>14, <2>1 DEF Finish
<1>15. ASSUME NEW rec \in chain, Consent(rec) PROVE TypeOK'
  BY <1>0, <1>15 DEF Consent
<1>16. ASSUME NEW rec \in chain, NEW h \in Handlers, BrokerCallback(h, rec) PROVE TypeOK'
  BY <1>0, <1>4, <1>16 DEF BrokerCallback, ChainInv
<1>17. ASSUME NEW rec \in chain, ChainExpires(rec) PROVE TypeOK'
  BY <1>0, <1>17 DEF ChainExpires
<1>18. ASSUME NEW k \in code, NEW c \in Clients, NEW proved \in BOOLEAN, Redeem(k, c, proved)
       PROVE  TypeOK'
  <2>1. k.flow \in Flows /\ code' \subseteq code /\ issued \in [Flows -> Nat]
    BY <1>0, <1>18 DEF Redeem
  <2>2. issued' = [issued EXCEPT ![k.flow] = @ + 1] \/ issued' = issued
    BY <1>18 DEF Redeem
  <2>3. issued' \in [Flows -> Nat]
    BY <2>1, <2>2
  <2> QED
    BY <1>0, <1>18, <2>1, <2>3 DEF Redeem
<1>19. ASSUME NEW k \in code, CodeExpires(k) PROVE TypeOK'
  BY <1>0, <1>19 DEF CodeExpires
<1>20. ASSUME NEW u \in Users, NEW s \in Services, Revoke(u, s) PROVE TypeOK'
  BY <1>0, <1>20 DEF Revoke
<1>21. CASE UNCHANGED vars
  BY <1>0, <1>21 DEF vars
<1> QED
  BY <1>5, <1>6, <1>7, <1>8, <1>9, <1>10, <1>11, <1>12, <1>13, <1>14, <1>15, <1>16, <1>17,
     <1>18, <1>19, <1>20, <1>21, <1>22, <1>23 DEF Next, Step, Return

(* Every step leaves a flow in one place: a store record is taken by the   *)
(* one who moves the flow on, and a place is filled only by who holds it.  *)
LEMMA StepOncePerFlow == IInv /\ [Next]_vars => OncePerFlow'
<1> SUFFICES ASSUME IInv, [Next]_vars PROVE OncePerFlow'
  OBVIOUS
<1> USE DEF OncePerFlow, InOnePlace, Unbegun, Holds, Chained, Coded, storeVars, flowVars,
            handlerVars, history
<1>0. TypeOK /\ OncePerFlow /\ HandlerInv /\ ChainInv /\ CeremonyInv
  BY DEF IInv
<1>1. ASSUME NEW c \in Clients, Register(c) \/ ClientExpires(c) PROVE OncePerFlow'
  BY <1>0, <1>1 DEF Register, ClientExpires
<1>2. ASSUME NEW f \in Flows, NEW c \in Clients, NEW scopes \in Scopes,
             Authorize(f, c, scopes)
      PROVE  OncePerFlow'
  BY <1>0, <1>2 DEF Authorize, TypeOK
<1>3. ASSUME NEW f \in Flows, PendingExpires(f) PROVE OncePerFlow'
  BY <1>0, <1>3 DEF PendingExpires
<1>4. ASSUME NEW f \in Flows, NEW h \in Handlers, AsCallback(h, f) PROVE OncePerFlow'
  BY <1>0, <1>4 DEF AsCallback, Goto, NoRec, TypeOK
<1>5. ASSUME NEW h \in Handlers, hpc[h] # "idle", hpc'[h] # "idle", hrec'[h].flow = hrec[h].flow,
             \A g \in Handlers \ {h} : hpc'[g] = hpc[g] /\ hrec'[g] = hrec[g],
             UNCHANGED <<storeVars, flowVars, issued>>
      PROVE  OncePerFlow'
  BY <1>0, <1>5
<1>6. ASSUME NEW h \in Handlers, NEW u \in Users, LoginSucceeds(h, u) PROVE OncePerFlow'
  BY <1>0, <1>5, <1>6 DEF LoginSucceeds, Goto, TypeOK, Rec
<1>7. ASSUME NEW h \in Handlers, Done(h), UNCHANGED <<storeVars, flowVars, issued>>
      PROVE  OncePerFlow'
  BY <1>0, <1>7 DEF Done, Goto, TypeOK
<1>8. ASSUME NEW h \in Handlers, LoginFails(h) \/ HandlerDies(h) PROVE OncePerFlow'
  BY <1>7, <1>8 DEF LoginFails, HandlerDies
<1>9. ASSUME NEW h \in Handlers, LookTodo(h) \/ ComputeTodo(h) \/ LookScope(h)
      PROVE  OncePerFlow'
  <2>1. CASE LookTodo(h) \/ LookScope(h)
    BY <1>0, <1>5, <2>1, LookKeeps
  <2>2. CASE ComputeTodo(h)
    BY <1>0, <1>5, <2>2, GotoMoves DEF ComputeTodo
  <2> QED
    BY <1>9, <2>1, <2>2
<1>10. ASSUME NEW h \in Handlers, ChainNext(h) PROVE OncePerFlow'
  <2> DEFINE F == hrec[h].flow
  <2>1. F \in Flows /\ Holds(h, F) /\ fclient[F] # NoClient
    BY <1>0, <1>10 DEF ChainNext, HandlerInv
  <2>2. /\ chain' = chain \cup {hrec[h]} /\ UNCHANGED <<pending, code, fclient, issued>>
        /\ hpc'[h] = "idle"
        /\ \A g \in Handlers \ {h} : hpc'[g] = hpc[g] /\ hrec'[g] = hrec[g]
    BY <1>0, <1>10 DEF ChainNext, Done, Goto, TypeOK
  <2>3. \A f \in Flows : InOnePlace(f)'
    BY <1>0, <2>1, <2>2
  <2> QED
    BY <1>0, <2>1, <2>2, <2>3
<1>11. ASSUME NEW h \in Handlers, BrokerDown(h) PROVE OncePerFlow'
  BY <1>0, <1>5, <1>11 DEF BrokerDown, SkipAndContinue, Goto, TypeOK, Rec
<1>12. ASSUME NEW h \in Handlers, Finish(h) PROVE OncePerFlow'
  <2> DEFINE F == hrec[h].flow
  <2>1. F \in Flows /\ Holds(h, F) /\ fclient[F] # NoClient
    BY <1>0, <1>12 DEF Finish, HandlerInv
  <2> DEFINE k == [flow |-> F, sub |-> hrec[h].sub, scope |-> got[h]]
  <2>2. code' = code \cup {k} /\ k.flow = F
    BY <1>12 DEF Finish
  <2>3. /\ UNCHANGED <<pending, chain, fclient, issued>> /\ hpc'[h] = "idle"
        /\ \A g \in Handlers \ {h} : hpc'[g] = hpc[g] /\ hrec'[g] = hrec[g]
    BY <1>0, <1>12 DEF Finish, Done, Goto, TypeOK
  <2> HIDE DEF k
  <2>4. \A f \in Flows : InOnePlace(f)'
    BY <1>0, <2>1, <2>2, <2>3
  <2> QED
    BY <1>0, <2>1, <2>2, <2>3, <2>4
<1>13. ASSUME NEW rec \in chain, Consent(rec) \/ ChainExpires(rec) PROVE OncePerFlow'
  BY <1>0, <1>13 DEF Consent, ChainExpires
<1>14. ASSUME NEW rec \in chain, NEW h \in Handlers, BrokerCallback(h, rec) PROVE OncePerFlow'
  BY <1>0, <1>14 DEF BrokerCallback, SkipAndContinue, Goto, TypeOK, Rec, ChainInv
<1>15. ASSUME NEW k \in code, NEW c \in Clients, NEW proved \in BOOLEAN, Redeem(k, c, proved)
       PROVE  OncePerFlow'
  <2>1. k.flow \in Flows /\ issued[k.flow] = 0 /\ issued \in [Flows -> Nat]
    BY <1>0, <1>15 DEF TypeOK
  <2>2. /\ code' = code \ {k} /\ UNCHANGED <<pending, chain, flowVars, handlerVars>>
        /\ issued' = [issued EXCEPT ![k.flow] = @ + 1] \/ issued' = issued
    BY <1>15 DEF Redeem
  <2> QED
    BY <1>0, <1>15, <2>1, <2>2
<1>16. ASSUME NEW k \in code, CodeExpires(k) PROVE OncePerFlow'
  BY <1>0, <1>16 DEF CodeExpires
<1>17. ASSUME NEW u \in Users, NEW s \in Services, Revoke(u, s) PROVE OncePerFlow'
  BY <1>0, <1>17 DEF Revoke
<1>18. CASE UNCHANGED vars
  BY <1>0, <1>18 DEF vars
<1> QED
  BY <1>1, <1>2, <1>3, <1>4, <1>6, <1>8, <1>9, <1>10, <1>11, <1>12, <1>13, <1>14, <1>15,
     <1>16, <1>17, <1>18 DEF Next, Step, Return

(* Every step keeps a handler with the flow and the person of the record   *)
(* it took, and never sends a browser to a broker with nothing left to do. *)
LEMMA StepRecords == IInv /\ [Next]_vars => HandlerInv' /\ ChainInv'
<1> SUFFICES ASSUME IInv, [Next]_vars PROVE HandlerInv' /\ ChainInv'
  OBVIOUS
<1> USE DEF HandlerInv, ChainInv, storeVars, flowVars, handlerVars, history
<1>0. TypeOK /\ HandlerInv /\ ChainInv
  BY DEF IInv
<1>1. ASSUME NEW h \in Handlers, ChainNext(h) PROVE HandlerInv' /\ ChainInv'
  BY <1>0, <1>1 DEF ChainNext, Done, Goto, TypeOK
<1>2. ASSUME NEW f \in Flows, NEW h \in Handlers, AsCallback(h, f)
      PROVE  HandlerInv' /\ ChainInv'
  BY <1>0, <1>2 DEF AsCallback, Goto, NoRec, TypeOK
<1>3. ASSUME NEW h \in Handlers, NEW u \in Users, LoginSucceeds(h, u)
      PROVE  HandlerInv' /\ ChainInv'
  BY <1>0, <1>3 DEF LoginSucceeds, Goto, TypeOK, Rec
<1>4. ASSUME NEW h \in Handlers, LookTodo(h) \/ ComputeTodo(h) \/ LookScope(h)
      PROVE  HandlerInv' /\ ChainInv'
  <2>1. CASE LookTodo(h) \/ LookScope(h)
    BY <1>0, <2>1, LookKeeps
  <2>2. CASE ComputeTodo(h)
    BY <1>0, <2>2, GotoMoves DEF ComputeTodo
  <2> QED
    BY <1>4, <2>1, <2>2
<1>5. ASSUME NEW h \in Handlers, BrokerDown(h) PROVE HandlerInv' /\ ChainInv'
  BY <1>0, <1>5 DEF BrokerDown, SkipAndContinue, Goto, TypeOK, Rec
<1>6. ASSUME NEW rec \in chain, NEW h \in Handlers, BrokerCallback(h, rec)
      PROVE  HandlerInv' /\ ChainInv'
  BY <1>0, <1>6 DEF BrokerCallback, SkipAndContinue, Goto, TypeOK, Rec
<1>7. ASSUME NEW h \in Handlers, LoginFails(h) \/ HandlerDies(h) \/ Finish(h)
      PROVE  HandlerInv' /\ ChainInv'
  <2>1. Done(h) /\ UNCHANGED <<chain, logins>>
    BY <1>7 DEF LoginFails, HandlerDies, Finish
  <2> QED
    BY <1>0, <2>1 DEF Done, Goto, TypeOK
<1>8. ASSUME hpc' = hpc, hrec' = hrec, chain' \subseteq chain, logins' = logins
      PROVE  HandlerInv' /\ ChainInv'
  BY <1>0, <1>8
<1>9. CASE \E h \in Handlers : Step(h)
  BY <1>1, <1>3, <1>4, <1>5, <1>7, <1>9 DEF Step
<1>10. CASE \E rec \in chain : Consent(rec) \/ Return(rec)
  BY <1>6, <1>8, <1>10 DEF Consent, Return, ChainExpires
<1>11. CASE \E f \in Flows : PendingExpires(f) \/ \E h \in Handlers : AsCallback(h, f)
  BY <1>2, <1>8, <1>11 DEF PendingExpires
<1>12. ASSUME NEW k \in code, NEW c \in Clients, NEW proved \in BOOLEAN, Redeem(k, c, proved)
       PROVE  HandlerInv' /\ ChainInv'
  BY <1>8, <1>12 DEF Redeem
<1>13. CASE \/ \E c \in Clients : Register(c) \/ ClientExpires(c)
            \/ \E f \in Flows, c \in Clients, scopes \in Scopes : Authorize(f, c, scopes)
            \/ \E k \in code : CodeExpires(k)
            \/ \E u \in Users, s \in Services : Revoke(u, s)
            \/ UNCHANGED vars
  BY <1>8, <1>13 DEF Register, ClientExpires, Authorize, CodeExpires, Revoke, vars
<1> QED
  BY <1>9, <1>10, <1>11, <1>12, <1>13 DEF Next

(* A walk over a request stays within it, and what it finds granted was    *)
(* consented to.                                                           *)
LEMMA StepWalk == IInv /\ [Next]_vars => WalkInv'
<1> SUFFICES ASSUME IInv, [Next]_vars PROVE WalkInv'
  OBVIOUS
<1> USE DEF WalkInv, Named, storeVars, flowVars, handlerVars, history
<1>0. TypeOK /\ OncePerFlow /\ HandlerInv /\ ChainInv /\ WalkInv
  BY DEF IInv
<1>1. ASSUME NEW h \in Handlers, NEW step, NEW rec, Goto(h, step, rec), fscopes' = fscopes,
             consents' = consents
      PROVE  WalkInv'
  BY <1>0, <1>1, GotoMoves
<1>2. ASSUME NEW h \in Handlers, LookScope(h) PROVE WalkInv'
  <2> DEFINE F == hrec[h].flow
             s == Head(ask[h])
  <2>1. /\ s \in Named(F)
        /\ \A i \in DOMAIN Tail(ask[h]) : Tail(ask[h])[i] \in Named(F)
    <3>1. ask[h] \in Seq(Services) /\ ask[h] # <<>> /\ hpc[h] = "finish"
      BY <1>0, <1>2 DEF LookScope, TypeOK
    <3>2. \A i \in DOMAIN ask[h] : ask[h][i] \in Named(F)
      BY <1>0, <3>1
    <3> HIDE DEF Named, WalkInv, F
    <3>3. \A i \in 1..Len(ask[h]) : ask[h][i] \in Named(F)
      BY <3>1, <3>2
    <3> QED
      BY <3>1, <3>3
  <2>2. Granted(hrec[h].sub, s) => <<hrec[h].sub, s>> \in consents
    BY <1>0 DEF Granted, TypeOK
  <2>3. /\ ask'[h] = Tail(ask[h]) /\ hrec' = hrec
        /\ got'[h] = IF Granted(hrec[h].sub, s) THEN got[h] \cup {s} ELSE got[h]
    BY <1>0, <1>2 DEF LookScope, TypeOK
  <2>4. hpc[h] = "finish"
    BY <1>2 DEF LookScope
  <2>5. /\ hpc' = hpc /\ fscopes' = fscopes /\ consents' = consents
        /\ \A g \in Handlers \ {h} : ask'[g] = ask[g] /\ got'[g] = got[g]
    BY <1>0, <1>2, LookKeeps
  <2>6. /\ got[h] \subseteq Named(F)
        /\ \A v \in got[h] : <<hrec[h].sub, v>> \in consents
    BY <1>0, <2>4
  <2> DEFINE Walk(g) == /\ \A i \in DOMAIN ask[g] : ask[g][i] \in Named(hrec[g].flow)
                        /\ got[g] \subseteq Named(hrec[g].flow)
                        /\ \A v \in got[g] : <<hrec[g].sub, v>> \in consents
  <2>7. Walk(h)'
    <3> HIDE DEF s, WalkInv
    <3> QED
      BY <2>1, <2>2, <2>3, <2>5, <2>6
  <2>8. ASSUME NEW g \in Handlers \ {h}, hpc'[g] = "finish" PROVE Walk(g)'
    BY <1>0, <2>3, <2>5, <2>8
  <2>9. \A g \in Handlers : hpc'[g] = "finish" => Walk(g)'
    BY <2>7, <2>8
  <2> QED
    BY <2>9
<1>3. ASSUME NEW h \in Handlers, LookTodo(h) PROVE WalkInv'
  <2>1. hpc[h] = "todo"
    BY <1>3 DEF LookTodo
  <2> QED
    BY <1>0, <1>3, <2>1, LookKeeps
<1>4. ASSUME NEW f \in Flows, NEW c \in Clients, NEW scopes \in Scopes, Authorize(f, c, scopes)
      PROVE  WalkInv'
  <2>1. \A h \in Handlers : hpc[h] = "finish" => hrec[h].flow # f
    BY <1>0, <1>4 DEF Authorize, HandlerInv, OncePerFlow, InOnePlace, Unbegun, Holds
  <2> QED
    BY <1>0, <1>4, <2>1 DEF Authorize, TypeOK, HandlerInv
<1>5. ASSUME UNCHANGED <<handlerVars, fscopes>>, consents \subseteq consents' PROVE WalkInv'
  BY <1>0, <1>5
<1>6. ASSUME NEW h \in Handlers, Step(h) PROVE WalkInv'
  BY <1>1, <1>2, <1>3, <1>6 DEF Step, LoginSucceeds, LoginFails, ComputeTodo, ChainNext,
     BrokerDown, SkipAndContinue, Finish, HandlerDies, Done
<1>7. CASE \E rec \in chain : Consent(rec) \/ Return(rec)
  BY <1>1, <1>5, <1>7 DEF Consent, Return, BrokerCallback, SkipAndContinue, ChainExpires
<1>8. CASE \E f \in Flows : PendingExpires(f) \/ \E h \in Handlers : AsCallback(h, f)
  BY <1>1, <1>5, <1>8 DEF PendingExpires, AsCallback
<1>9. ASSUME NEW k \in code, NEW c \in Clients, NEW proved \in BOOLEAN, Redeem(k, c, proved)
      PROVE  WalkInv'
  BY <1>5, <1>9 DEF Redeem
<1>10. CASE \/ \E c \in Clients : Register(c) \/ ClientExpires(c)
            \/ \E k \in code : CodeExpires(k)
            \/ \E u \in Users, s \in Services : Revoke(u, s)
            \/ UNCHANGED vars
  BY <1>5, <1>10 DEF Register, ClientExpires, CodeExpires, Revoke, vars
<1> QED
  BY <1>4, <1>6, <1>7, <1>8, <1>9, <1>10 DEF Next

(* Every step keeps codes and pairs what their ceremony made them: the     *)
(* client and the services of a flow never change once it is authorized,   *)
(* logins and consents are never forgotten.                                *)
LEMMA StepCeremony == IInv /\ [Next]_vars => CeremonyInv'
<1> SUFFICES ASSUME IInv, [Next]_vars PROVE CeremonyInv'
  OBVIOUS
<1> USE DEF CeremonyInv, Proper, Named, storeVars, flowVars, handlerVars, history
<1>0. TypeOK /\ OncePerFlow /\ HandlerInv /\ WalkInv /\ CeremonyInv
  BY DEF IInv
<1>1. ASSUME NEW f \in Flows, NEW c \in Clients, NEW scopes \in Scopes,
             Authorize(f, c, scopes)
      PROVE  CeremonyInv'
  BY <1>0, <1>1 DEF Authorize, TypeOK
<1>2. ASSUME code' \subseteq code, pairs' = pairs, UNCHANGED flowVars,
             logins \subseteq logins', consents \subseteq consents'
      PROVE  CeremonyInv'
  BY <1>0, <1>2
<1>3. ASSUME NEW h \in Handlers, Finish(h) PROVE CeremonyInv'
  <2>1. /\ hrec[h].flow \in Flows /\ fclient[hrec[h].flow] # NoClient
        /\ <<hrec[h].flow, hrec[h].sub>> \in logins
    BY <1>0, <1>3 DEF Finish, HandlerInv, OncePerFlow, InOnePlace, Unbegun, Holds
  <2> DEFINE k == [flow |-> hrec[h].flow, sub |-> hrec[h].sub, scope |-> got[h]]
  <2>2. Proper(k)
    BY <1>0, <1>3, <2>1 DEF TypeOK, WalkInv, Finish
  <2>3. code' = code \cup {k} /\ UNCHANGED <<pairs, flowVars, logins, consents>>
    BY <1>3 DEF Finish
  <2> HIDE DEF k
  <2> QED
    BY <1>0, <2>2, <2>3
<1>4. ASSUME NEW k \in code, NEW c \in Clients, NEW proved \in BOOLEAN, Redeem(k, c, proved)
      PROVE  CeremonyInv'
  BY <1>0, <1>4 DEF Redeem
<1>5. ASSUME NEW h \in Handlers, Step(h) PROVE CeremonyInv'
  BY <1>2, <1>3, <1>5 DEF Step, LoginSucceeds, LoginFails, LookTodo, ComputeTodo, ChainNext,
     BrokerDown, LookScope, HandlerDies
<1>6. CASE \E rec \in chain : Consent(rec) \/ Return(rec)
  BY <1>2, <1>6 DEF Consent, Return, BrokerCallback, ChainExpires
<1>7. CASE \E f \in Flows : PendingExpires(f) \/ \E h \in Handlers : AsCallback(h, f)
  BY <1>2, <1>7 DEF PendingExpires, AsCallback
<1>8. CASE \/ \E c \in Clients : Register(c) \/ ClientExpires(c)
           \/ \E k \in code : CodeExpires(k)
           \/ \E u \in Users, s \in Services : Revoke(u, s)
           \/ UNCHANGED vars
  BY <1>2, <1>8 DEF Register, ClientExpires, CodeExpires, Revoke, vars
<1> QED
  BY <1>1, <1>4, <1>5, <1>6, <1>7, <1>8 DEF Next

(* The inductive invariant of the ceremony holds in every reachable state. *)
LEMMA Invariance == Spec => []IInv
<1>1. IInv /\ [Next]_vars => IInv'
  BY StepType, StepOncePerFlow, StepRecords, StepWalk, StepCeremony DEF IInv
<1> QED
  BY <1>1, InitIInv, PTL DEF Spec

(* Type correctness of the ceremony: records, handlers and the todo lists  *)
(* they carry.                                                             *)
THEOREM CodeTypeCorrect == Spec => []TypeOK
<1>1. IInv => TypeOK
  BY DEF IInv
<1> QED
  BY <1>1, Invariance, PTL

(* One authorization request yields at most one token pair, for any number *)
(* of handlers repeating its callbacks and of clients redeeming its code.  *)
THEOREM OnePairPerAuthorizationCorrect == Spec => []OnePairPerAuthorization
<1>1. IInv => OnePairPerAuthorization
  BY DEF IInv, OncePerFlow, InOnePlace, OnePairPerAuthorization
<1> QED
  BY <1>1, Invariance, PTL

(* A pair goes to the client that asked, for a person who logged in in     *)
(* that ceremony.                                                          *)
THEOREM PairIsTheCeremonysCorrect == Spec => []PairIsTheCeremonys
<1>1. IInv => PairIsTheCeremonys
  BY DEF IInv, CeremonyInv, Proper, PairIsTheCeremonys
<1> QED
  BY <1>1, Invariance, PTL

(* A pair names only services that were asked for and that its user        *)
(* consented to, whatever is granted, revoked and declined meanwhile.      *)
THEOREM DeclinedIsLeftOutCorrect == Spec => []DeclinedIsLeftOut
<1>1. IInv => DeclinedIsLeftOut
  BY DEF IInv, CeremonyInv, Proper, Named, DeclinedIsLeftOut
<1> QED
  BY <1>1, Invariance, PTL

----------------------------------------------------------------------------
(* The proxy, for one request. *)
(* Every non-empty set of natural numbers has a least one. *)
LEMMA LeastNumber ==
  ASSUME NEW T \in SUBSET Nat, T # {} PROVE \E n \in T : \A m \in T : n <= m
<1>1. PICK n \in T : \A m \in T : ~(<<m, n>> \in OpToRel(<, Nat))
  BY NatLessThanWellFounded, WFMin, Zenon
<1>2. \A m \in T : m < n => <<m, n>> \in OpToRel(<, Nat)
  BY DEF OpToRel
<1>3. \A m \in T : ~(m < n)
  BY <1>1, <1>2, Zenon
<1> QED
  BY <1>3

(* i is the position of the first declared slot the request fills. *)
FirstAt(i) == /\ i \in 1..Len(InboundHeaders)
              /\ Present(InboundHeaders[i])
              /\ \A j \in 1..(i - 1) : ~Present(InboundHeaders[j])

(* When a slot is filled there is a first one, and only one. *)
LEMMA FirstSlot ==
      /\ SlotPresent => \E i \in 1..Len(InboundHeaders) : FirstAt(i) /\ First = InboundHeaders[i]
      /\ \A i : FirstAt(i) => SlotPresent /\ First = InboundHeaders[i]
<1>1. Len(InboundHeaders) \in Nat
  BY GatewayAssumption
<1>2. \A i, j : FirstAt(i) /\ FirstAt(j) => i = j
  BY <1>1 DEF FirstAt
<1>3. ASSUME NEW i, FirstAt(i) PROVE First = InboundHeaders[i] /\ SlotPresent
  <2> DEFINE c == CHOOSE k \in 1..Len(InboundHeaders) : FirstAt(k)
  <2>1. FirstAt(c)
    BY <1>3 DEF FirstAt
  <2>2. c = i
    BY <1>2, <1>3, <2>1
  <2>3. First = InboundHeaders[c]
    BY DEF First, FirstAt
  <2> QED
    BY <1>3, <2>2, <2>3 DEF FirstAt, SlotPresent, Slots
<1>4. ASSUME SlotPresent PROVE \E i \in 1..Len(InboundHeaders) : FirstAt(i)
  <2> DEFINE T == {i \in 1..Len(InboundHeaders) : Present(InboundHeaders[i])}
  <2>1. T # {} /\ T \in SUBSET Nat
    BY <1>1, <1>4 DEF SlotPresent, Slots
  <2>2. PICK i \in T : \A j \in T : i <= j
    BY <2>1, LeastNumber
  <2> QED
    BY <1>1, <2>2 DEF FirstAt
<1> QED
  BY <1>3, <1>4

(* The header the policy may take a credential from: the first filled slot *)
(* or, when none is filled, an Authorization that is a Bearer JWS.         *)
Ours(n) == IF SlotPresent THEN \E i \in 1..Len(InboundHeaders) : FirstAt(i) /\ n = InboundHeaders[i]
           ELSE n = "authorization" /\ headers[n].bearer /\ headers[n].tok \in Jws

(* The key set by the decision is the one the credential in n stands for. *)
StandsFor(n) ==
    LET t == headers[n].tok
    IN  IF t \in Jws THEN SubOf[t] # NoSub /\ decision.set = KeyOf[SubOf[t]]
        ELSE decision.set = t

MappedInv == pc \in {"verify", "resolve"} => Ours(used) /\ headers[used].tok \in Jws
ProvedInv == pc = "resolve" => sub = SubOf[headers[used].tok] /\ sub # NoSub
AllowedInv ==
    Allowed =>
        \/ decision.remove = {} /\ decision.set = Absent /\ ~SlotPresent
        \/ \E n \in Names : decision.remove = {n} /\ Ours(n) /\ StandsFor(n)

GatewayInv == RequestTypeOK /\ MappedInv /\ ProvedInv /\ AllowedInv

(* A header of ours is there: it has a value. *)
LEMMA OursIsThere ==
  ASSUME RequestTypeOK, NEW n, Ours(n)
  PROVE  n \in Names /\ (n = "authorization" \/ headers[n] \in Values)
<1>1. Len(InboundHeaders) \in Nat
  BY GatewayAssumption
<1>2. CASE SlotPresent
  BY <1>1, <1>2 DEF Ours, FirstAt, Names, Slots, RequestTypeOK, Headers, Present
<1>3. CASE ~SlotPresent
  BY <1>3 DEF Ours, Names
<1> QED
  BY <1>2, <1>3

(* Init of the proxy. *)
LEMMA InitGateway == RequestInit => GatewayInv
<1> SUFFICES ASSUME RequestInit PROVE GatewayInv
  OBVIOUS
<1>1. RequestTypeOK
  BY DEF RequestInit, RequestTypeOK, Decisions, Undecided, Names
<1>2. MappedInv /\ ProvedInv /\ AllowedInv
  BY DEF RequestInit, MappedInv, ProvedInv, AllowedInv, Allowed
<1> QED
  BY <1>1, <1>2 DEF GatewayInv

(* The request is not touched while it is decided, so the header that is   *)
(* ours stays ours.                                                        *)
LEMMA RequestKept ==
  ASSUME [RequestNext]_requestVars
  PROVE  /\ headers' = headers /\ path' = path
         /\ \A n : Ours(n)' <=> Ours(n)
         /\ SlotPresent' <=> SlotPresent
<1>1. headers' = headers /\ path' = path
  BY DEF RequestNext, requestVars, DecideSlot, DecideAuthorization, DecideNothing, VerifyOk,
     VerifyFails, ResolveOk, ResolveFails, Served, userPath, allowWithKey, deny,
     Answer
<1>2. SlotPresent' <=> SlotPresent
  BY <1>1 DEF SlotPresent, Present
<1>3. \A n : Ours(n)' <=> Ours(n)
  BY <1>1, <1>2 DEF Ours, FirstAt, Present
<1> QED
  BY <1>1, <1>2, <1>3

(* The three shapes of an answer. *)
LEMMA LeftAlone ==
  ASSUME Answer(Untouched), ~SlotPresent, RequestTypeOK, UNCHANGED used, [RequestNext]_requestVars
  PROVE  GatewayInv'
<1>1. decision' = [allow |-> TRUE, set |-> Absent, remove |-> {}, status |-> 200, doc |-> "none"]
  BY DEF Answer, Untouched, Undecided
<1>2. RequestTypeOK'
  BY <1>1 DEF RequestTypeOK, Answer, Decisions
<1>3. MappedInv' /\ ProvedInv'
  BY DEF Answer, MappedInv, ProvedInv
<1>4. AllowedInv'
  BY <1>1, RequestKept DEF AllowedInv
<1> QED
  BY <1>2, <1>3, <1>4 DEF GatewayInv

(* A refusal allows nothing. *)
LEMMA Denied ==
  ASSUME NEW status \in {401, 503}, NEW doc \in {"none", "root", "service"},
         deny(status, doc), RequestTypeOK, UNCHANGED used
  PROVE  GatewayInv'
<1>1. decision' = [allow |-> FALSE, set |-> Absent, remove |-> {}, status |-> status, doc |-> doc]
  BY DEF deny, Answer, Undecided
<1>2. pc' = "decided" /\ UNCHANGED <<path, headers, sub>>
  BY DEF deny, Answer
<1>3. RequestTypeOK'
  BY <1>1, <1>2 DEF RequestTypeOK, Decisions
<1>4. MappedInv' /\ ProvedInv' /\ AllowedInv'
  BY <1>1, <1>2 DEF MappedInv, ProvedInv, AllowedInv, Allowed
<1> QED
  BY <1>3, <1>4 DEF GatewayInv

(* A key in place of the header it was derived from. *)
LEMMA KeySet ==
  ASSUME NEW key \in Keys \cup Foreign, NEW n, Ours(n),
         LET t == headers[n].tok
         IN  IF t \in Jws THEN SubOf[t] # NoSub /\ key = KeyOf[SubOf[t]] ELSE key = t,
         allowWithKey(key, n), RequestTypeOK, UNCHANGED used, [RequestNext]_requestVars
  PROVE  GatewayInv'
<1>1. decision' = [allow |-> TRUE, set |-> key, remove |-> {n}, status |-> 200, doc |-> "none"]
  BY DEF allowWithKey, Answer, Untouched, Undecided
<1>2. n \in Names
  BY OursIsThere
<1>3. pc' = "decided" /\ UNCHANGED <<path, headers, sub>>
  BY DEF allowWithKey, Answer
<1>4. RequestTypeOK'
  BY <1>1, <1>2, <1>3 DEF RequestTypeOK, Decisions, Tokens
<1>5. MappedInv' /\ ProvedInv'
  BY <1>3 DEF MappedInv, ProvedInv
<1>6. Ours(n)' /\ StandsFor(n)'
  BY <1>1, RequestKept DEF StandsFor
<1>7. AllowedInv'
  BY <1>1, <1>2, <1>6 DEF AllowedInv, Names
<1> QED
  BY <1>4, <1>5, <1>7 DEF GatewayInv

(* Every step of the policy keeps the invariant. *)
LEMMA StepGateway ==
  ASSUME GatewayInv, [RequestNext]_requestVars PROVE GatewayInv'
<1>0. RequestTypeOK /\ MappedInv /\ ProvedInv /\ AllowedInv
  BY DEF GatewayInv
<1>1. ASSUME NEW n, Ours(n), headers[n].tok \in Jws, userPath(n) PROVE GatewayInv'
  <2>1. pc' = "verify" /\ used' = n /\ UNCHANGED <<path, headers, sub, decision>>
    BY <1>1 DEF userPath
  <2>2. RequestTypeOK'
    BY <1>0, <1>1, <2>1, OursIsThere DEF RequestTypeOK, Names
  <2>3. MappedInv' /\ ProvedInv' /\ AllowedInv'
    BY <1>1, <2>1, RequestKept DEF MappedInv, ProvedInv, AllowedInv, Allowed
  <2> QED
    BY <2>2, <2>3 DEF GatewayInv
<1>2. CASE DecideSlot
  <2>1. Ours(First)
    BY <1>2, FirstSlot DEF Ours, DecideSlot
  <2>2. headers[First] \in Values
    <3>1. PICK i \in 1..Len(InboundHeaders) : FirstAt(i) /\ First = InboundHeaders[i]
      BY <1>2, FirstSlot DEF DecideSlot
    <3> QED
      BY <1>0, <3>1 DEF FirstAt, RequestTypeOK, Headers, Names, Slots, Present
  <2>3. CASE headers[First].tok \in Jws
    BY <1>1, <1>2, <2>1, <2>3 DEF DecideSlot, looksLikeJWS, bareKey
  <2>4. CASE headers[First].tok \notin Jws
    <3>1. headers[First].tok \in Keys \cup Foreign
      BY <2>2, <2>4 DEF Values, Tokens
    <3>2. allowWithKey(headers[First].tok, First) /\ UNCHANGED used
      BY <1>2, <2>4 DEF DecideSlot, looksLikeJWS, bareKey
    <3> QED
      BY <1>0, <2>1, <2>4, <3>1, <3>2, KeySet
  <2> QED
    BY <2>3, <2>4
<1>3. CASE DecideAuthorization
  <2>1. CASE headers["authorization"].bearer /\ headers["authorization"].tok \in Jws
    <3>1. Ours("authorization") /\ userPath("authorization")
      BY <1>3, <2>1 DEF Ours, DecideAuthorization, looksLikeJWS, bareKey
    <3> QED
      BY <1>1, <2>1, <3>1
  <2>2. CASE ~(headers["authorization"].bearer /\ headers["authorization"].tok \in Jws)
    <3>1. Answer(Untouched) /\ UNCHANGED used /\ ~SlotPresent
      BY <1>3, <2>2 DEF DecideAuthorization, looksLikeJWS, bareKey
    <3> QED
      BY <1>0, <3>1, LeftAlone
  <2> QED
    BY <2>1, <2>2
<1>4. challengeDoc(path) \in {"none", "root", "service"}
  BY DEF challengeDoc
<1>5. CASE DecideNothing
  <2>1. CASE Answer(Untouched)
    BY <1>0, <1>5, <2>1, LeftAlone DEF DecideNothing
  <2>2. CASE deny(401, challengeDoc(path))
    BY <1>0, <1>4, <1>5, <2>2, Denied DEF DecideNothing
  <2> QED
    BY <1>5, <2>1, <2>2 DEF DecideNothing
<1>6. CASE VerifyOk
  <2>1. /\ pc = "verify" /\ pc' = "resolve" /\ UNCHANGED <<path, headers, used, decision>>
        /\ sub' = SubOf[headers[used].tok] /\ sub' # NoSub
    BY <1>6 DEF VerifyOk, bareKey
  <2>2. headers[used].tok \in Jws /\ Ours(used)
    BY <1>0, <2>1 DEF MappedInv
  <2>3. RequestTypeOK'
    BY <1>0, <2>1, <2>2, GatewayAssumption DEF RequestTypeOK
  <2>4. MappedInv' /\ ProvedInv' /\ AllowedInv'
    BY <2>1, <2>2, RequestKept DEF MappedInv, ProvedInv, AllowedInv, Allowed
  <2> QED
    BY <2>3, <2>4 DEF GatewayInv
<1>7. CASE VerifyFails
  BY <1>0, <1>4, <1>7, Denied DEF VerifyFails
<1>8. CASE ResolveOk
  <2>1. /\ headers[used].tok \in Jws /\ Ours(used)
        /\ sub = SubOf[headers[used].tok] /\ sub # NoSub /\ sub \in Subs
    BY <1>0, <1>8 DEF MappedInv, ProvedInv, ResolveOk, RequestTypeOK
  <2>2. KeyOf[sub] \in Keys
    BY <2>1, GatewayAssumption
  <2>3. allowWithKey(KeyOf[sub], used) /\ UNCHANGED used
    BY <1>8 DEF ResolveOk
  <2> QED
    BY <1>0, <2>1, <2>2, <2>3, KeySet
<1>9. CASE ResolveFails
  BY <1>0, <1>9, Denied DEF ResolveFails
<1>10. CASE UNCHANGED requestVars
  <2>1. UNCHANGED <<pc, path, headers, used, sub, decision>>
    BY <1>10 DEF requestVars
  <2>2. RequestTypeOK' /\ MappedInv' /\ ProvedInv'
    BY <1>0, <2>1, RequestKept DEF RequestTypeOK, MappedInv, ProvedInv
  <2>3. AllowedInv'
    BY <1>0, <2>1, RequestKept DEF AllowedInv, Allowed, StandsFor, Names
  <2> QED
    BY <2>2, <2>3 DEF GatewayInv
<1> QED
  BY <1>2, <1>3, <1>5, <1>6, <1>7, <1>8, <1>9, <1>10 DEF RequestNext, Served

(* The invariant of the policy holds in every reachable state. *)
LEMMA GatewayInvariance == RequestSpec => []GatewayInv
<1>1. GatewayInv /\ [RequestNext]_requestVars => GatewayInv'
  BY StepGateway
<1> QED
  BY <1>1, InitGateway, PTL DEF RequestSpec

(* The key in the outbound header stands for the credential taken out of   *)
(* the request, for any list of declared headers and any request.          *)
THEOREM KeyStandsForCredentialCorrect == RequestSpec => []KeyStandsForCredential
<1>1. GatewayInv => KeyStandsForCredential
  BY DEF GatewayInv, AllowedInv, StandsFor, KeyStandsForCredential
<1> QED
  BY <1>1, GatewayInvariance, PTL

(* Authorization reaches LiteLLM as it came, except a Bearer JWS of a      *)
(* request without a declared header.                                      *)
THEOREM ForeignAuthorizationKeptCorrect == RequestSpec => []ForeignAuthorizationKept
<1>1. GatewayInv => ForeignAuthorizationKept
  <2> SUFFICES ASSUME GatewayInv, Allowed PROVE ForeignAuthorizationKept
    BY DEF ForeignAuthorizationKept
  <2>1. CASE decision.remove = {}
    BY <2>1 DEF ForeignAuthorizationKept, Upstream
  <2>2. ASSUME NEW n \in Names, decision.remove = {n}, Ours(n) PROVE ForeignAuthorizationKept
    <3>1. CASE n = "authorization"
      <4>1. ~SlotPresent
        BY <2>2, <3>1, GatewayAssumption DEF Ours, FirstAt, Slots
      <4> QED
        BY <2>2, <3>1, <4>1 DEF Ours, ForeignAuthorizationKept
    <3>2. CASE n # "authorization"
      BY <2>2, <3>2 DEF ForeignAuthorizationKept, Upstream
    <3> QED
      BY <3>1, <3>2
  <2> QED
    BY <2>1, <2>2 DEF GatewayInv, AllowedInv
<1> QED
  BY <1>1, GatewayInvariance, PTL

(* The first declared header decides alone, and a token of ours that does  *)
(* not hold is never passed over for another credential.                   *)
THEOREM OrderIsTheContractCorrect == RequestSpec => []OrderIsTheContract
<1>1. GatewayInv => OrderIsTheContract
  <2> SUFFICES ASSUME GatewayInv, Allowed, NEW i \in 1..Len(InboundHeaders), FirstAt(i)
               PROVE  /\ decision.remove = {InboundHeaders[i]}
                      /\ headers[InboundHeaders[i]].tok \in Jws
                            => SubOf[headers[InboundHeaders[i]].tok] # NoSub
    BY DEF OrderIsTheContract, FirstAt
  <2>1. SlotPresent
    BY FirstSlot
  <2>2. PICK n \in Names : decision.remove = {n} /\ Ours(n) /\ StandsFor(n)
    BY <2>1 DEF GatewayInv, AllowedInv
  <2>3. n = InboundHeaders[i]
    BY <2>1, <2>2, FirstSlot DEF Ours
  <2> QED
    BY <2>2, <2>3 DEF StandsFor
<1> QED
  BY <1>1, GatewayInvariance, PTL

----------------------------------------------------------------------------
(* The cache of the proxy in front of the front-key endpoint. *)
(* A goroutine at work is refreshing a user whose mark is set; that is why *)
(* no second one is started for it.                                        *)
MarkedInv == \A g \in Routines : fpc[g] # "idle" => fsub[g] \in inflight

(* A fetch at work has a user, and an answer a key. *)
FetchInv ==
    \A f \in Fetchers : /\ fpc[f] # "idle" => fsub[f] \in Subs
                        /\ fpc[f] = "answered" => fkey[f] # 0
                        /\ fpc[f] = "clearing" => f \in Routines

CacheInv == CacheTypeOK /\ FetchInv /\ MarkedInv /\ OneRefreshPerUser

(* Every step keeps the invariant: a mark is cleared by the goroutine that *)
(* carries it, after its write to the cache.                               *)
LEMMA StepCache ==
  ASSUME CacheInv, [CacheNext]_cacheVars PROVE CacheInv'
<1> USE CacheAssumption, SubjectsAssumption
    DEF CacheInv, CacheTypeOK, FetchInv, MarkedInv, OneRefreshPerUser, Fetchers, Cached, apiVars
<1>1. ASSUME NEW c \in Checks, NEW s \in Subs, KeyForCached(c, s) PROVE CacheInv'
  BY <1>1 DEF KeyForCached
<1>2. ASSUME NEW c \in Checks, NEW s \in Subs, KeyForCold(c, s) PROVE CacheInv'
  BY <1>2 DEF KeyForCold, Start
<1>3. ASSUME NEW c \in Checks, NEW g \in Routines, NEW s \in Subs, KeyForStale(c, g, s)
      PROVE  CacheInv'
  BY <1>3 DEF KeyForStale, Start
<1>4. ASSUME NEW f \in Fetchers, ApiAnswers(f) PROVE CacheInv'
  <2> DEFINE s == fsub[f]
             key == IF front[s] = 0 \/ s \in dead THEN front[s] + 1 ELSE front[s]
  <2>1. s \in Subs /\ key \in 1..MaxKey
    BY <1>4 DEF ApiAnswers
  <2> HIDE DEF key
  <2>2. /\ front' = [front EXCEPT ![s] = key] /\ fkey' = [fkey EXCEPT ![f] = key]
        /\ dead' = dead \ {s} /\ fpc' = [fpc EXCEPT ![f] = "answered"] /\ fpc[f] = "asking"
        /\ UNCHANGED <<cache, inflight, fsub, served>>
    BY <1>4 DEF ApiAnswers, key
  <2>3. CacheTypeOK'
    BY <2>1, <2>2
  <2>4. FetchInv' /\ MarkedInv' /\ OneRefreshPerUser'
    BY <1>4, <2>1, <2>2
  <2> QED
    BY <2>3, <2>4
<1>5. ASSUME NEW f \in Fetchers, FetchStores(f) PROVE CacheInv'
  <2>1. fsub[f] \in Subs /\ fkey[f] \in 1..MaxKey
    BY <1>5 DEF FetchStores
  <2>2. /\ cache' \in [Subs -> [key : 0..MaxKey, fresh : BOOLEAN]]
        /\ \A u \in Subs : cache'[u].fresh => cache'[u].key # 0
    BY <1>5, <2>1 DEF FetchStores
  <2>3. served' \in [Checks -> 0..MaxKey]
    BY <1>5, <2>1 DEF FetchStores
  <2>4. CacheTypeOK'
    BY <1>5, <2>2, <2>3 DEF FetchStores, AfterFetch
  <2>5. FetchInv' /\ MarkedInv' /\ OneRefreshPerUser'
    BY <1>5 DEF FetchStores, AfterFetch
  <2> QED
    BY <2>4, <2>5
<1>6. ASSUME NEW f \in Fetchers, FetchFails(f) PROVE CacheInv'
  BY <1>6 DEF FetchFails, AfterFetch
<1>7. ASSUME NEW g \in Routines, ClearMark(g) PROVE CacheInv'
  BY <1>7 DEF ClearMark
<1>8. ASSUME NEW s \in Subs, EntryExpires(s) PROVE CacheInv'
  <2>1. /\ cache' \in [Subs -> [key : 0..MaxKey, fresh : BOOLEAN]]
        /\ \A u \in Subs : cache'[u].fresh => cache'[u].key # 0
    <3>1. cache' = [cache EXCEPT ![s] = [@ EXCEPT !.fresh = FALSE]]
      BY <1>8 DEF EntryExpires
    <3>2. [cache[s] EXCEPT !.fresh = FALSE] \in [key : 0..MaxKey, fresh : BOOLEAN]
      <4>1. cache[s] \in [key : 0..MaxKey, fresh : BOOLEAN]
        OBVIOUS
      <4> HIDE DEF CacheInv
      <4> QED
        BY <4>1
    <3>3. \A u \in Subs : cache'[u] = IF u = s THEN [cache[s] EXCEPT !.fresh = FALSE] ELSE cache[u]
      BY <3>1
    <3> QED
      BY <3>1, <3>2, <3>3
  <2> QED
    BY <1>8, <2>1 DEF EntryExpires
<1>9. ASSUME NEW s \in Subs, KeyRevoked(s) PROVE CacheInv'
  BY <1>9 DEF KeyRevoked
<1>10. CASE UNCHANGED cacheVars
  BY <1>10 DEF cacheVars
<1> QED
  BY <1>1, <1>2, <1>3, <1>4, <1>5, <1>6, <1>7, <1>8, <1>9, <1>10 DEF CacheNext, Asked, Ends

(* The invariant of the cache holds in every reachable state. *)
LEMMA CacheInvariance == CacheSpec => []CacheInv
<1>1. CacheInit => CacheInv
  BY CacheAssumption DEF CacheInit, CacheInv, CacheTypeOK, FetchInv, MarkedInv, OneRefreshPerUser, Fetchers
<1>2. CacheInv /\ [CacheNext]_cacheVars => CacheInv'
  BY StepCache
<1> QED
  BY <1>1, <1>2, PTL DEF CacheSpec

(* Type correctness of the cache: an entry always holds a key, and only a  *)
(* goroutine clears marks.                                                 *)
THEOREM CacheTypeCorrect == CacheSpec => []CacheTypeOK
<1>1. CacheInv => CacheTypeOK
  BY DEF CacheInv
<1> QED
  BY <1>1, CacheInvariance, PTL

(* No two goroutines refresh the same user, for any number of checks,      *)
(* goroutines and users, also between the cache write and the clearing.    *)
THEOREM OneRefreshPerUserCorrect == CacheSpec => []OneRefreshPerUser
<1>1. CacheInv => OneRefreshPerUser
  BY DEF CacheInv
<1> QED
  BY <1>1, CacheInvariance, PTL
=============================================================================
