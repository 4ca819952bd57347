------------------------------ MODULE Gateway ------------------------------
(***************************************************************************)
(* The policy of authz/decide.go: which of the credentials a request       *)
(* carries is used, what it becomes, and what Envoy then sends upstream.   *)
(* A header value is a token with or without the "Bearer " prefix; a token *)
(* is a LiteLLM key, a JWS, or something foreign (a provider's credential).*)
(* Verification and the key resolver are the two calls that can fail.      *)
(***************************************************************************)
EXTENDS Naturals, Sequences, Subjects

CONSTANTS InboundHeaders,   \* the declared slots, in precedence order
          Keys, Jws, Foreign,
          SubOf,            \* subject a JWS proves, NoSub when it proves none
          KeyOf,            \* the front key of a user
          Absent

Slots   == {InboundHeaders[i] : i \in 1..Len(InboundHeaders)}
Names   == Slots \cup {"authorization", "outbound"}
Tokens  == Keys \cup Jws \cup Foreign
Values  == [bearer : BOOLEAN, tok : Tokens]
Headers == [Names -> Values \cup {Absent}]

(* The outbound header and Authorization are not declared slots. *)
ASSUME GatewayAssumption ==
    /\ InboundHeaders \in Seq(STRING)
    /\ "authorization" \notin Slots /\ "outbound" \notin Slots
    /\ Absent \notin Values
    /\ SubOf \in [Jws -> Subs \cup {NoSub}]
    /\ KeyOf \in [Subs -> Keys]
    /\ Keys \cap Jws = {} /\ Foreign \cap (Keys \cup Jws) = {}

(* Kinds of path: the model API, an MCP server, a /mcp/ path whose segment *)
(* is no service name, and the catch-all.                                  *)
Paths == {"model", "service", "odd", "other"}
protected(path) == path # "other"

(* challengeDoc: the root document, or the one of the MCP service. *)
challengeDoc(path) == IF path = "service" THEN "service" ELSE "root"

VARIABLES pc,        \* "ready", "verify", "resolve", "decided"
          path,      \* the request
          headers,   \* its headers
          used,      \* the header whose token is being mapped
          sub,       \* the subject it proved
          decision

requestVars == <<pc, path, headers, used, sub, decision>>

Undecided == [allow |-> FALSE, set |-> Absent, remove |-> {}, status |-> 0, doc |-> "none"]
Untouched == [Undecided EXCEPT !.allow = TRUE, !.status = 200]
Decisions == [allow : BOOLEAN, set : Tokens \cup {Absent}, remove : SUBSET Names,
              status : {0, 200, 401, 503}, doc : {"none", "root", "service"}]

RequestTypeOK ==
    /\ pc \in {"ready", "verify", "resolve", "decided"}
    /\ path \in Paths
    /\ headers \in Headers
    /\ used \in Names
    /\ sub \in Subs \cup {NoSub}
    /\ decision \in Decisions

RequestInit ==
    /\ pc = "ready"
    /\ path \in Paths
    /\ headers \in Headers
    /\ used = "authorization"
    /\ sub = NoSub
    /\ decision = Undecided

Present(n) == headers[n] # Absent
SlotPresent == \E n \in Slots : Present(n)

(* The first declared slot that is present. *)
First == InboundHeaders[CHOOSE i \in 1..Len(InboundHeaders) :
             /\ Present(InboundHeaders[i])
             /\ \A j \in 1..(i - 1) : ~Present(InboundHeaders[j])]

bareKey(n) == headers[n].tok
looksLikeJWS(t) == t \in Jws

Answer(d) == /\ pc' = "decided"
             /\ decision' = d
             /\ UNCHANGED <<path, headers, sub>>

allowWithKey(key, n) == Answer([Untouched EXCEPT !.set = key, !.remove = {n}])
deny(status, doc)    == Answer([Undecided EXCEPT !.status = status, !.doc = doc])

userPath(n) == /\ pc' = "verify"
               /\ used' = n
               /\ UNCHANGED <<path, headers, sub, decision>>
----------------------------------------------------------------------------
(* A declared slot is present: its key is renamed, its JWS is mapped. *)
DecideSlot ==
    /\ pc = "ready"
    /\ SlotPresent
    /\ IF looksLikeJWS(bareKey(First)) THEN userPath(First)
       ELSE allowWithKey(bareKey(First), First) /\ UNCHANGED used

(* Mutant: whatever Authorization carries is taken for ours. *)
DecideAuthorizationAny ==
    /\ pc = "ready"
    /\ ~SlotPresent
    /\ Present("authorization")
    /\ IF looksLikeJWS(bareKey("authorization")) THEN userPath("authorization")
       ELSE allowWithKey(bareKey("authorization"), "authorization") /\ UNCHANGED used

(* Authorization: mapped when it is "Bearer <JWS>", otherwise not ours. *)
DecideAuthorization ==
    /\ pc = "ready"
    /\ ~SlotPresent
    /\ Present("authorization")
    /\ IF headers["authorization"].bearer /\ looksLikeJWS(bareKey("authorization"))
         THEN userPath("authorization")
         ELSE Answer(Untouched) /\ UNCHANGED used

(* Nothing of ours: forwarded, unless a protected path got nothing at all. *)
DecideNothing ==
    /\ pc = "ready"
    /\ ~SlotPresent /\ ~Present("authorization")
    /\ IF Present("outbound") \/ ~protected(path)
         THEN Answer(Untouched)
         ELSE deny(401, challengeDoc(path))
    /\ UNCHANGED used

(* Mutant: the claims are read without the signature. *)
VerifyOkUnproved ==
    /\ pc = "verify"
    /\ sub' \in Subs
    /\ pc' = "resolve"
    /\ UNCHANGED <<path, headers, used, decision>>

(* multiVerifier.Verify: issuer, signature, audience, expiry and subject.  *)
VerifyOk ==
    /\ pc = "verify"
    /\ SubOf[bareKey(used)] # NoSub
    /\ sub' = SubOf[bareKey(used)]
    /\ pc' = "resolve"
    /\ UNCHANGED <<path, headers, used, decision>>

(* Mutant: a token that does not verify is somebody else's. *)
VerifyFailsOpen ==
    /\ pc = "verify"
    /\ Answer(Untouched)
    /\ UNCHANGED used

(* It proves nothing, or the key set of its issuer is out of date. *)
VerifyFails ==
    /\ pc = "verify"
    /\ deny(401, challengeDoc(path))
    /\ UNCHANGED used

ResolveOk ==
    /\ pc = "resolve"
    /\ allowWithKey(KeyOf[sub], used)
    /\ UNCHANGED used

ResolveFails ==
    /\ pc = "resolve"
    /\ deny(503, "none")
    /\ UNCHANGED used

(* The answer is sent. *)
Served == pc = "decided" /\ UNCHANGED requestVars

RequestNext ==
    \/ DecideSlot \/ DecideAuthorization \/ DecideNothing
    \/ VerifyOk \/ VerifyFails \/ ResolveOk \/ ResolveFails
    \/ Served

RequestSpec == RequestInit /\ [][RequestNext]_requestVars

(* Server.Check: what Envoy sends upstream for an allowed request. *)
Upstream(n) ==
    IF n \in decision.remove THEN Absent
    ELSE IF n = "outbound" /\ decision.set # Absent THEN [bearer |-> TRUE, tok |-> decision.set]
    ELSE headers[n]

Allowed == pc = "decided" /\ decision.allow
----------------------------------------------------------------------------
(* A key we put in the outbound header stands for the credential we took   *)
(* out of the request, never for another one the request also carried.     *)
KeyStandsForCredential ==
    Allowed /\ decision.set # Absent =>
        \E n \in decision.remove :
            LET t == headers[n].tok
            IN  IF t \in Jws THEN SubOf[t] # NoSub /\ decision.set = KeyOf[SubOf[t]]
                ELSE decision.set = t

(* "Authorization is not ours": it reaches LiteLLM as it came, except for  *)
(* a Bearer JWS in a request that used no declared header.                 *)
ForeignAuthorizationKept ==
    Allowed => \/ Upstream("authorization") = headers["authorization"]
               \/ /\ headers["authorization"].bearer /\ headers["authorization"].tok \in Jws
                  /\ ~SlotPresent

(* The contract's order: the first declared header decides alone, and a    *)
(* token of ours that does not hold is never passed over in favour of      *)
(* another credential of the request.                                      *)
OrderIsTheContract ==
    Allowed => \A i \in 1..Len(InboundHeaders) :
        LET n == InboundHeaders[i]
        IN  /\ Present(n)
            /\ \A j \in 1..(i - 1) : ~Present(InboundHeaders[j])
            => decision.remove = {n} /\ (headers[n].tok \in Jws => SubOf[headers[n].tok] # NoSub)
=============================================================================
