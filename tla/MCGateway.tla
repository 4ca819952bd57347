----------------------------- MODULE MCGateway -----------------------------
(* Gateway with two declared headers, two keys, a JWS of a user and one    *)
(* that proves nothing.                                                    *)
EXTENDS Gateway, TLC

CONSTANTS k1, k2, good, bad, u1

MCInboundHeaders == <<"x-genai-api-key", "x-api-key">>
MCSubOf == good :> u1 @@ bad :> NoSub
MCKeyOf == u1 :> k2
=============================================================================
