----------------------------- MODULE MCAuthCode -----------------------------
(* AuthCode on small sets of model values: a request names no service, two *)
(* services, or one of them twice.                                         *)
EXTENDS AuthCode

CONSTANTS v1, v2

MCScopes == {<<>>, <<v1, v2>>, <<v1, v1>>}
=============================================================================
