------------------------------ MODULE Subjects ------------------------------
(* The subjects of the proxy: the emails its tokens prove and its keys are *)
(* resolved for.  Shared by the policy and by the key cache.               *)
CONSTANTS Subs, NoSub

ASSUME SubjectsAssumption == NoSub \notin Subs
=============================================================================
