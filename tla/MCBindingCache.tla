--------------------------- MODULE MCBindingCache ---------------------------
(* One CU and two callers that compete for it.                              *)
EXTENDS BindingCache, TLC

CONSTANTS k1, l1, l2, t1
MCTenantOf == k1 :> t1
MCKeyOf == l1 :> k1 @@ l2 :> k1
=============================================================================
