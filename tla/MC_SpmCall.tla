------------------------------ MODULE MC_SpmCall ------------------------------
(* Two client threads; the request shapes of four crypto calls under the  *)
(* IPC binding, with buffer sizes 1 and 2 so that partial and full writes *)
(* and reads both occur.                                                 *)
EXTENDS SpmCall

CONSTANTS t1, t2

MC_Clients == { t1, t2 }
MC_Shapes ==
  { [in |-> << 1 >>, out |-> << 1, 2, 2 >>],      \* psa_aead_finish
    [in |-> << 1, 2 >>, out |-> << 1 >>],         \* psa_hash_update
    [in |-> << 1 >>, out |-> << >>] }             \* psa_close_key
=============================================================================
