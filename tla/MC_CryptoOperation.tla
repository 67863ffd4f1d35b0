------------------------- MODULE MC_CryptoOperation -------------------------
(* Model-checking instance of CryptoOperation: two hash objects, so that  *)
(* psa_hash_clone and calls on two objects of one kind occur, one object *)
(* of each other kind, a service that holds three contexts and four handle *)
(* values, so that it is sometimes full and reuses a freed handle value.  *)
EXTENDS CryptoOperation

CONSTANTS h1, h2, c1, m1, a1, k1

MC_Objects == { h1, h2, c1, m1, a1, k1 }
MC_Kind == [o \in MC_Objects |->
             CASE o \in { h1, h2 } -> "hash" [] o = c1 -> "cipher"
               [] o = m1 -> "mac" [] o = a1 -> "aead" [] OTHER -> "kdf"]
MC_Handles == 1 .. 4
\* Objects declared with PSA_*_OPERATION_INIT: handle 0.
MC_Initialised == { 0 }
\* Objects left uninitialised on the stack: any value.
MC_Uninitialised == { 0 } \cup MC_Handles
=============================================================================
