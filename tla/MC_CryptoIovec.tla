--------------------------- MODULE MC_CryptoIovec ---------------------------
(* Model-checking instance of CryptoIovec: lengths 0 .. 1, so that empty  *)
(* and non-empty buffers both occur, and a nonce capacity of 1, so that    *)
(* nonce lengths below, at and above the maximum all occur.               *)
EXTENDS CryptoIovec

MC_Lens == 0 .. 1
MC_NoFamily == {}
MC_SomeFamilies == { "aead", "rng", "key" }
=============================================================================
