----------------------------- MODULE MC_SpmSignals -----------------------------
(* One partition with its service signal, its doorbell, one SLIH and one *)
(* FLIH interrupt; up to two queued messages, so that psa_get can leave  *)
(* the service signal asserted or drain it.                              *)
EXTENDS SpmSignals

CONSTANTS svc, door, irq_s, irq_f
=============================================================================
