\* IPC binding with the AEAD, RNG and key families built disabled.
CONSTANTS
  TFM_PSA_API = TRUE
  DISABLED <- MC_SomeFamilies
  TFM_CRYPTO_MAX_NONCE_LENGTH = 1
  PSA_MAX_IOVEC = 4
  Lens <- MC_Lens
  NULL = NULL
  BUF = BUF
INIT Init
NEXT Next
INVARIANTS
  LocalRejectionExact
