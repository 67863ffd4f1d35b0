\* IPC binding: the nonce length carried by psa_aead_encrypt / _decrypt.
CONSTANTS
  TFM_PSA_API = TRUE
  DISABLED <- MC_NoFamily
  TFM_CRYPTO_MAX_NONCE_LENGTH = 1
  PSA_MAX_IOVEC = 4
  Lens <- MC_Lens
  NULL = NULL
  BUF = BUF
INIT Init
NEXT Next
INVARIANTS
  NonceForwarded
