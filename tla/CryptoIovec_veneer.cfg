\* Library (veneer) binding: shape of requests with an absent optional buffer.
CONSTANTS
  TFM_PSA_API = FALSE
  DISABLED <- MC_NoFamily
  TFM_CRYPTO_MAX_NONCE_LENGTH = 1
  PSA_MAX_IOVEC = 4
  Lens <- MC_Lens
  NULL = NULL
  BUF = BUF
INIT Init
NEXT Next
INVARIANTS
  RequestShape
