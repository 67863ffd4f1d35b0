\* IPC binding (TFM_PSA_API), every crypto family built in.
CONSTANTS
  TFM_PSA_API = TRUE
  DISABLED <- MC_NoFamily
  TFM_CRYPTO_MAX_NONCE_LENGTH = 1
  PSA_MAX_IOVEC = 4
  Lens <- MC_Lens
  NULL = NULL
  BUF = BUF
INIT Init
NEXT Next
INVARIANTS
  TypeOK
  RequestShape
  LocalRejectionExact
  ReportedLengthIsProduced
  ElidedOutputReportsZero
