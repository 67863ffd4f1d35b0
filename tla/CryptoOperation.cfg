\* Initialised operation objects, a service that refuses a setup of a bound
\* object with PSA_ERROR_BAD_STATE, as the PSA Crypto API requires.
CONSTANTS
  h1 = h1
  h2 = h2
  c1 = c1
  m1 = m1
  a1 = a1
  k1 = k1
  Objects <- MC_Objects
  Kind <- MC_Kind
  Handles <- MC_Handles
  CONC_OPER_NUM = 3
  InitHandles <- MC_Initialised
  SetupRejectsBound = TRUE
INIT Init
NEXT Next
INVARIANTS
  TypeOK
  NoOrphanContext
  NoDanglingHandle
PROPERTIES
  LifecycleRefined
