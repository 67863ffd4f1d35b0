\* A service that accepts *_setup on an object that is already bound.
CONSTANTS
  h1 = h1
  h2 = h2
  c1 = c1
  m1 = m1
  a1 = a1
  k1 = k1
  Objects <- MC_Objects
  Kind <- MC_Kind
  Handles <- MC_Handles
  CONC_OPER_NUM = 3
  InitHandles <- MC_Initialised
  SetupRejectsBound = FALSE
INIT Init
NEXT Next
INVARIANTS
  NoOrphanContext
