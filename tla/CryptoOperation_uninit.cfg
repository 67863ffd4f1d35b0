\* Operation objects left uninitialised: their handle field holds any value.
CONSTANTS
  h1 = h1
  h2 = h2
  c1 = c1
  m1 = m1
  a1 = a1
  k1 = k1
  Objects <- MC_Objects
  Kind <- MC_Kind
  Handles <- MC_Handles
  CONC_OPER_NUM = 3
  InitHandles <- MC_Uninitialised
  SetupRejectsBound = TRUE
INIT Init
NEXT Next
PROPERTIES
  NoCrossTalk
