\* Two secure client threads calling the crypto partition through the SPM.
CONSTANTS
  t1 = t1
  t2 = t2
  Clients <- MC_Clients
  Shapes <- MC_Shapes
  PSA_MAX_IOVEC = 4
  MaxBytes = 1
  NONE = NONE
SPECIFICATION Spec
INVARIANTS
  TypeOK
PROPERTIES
  AtomicCallRefined
