\* One partition's signals under every order of partition calls and
\* environment events.  After tfm_core_panic() nothing runs, so the
\* system may stop: deadlock is not a fault here.
CONSTANTS
  svc = svc
  door = door
  irq_s = irq_s
  irq_f = irq_f
  SERVICE = svc
  DOORBELL = door
  SLIH = {irq_s}
  FLIH = {irq_f}
  MaxMsgs = 2
SPECIFICATION Spec
CHECK_DEADLOCK FALSE
INVARIANTS
  TypeOK
  WaitResultStaysValid
