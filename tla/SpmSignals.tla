------------------------------ MODULE SpmSignals ------------------------------
(***************************************************************************)
(* The signals of one secure partition and the partition API calls that    *)
(* read and clear them (src/secure_fw/spm/ffm/psa_api.h): psa_wait,        *)
(* psa_get, psa_notify, psa_clear, psa_eoi, psa_reset_signal,              *)
(* psa_irq_enable, psa_irq_disable and psa_panic.                          *)
(*                                                                         *)
(* A partition learns which signals are asserted from psa_wait, then      *)
(* handles them one by one, after other steps may have happened: clients  *)
(* queue messages, interrupts fire, other partitions ring the doorbell.   *)
(* A call the header marks "PROGRAMMER ERROR" goes through                 *)
(* TFM_PROGRAMMER_ERROR, whose secure-caller branch is tfm_core_panic():  *)
(* the system stops.                                                      *)
(***************************************************************************)
EXTENDS Naturals

CONSTANTS
  SERVICE,    \* the RoT Service signal of the partition
  DOORBELL,   \* the doorbell signal
  SLIH,       \* interrupt signals handled in the partition (psa_eoi)
  FLIH,       \* interrupt signals handled first-level (psa_reset_signal)
  MaxMsgs     \* bound on messages queued for the service

Irqs == SLIH \cup FLIH
Signals == { SERVICE, DOORBELL } \cup Irqs

ASSUME /\ SERVICE # DOORBELL /\ { SERVICE, DOORBELL } \cap Irqs = {}
       /\ SLIH \cap FLIH = {}

VARIABLES
  asserted,  \* doorbell and interrupt signals currently asserted
  msgs,      \* messages queued for the service; SERVICE is asserted iff > 0
  enabled,   \* interrupts currently enabled
  pending,   \* signals returned by the last psa_wait and not yet handled
  panicked,  \* tfm_core_panic() has run
  misused    \* a call the partition made was not for a signal of its last
             \* wait result with the call of that signal's kind

vars == << asserted, msgs, enabled, pending, panicked, misused >>

Asserted == asserted \cup (IF msgs > 0 THEN { SERVICE } ELSE {})

Masks == SUBSET Signals \ { {} }

\* TFM_PROGRAMMER_ERROR(ns_caller, status) for a secure caller.
ProgrammerError ==
  /\ panicked' = TRUE
  /\ UNCHANGED << asserted, msgs, enabled >>

\* The partition handled s with the call meant for it, or it did not.
Handle(s, fits) ==
  /\ pending' = pending \ { s }
  /\ misused' = (misused \/ s \notin pending \/ ~fits)

(***************************************************************************)
(* The partition's steps.                                                  *)
(***************************************************************************)

\* PSA_BLOCK returns only with at least one signal of the mask asserted;
\* PSA_POLL may return 0.
psa_wait ==
  \E mask \in Masks, block \in BOOLEAN :
    /\ block => Asserted \cap mask # {}
    /\ pending' = Asserted \cap mask
    /\ UNCHANGED << asserted, msgs, enabled, panicked, misused >>

\* Mutant: a message is delivered whether or not one is queued.
MessageQueuedDropped == TRUE

MessageQueued == msgs > 0

\* psa_get delivers one message for the service signal; the signal stays
\* asserted while messages remain.  Otherwise a programmer error.
psa_get(s) ==
  /\ Handle(s, s = SERVICE)
  /\ \/ /\ s = SERVICE /\ MessageQueued
        /\ msgs' = msgs - 1
        /\ UNCHANGED << asserted, enabled, panicked >>
     \/ /\ ~(s = SERVICE /\ msgs > 0)
        /\ ProgrammerError

\* Clears one doorbell or interrupt signal when that call fits it.
ClearSignal(s, ok) ==
  \/ /\ ok /\ s \in asserted
     /\ asserted' = asserted \ { s }
     /\ UNCHANGED << msgs, enabled, panicked >>
  \/ /\ ~(ok /\ s \in asserted)
     /\ ProgrammerError

psa_clear ==
  /\ Handle(DOORBELL, TRUE)
  /\ ClearSignal(DOORBELL, TRUE)

psa_eoi(s) ==
  /\ Handle(s, s \in SLIH)
  /\ ClearSignal(s, s \in SLIH)

psa_reset_signal(s) ==
  /\ Handle(s, s \in FLIH)
  /\ ClearSignal(s, s \in FLIH)

\* The partition uses these with a signal it knows to be an interrupt or
\* not; they do not consume the wait result.
psa_irq_enable(s) ==
  /\ UNCHANGED pending
  /\ misused' = (misused \/ s \notin Irqs)
  /\ \/ /\ s \in Irqs
        /\ enabled' = enabled \cup { s }
        /\ UNCHANGED << asserted, msgs, panicked >>
     \/ s \notin Irqs /\ ProgrammerError

\* Mutant: disabling an interrupt also drops its asserted signal.
IrqOffClearing(s) ==
  /\ enabled' = enabled \ { s }
  /\ asserted' = asserted \ { s }

IrqOff(s) ==
  /\ enabled' = enabled \ { s }
  /\ UNCHANGED asserted

\* Its return value is not modelled: the header's note says it is always
\* 1 and must not be used.
psa_irq_disable(s) ==
  /\ UNCHANGED pending
  /\ misused' = (misused \/ s \notin Irqs)
  /\ \/ /\ s \in Irqs
        /\ IrqOff(s)
        /\ UNCHANGED << msgs, panicked >>
     \/ s \notin Irqs /\ ProgrammerError

psa_panic ==
  /\ misused' = TRUE
  /\ UNCHANGED pending
  /\ ProgrammerError

(***************************************************************************)
(* The environment: clients, other partitions, interrupt lines.           *)
(***************************************************************************)

\* A client's psa_call queues a message for the service.
Incoming ==
  /\ msgs < MaxMsgs
  /\ msgs' = msgs + 1
  /\ UNCHANGED << asserted, enabled, pending, panicked, misused >>

\* Another partition's psa_notify with its partition_id valid or not.
psa_notify ==
  \E valid \in BOOLEAN :
    /\ UNCHANGED pending
    /\ \/ /\ valid
          /\ asserted' = asserted \cup { DOORBELL }
          /\ UNCHANGED << msgs, enabled, panicked, misused >>
       \/ ~valid /\ misused' = TRUE /\ ProgrammerError

\* An enabled interrupt line fires and asserts its signal.
Interrupt(s) ==
  /\ s \in enabled
  /\ asserted' = asserted \cup { s }
  /\ UNCHANGED << msgs, enabled, pending, panicked, misused >>

Init ==
  /\ asserted = {}
  /\ msgs = 0
  /\ enabled \in SUBSET Irqs
  /\ pending = {}
  /\ panicked = FALSE
  /\ misused = FALSE

\* Nothing runs after tfm_core_panic().
Next ==
  /\ ~panicked
  /\ \/ psa_wait \/ psa_clear \/ psa_panic \/ Incoming \/ psa_notify
     \/ \E s \in Signals :
          \/ psa_get(s) \/ psa_eoi(s) \/ psa_reset_signal(s)
          \/ psa_irq_enable(s) \/ psa_irq_disable(s) \/ Interrupt(s)

Spec == Init /\ [][Next]_vars

(***************************************************************************)
(* Properties.                                                             *)
(***************************************************************************)

TypeOK ==
  /\ asserted \subseteq { DOORBELL } \cup Irqs
  /\ msgs \in 0 .. MaxMsgs
  /\ enabled \subseteq Irqs
  /\ pending \subseteq Signals

\* A wait result stays good until it is handled: a partition that calls,
\* for each signal psa_wait returned, only the call of that signal's kind,
\* once, never hits a programmer error, whatever messages, interrupts,
\* doorbells and irq_enable / irq_disable calls happen in between.
WaitResultStaysValid == panicked => misused
=============================================================================
