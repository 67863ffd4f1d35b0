------------------------------- MODULE SpmCall -------------------------------
(***************************************************************************)
(* One psa_call of the crypto client as the SPM carries it to the crypto   *)
(* partition (src/secure_fw/spm/ffm/psa_api.h).  The client's call asserts *)
(* the service's signal and blocks; the partition, waiting with PSA_BLOCK, *)
(* takes one message at a time with psa_get, consumes its input vectors    *)
(* with psa_read / psa_skip, fills its output vectors with psa_write, and  *)
(* completes it with psa_reply, which overwrites each output len with the  *)
(* bytes written and lets the client return.  Several clients may be       *)
(* blocked at once.                                                        *)
(*                                                                         *)
(* The requests are the shapes the crypto client builds; that they never   *)
(* exceed PSA_MAX_IOVEC vectors is CryptoIovec's RequestShape, so the      *)
(* "does not return" case of psa_call is not reached from this client.    *)
(***************************************************************************)
EXTENDS Naturals, Sequences

CONSTANTS
  Clients,        \* threads of the secure client, each with its own connection
  Shapes,         \* [in : lengths of in_vec[], out : capacities of out_vec[]]
  PSA_MAX_IOVEC,
  MaxBytes,       \* largest num_bytes the partition passes to psa_read / psa_write
  NONE

ASSUME \A s \in Shapes : Len(s.in) + Len(s.out) <= PSA_MAX_IOVEC

VARIABLES
  msg,   \* msg[c]: [st, in, out]; st is "idle", "asserted" (signal raised,
         \* not yet taken) or "got" (delivered to the partition)
  rd,    \* rd[c][i]: bytes of in_vec[i] the partition has read or skipped
  wr,    \* wr[c][i]: bytes the partition has written to out_vec[i]
  cur,   \* the client whose message the partition is handling, or NONE
  ret    \* ret[c]: the out_vec lens client c saw when psa_call returned

vars == << msg, rd, wr, cur, ret >>

Idx == 1 .. PSA_MAX_IOVEC
Zero == [i \in Idx |-> 0]

\* tfm_spm_client_psa_call: the message is queued and the client blocks.
psa_call(c) ==
  /\ msg[c].st = "idle"
  /\ \E s \in Shapes : msg' = [msg EXCEPT ![c] = [st |-> "asserted", in |-> s.in, out |-> s.out]]
  /\ UNCHANGED << rd, wr, cur, ret >>

\* psa_wait(PSA_BLOCK) returns once the signal is asserted; psa_get then
\* delivers one asserted message.
psa_get(c) ==
  /\ cur = NONE
  /\ msg[c].st = "asserted"
  /\ cur' = c
  /\ msg' = [msg EXCEPT ![c].st = "got"]
  /\ UNCHANGED << rd, wr, ret >>

\* Bytes left in in_vec[i]; a vector past in_num is empty.
Remaining(c, i) == IF i <= Len(msg[c].in) THEN msg[c].in[i] - rd[c][i] ELSE 0

\* psa_read / psa_skip return min(num_bytes, remaining), 0 once exhausted.
Consumed(c, i, n) == IF n < Remaining(c, i) THEN n ELSE Remaining(c, i)

Consume(i, n) ==
  /\ cur # NONE
  /\ rd' = [rd EXCEPT ![cur][i] = @ + Consumed(cur, i, n)]
  /\ UNCHANGED << msg, wr, cur, ret >>

psa_read == \E i \in Idx, n \in 1 .. MaxBytes : Consume(i, n)
psa_skip == \E i \in Idx, n \in 1 .. MaxBytes : Consume(i, n)

\* Mutant: the end of the output vector checked one byte late.
WriteFitsOffByOne(c, i, n) ==
  i <= Len(msg[c].out) /\ wr[c][i] + n <= msg[c].out[i] + 1

\* psa_write never writes past the end of the client output vector (a
\* write that would is a programmer error and does not happen).
WriteFits(c, i, n) == i <= Len(msg[c].out) /\ wr[c][i] + n <= msg[c].out[i]

psa_write ==
  \E i \in Idx, n \in 1 .. MaxBytes :
    /\ cur # NONE
    /\ WriteFits(cur, i, n)
    /\ wr' = [wr EXCEPT ![cur][i] = @ + n]
    /\ UNCHANGED << msg, rd, cur, ret >>

\* Mutant: psa_reply completes the message but leaves the partition bound
\* to it.
ReleaseKept(c) == cur' = cur

ReleasePartition(c) == cur' = NONE

\* The message, with its read and write positions, is freed and the
\* client's connection is idle again.
FreeMessage(c) ==
  /\ msg' = [msg EXCEPT ![c] = [st |-> "idle", in |-> << >>, out |-> << >>]]
  /\ rd' = [rd EXCEPT ![c] = Zero]
  /\ wr' = [wr EXCEPT ![c] = Zero]

\* psa_reply: each out_vec[i].len becomes the bytes written, and the
\* client's psa_call returns.
psa_reply(c) ==
  /\ cur = c
  /\ ret' = [ret EXCEPT ![c] = [i \in 1 .. Len(msg[c].out) |-> wr[c][i]]]
  /\ FreeMessage(c)
  /\ ReleasePartition(c)

Init ==
  /\ msg = [c \in Clients |-> [st |-> "idle", in |-> << >>, out |-> << >>]]
  /\ rd = [c \in Clients |-> Zero]
  /\ wr = [c \in Clients |-> Zero]
  /\ cur = NONE
  /\ ret = [c \in Clients |-> << >>]

Next ==
  \/ \E c \in Clients : psa_call(c) \/ psa_get(c) \/ psa_reply(c)
  \/ psa_read \/ psa_skip \/ psa_write

\* The partition's loop waits with PSA_BLOCK and handles every message it
\* gets to psa_reply; a message that stays asserted while others are
\* handled is eventually delivered.
Spec ==
  /\ Init /\ [][Next]_vars
  /\ \A c \in Clients : SF_vars(psa_get(c)) /\ WF_vars(psa_reply(c))

(***************************************************************************)
(* Properties.                                                             *)
(***************************************************************************)

\* Types, and: the partition is bound only to a message it has got, so a
\* psa_reply always completes a delivered message.
TypeOK ==
  /\ cur \in Clients \cup { NONE }
  /\ \A c \in Clients :
       /\ msg[c].st \in { "idle", "asserted", "got" }
       /\ rd[c] \in [Idx -> Nat] /\ wr[c] \in [Idx -> Nat]
  /\ cur # NONE => msg[cur].st = "got"

\* The refinement mapping: a client is blocked on its request from its
\* psa_call to the psa_reply of that message.
Atomic == INSTANCE AtomicCall
            WITH pend <- [c \in Clients |->
                            IF msg[c].st = "idle" THEN NONE
                            ELSE [in |-> msg[c].in, out |-> msg[c].out]]

\* The multi-step SPM exchange implements the atomic call CryptoIovec
\* assumes: a client's call returns only after its own message was
\* replied to, with every out_vec len within that vector's capacity, and
\* every call eventually returns.
AtomicCallRefined == Atomic!Spec

=============================================================================
