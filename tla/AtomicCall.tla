----------------------------- MODULE AtomicCall -----------------------------
(***************************************************************************)
(* The channel as the crypto client sees it (CryptoIovec's Dispatch): a    *)
(* psa_call blocks until the service answers, and then each output         *)
(* vector's len holds at most its capacity (psa_api.h: psa_write cannot    *)
(* write past the end of a client output vector).  Every call is          *)
(* eventually answered.                                                    *)
(***************************************************************************)
EXTENDS Naturals, Sequences

CONSTANTS Clients, Shapes, NONE

VARIABLES
  pend,  \* pend[c]: the request client c is blocked on, or NONE
  ret    \* ret[c]: the output lens client c saw when its last call returned

vars == << pend, ret >>

\* The lens the service may leave in the output vectors out.
Answers(out) ==
  { w \in [DOMAIN out -> UNION { 0 .. out[i] : i \in DOMAIN out }] :
      \A i \in DOMAIN out : w[i] <= out[i] }

Request(c) ==
  /\ pend[c] = NONE
  /\ \E s \in Shapes : pend' = [pend EXCEPT ![c] = s]
  /\ UNCHANGED ret

Answer(c) ==
  /\ pend[c] # NONE
  /\ \E w \in Answers(pend[c].out) : ret' = [ret EXCEPT ![c] = w]
  /\ pend' = [pend EXCEPT ![c] = NONE]

Init ==
  /\ pend = [c \in Clients |-> NONE]
  /\ ret = [c \in Clients |-> << >>]

Next == \E c \in Clients : Request(c) \/ Answer(c)

Spec == Init /\ [][Next]_vars /\ \A c \in Clients : WF_vars(Answer(c))
=============================================================================
