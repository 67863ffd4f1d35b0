------------------------- MODULE OperationLifecycle -------------------------
(***************************************************************************)
(* What the streaming calls promise, abstractly (spec section 3): each     *)
(* operation object is unbound or bound to one operation of the service;  *)
(* it becomes bound only by a *_setup of its own or as the target of a     *)
(* psa_hash_clone from a bound hash object, becomes unbound by finish,     *)
(* verify, abort or a failed step, and the service holds one context per   *)
(* bound object, at most CONC_OPER_NUM of them.  Every other call leaves   *)
(* the binding of every object as it was.                                  *)
(***************************************************************************)
EXTENDS Naturals, FiniteSets

CONSTANTS Objects, Kind, CONC_OPER_NUM

VARIABLES
  active,  \* the objects bound to an operation of the service
  held     \* the number of contexts the service holds

Begin(o) ==
  /\ o \notin active
  /\ held < CONC_OPER_NUM
  /\ active' = active \cup { o }
  /\ held' = held + 1

\* *_setup on an unbound object.
Bind(o) == Begin(o)

\* psa_hash_clone from a bound hash object onto an unbound one.
CloneBind(s, t) ==
  /\ s \in active
  /\ Kind[s] = "hash" /\ Kind[t] = "hash"
  /\ Begin(t)

\* finish, verify, abort, or a step the service fails and cleans up.
Unbind(o) ==
  /\ o \in active
  /\ active' = active \ { o }
  /\ held' = held - 1

Init == active = {} /\ held = 0

Next ==
  \/ \E o \in Objects : Bind(o) \/ Unbind(o)
  \/ \E s, t \in Objects : CloneBind(s, t)

Spec == Init /\ [][Next]_<< active, held >>
=============================================================================
