--------------------------- MODULE CryptoOperation ---------------------------
(***************************************************************************)
(* The multipart (streaming) calls of the TF-M crypto client               *)
(* (tfm_crypto_secure_api.c): hash, cipher, MAC, AEAD and key derivation   *)
(* operations whose state lives in the crypto service and is named by the  *)
(* 32-bit handle kept in the caller's operation object.                    *)
(*                                                                         *)
(* Every such psa_* function sends iov.op_handle = operation->handle and,  *)
(* except psa_key_derivation_output_bytes, passes &operation->handle as    *)
(* out_vec[0], so the service writes the (possibly new) handle straight    *)
(* into the caller's object, whatever the status.  psa_hash_clone checks   *)
(* locally that the target object is unbound.                              *)
(*                                                                         *)
(* The service is the environment, modelled from the spec (the service is  *)
(* not part of this repository): it keeps at most CONC_OPER_NUM contexts,  *)
(* allocates a fresh handle on setup and clone, may move a context to a    *)
(* new handle on any step that can return one, releases the context and    *)
(* returns 0 on finish, verify and abort, and on a failed step either      *)
(* keeps the context or releases it and returns 0.  Each step of the model *)
(* is one whole call.  The ghost owner of a context is the operation       *)
(* object whose call created it.                                           *)
(***************************************************************************)
EXTENDS Naturals, FiniteSets

CONSTANTS
  Objects,            \* the caller's operation objects
  Kind,               \* Kind[o]: "hash", "cipher", "mac", "aead" or "kdf"
  Handles,            \* the non-zero handle values the service hands out
  CONC_OPER_NUM,      \* contexts the service can hold at once
  InitHandles,        \* what operation->handle may hold before the first call
  SetupRejectsBound   \* the service refuses *_setup whose op_handle is not 0

ASSUME Kind \in [Objects -> { "hash", "cipher", "mac", "aead", "kdf" }]
ASSUME 0 \notin Handles /\ Cardinality(Handles) > CONC_OPER_NUM
ASSUME 0 \in InitHandles /\ InitHandles \subseteq Handles \cup { 0 }
ASSUME SetupRejectsBound \in BOOLEAN

VARIABLES
  handle,    \* handle[o]: the handle field of operation object o
  ctx,       \* ctx[h]: the service's context behind handle h, or FREE
  sent       \* ghost: the object and op_handle of the last request, or NoReq

vars == << handle, ctx, sent >>

FREE  == [owner |-> "none", kind |-> "none"]
NoReq == [obj |-> "none", h |-> 0]

Live(h) == h \in Handles /\ ctx[h] # FREE

\* A context of the given kind: what the service's handle lookup accepts.
Owned(h, k) == Live(h) /\ ctx[h].kind = k

\* Mutant: the context table's bound checked one too late.
FullOffByOne == Cardinality({ h \in Handles : Live(h) }) > CONC_OPER_NUM

Full == Cardinality({ h \in Handles : Live(h) }) >= CONC_OPER_NUM

FreeHandles == { h \in Handles : ~Live(h) }

ObjectsOf(k) == { o \in Objects : Kind[o] = k }

(***************************************************************************)
(* The client side.                                                        *)
(***************************************************************************)

\* The request: struct tfm_crypto_pack_iovec iov = {.op_handle = ...}.
Send(o, h) == sent' = [obj |-> o, h |-> h]

\* out_vec[0] = {&(operation->handle), sizeof(uint32_t)}: the service writes
\* the handle into the caller's object in place, whatever the status.
StoreHandle(o, v, ok) == handle' = [handle EXCEPT ![o] = v]

\* The service returns handle v for operation o, with status ok / not ok.
ReturnHandle(o, v, ok) == StoreHandle(o, v, ok)

\* The service answers without writing the handle vector.
NoHandleReturned == UNCHANGED handle

(***************************************************************************)
(* The four shapes of multipart call.                                      *)
(***************************************************************************)

\* *_setup: iov.op_handle = operation->handle, out_vec = {&operation->handle}.
Setup(o) ==
  /\ Send(o, handle[o])
  /\ \/ /\ SetupRejectsBound /\ handle[o] # 0            \* PSA_ERROR_BAD_STATE
        /\ NoHandleReturned /\ UNCHANGED ctx
     \/ /\ ~(SetupRejectsBound /\ handle[o] # 0)
        /\ \/ /\ Full                                   \* INSUFFICIENT_MEMORY
              /\ NoHandleReturned /\ UNCHANGED ctx
           \/ \E h \in FreeHandles :
                /\ ~Full
                /\ ctx' = [ctx EXCEPT ![h] = [owner |-> o, kind |-> Kind[o]]]
                /\ ReturnHandle(o, h, TRUE)

\* An intermediate step (update, set_iv, generate_nonce, input_bytes ...).
\* hasHandleOut: out_vec[0] is &operation->handle.  On success the service
\* may move the context to a new handle, which it can only tell the client
\* through that vector.
Step(o, hasHandleOut) ==
  LET h == handle[o] IN
  /\ Send(o, h)
  /\ IF ~Owned(h, Kind[o])
     THEN NoHandleReturned /\ UNCHANGED ctx             \* PSA_ERROR_BAD_STATE
     ELSE \/ /\ UNCHANGED ctx                           \* success, same handle
             /\ IF hasHandleOut THEN ReturnHandle(o, h, TRUE) ELSE NoHandleReturned
          \/ \E h2 \in FreeHandles :                     \* success, moved
               /\ hasHandleOut
               /\ ctx' = [ctx EXCEPT ![h2] = ctx[h], ![h] = FREE]
               /\ ReturnHandle(o, h2, TRUE)
          \/ /\ UNCHANGED ctx                           \* failure, kept
             /\ NoHandleReturned
          \/ /\ hasHandleOut                            \* failure, released
             /\ ctx' = [ctx EXCEPT ![h] = FREE]
             /\ ReturnHandle(o, 0, FALSE)

\* *_finish and *_verify: the service releases the context and returns 0;
\* a failed finish may also leave the context for the caller to abort.
Finish(o) ==
  LET h == handle[o] IN
  /\ Send(o, h)
  /\ IF ~Owned(h, Kind[o])
     THEN NoHandleReturned /\ UNCHANGED ctx
     ELSE \/ /\ ctx' = [ctx EXCEPT ![h] = FREE]
             /\ \E ok \in BOOLEAN : ReturnHandle(o, 0, ok)
          \/ /\ UNCHANGED ctx
             /\ NoHandleReturned

\* *_abort: valid in every state; releases the context and returns 0.
Abort(o) ==
  LET h == handle[o] IN
  /\ Send(o, h)
  /\ IF h = 0 \/ ~Owned(h, Kind[o])
     THEN NoHandleReturned /\ UNCHANGED ctx
     ELSE /\ ctx' = [ctx EXCEPT ![h] = FREE]
          /\ ReturnHandle(o, 0, TRUE)

\* A call refused by a local check before API_DISPATCH: nothing is sent
\* and neither the object nor the service changes.
LocalReject == sent' = NoReq /\ UNCHANGED << handle, ctx >>

\* Mutant: the check on the target of psa_hash_clone left out.
CloneTargetCheckDropped(t) == FALSE

\* psa_hash_clone: if (target_operation && (target_operation->handle != 0))
\* return PSA_ERROR_BAD_STATE, before any dispatch.
CloneTargetBound(t) == handle[t] # 0

\* Mutant: the clone's handle written into the source object.
CloneIntoSource(s, t) ==
  /\ Send(s, handle[s])
  /\ IF Owned(handle[s], "hash") /\ ~Full
     THEN \E h \in FreeHandles :
            /\ ctx' = [ctx EXCEPT ![h] = [owner |-> t, kind |-> "hash"]]
            /\ handle' = [handle EXCEPT ![s] = h]
     ELSE NoHandleReturned /\ UNCHANGED ctx

\* The dispatch of psa_hash_clone: iov.op_handle = source_operation->handle,
\* out_vec = {target_operation, sizeof(psa_hash_operation_t)}.  The service
\* copies the source context into a fresh one and returns its handle into
\* the target object.
CloneDispatch(s, t) ==
  /\ Send(s, handle[s])
  /\ IF Owned(handle[s], "hash") /\ ~Full
     THEN \E h \in FreeHandles :
            /\ ctx' = [ctx EXCEPT ![h] = [owner |-> t, kind |-> "hash"]]
            /\ ReturnHandle(t, h, TRUE)
     ELSE NoHandleReturned /\ UNCHANGED ctx

(***************************************************************************)
(* The psa_* functions, one action each.                                   *)
(***************************************************************************)

psa_hash_setup  == \E o \in ObjectsOf("hash") : Setup(o)
psa_hash_update == \E o \in ObjectsOf("hash") : Step(o, TRUE)
psa_hash_finish == \E o \in ObjectsOf("hash") : Finish(o)
psa_hash_verify == \E o \in ObjectsOf("hash") : Finish(o)
psa_hash_abort  == \E o \in ObjectsOf("hash") : Abort(o)

psa_hash_clone ==
  \E s, t \in ObjectsOf("hash") :
    IF CloneTargetBound(t)
    THEN LocalReject
    ELSE CloneDispatch(s, t)

psa_cipher_encrypt_setup == \E o \in ObjectsOf("cipher") : Setup(o)
psa_cipher_decrypt_setup == \E o \in ObjectsOf("cipher") : Setup(o)
psa_cipher_generate_iv   == \E o \in ObjectsOf("cipher") : Step(o, TRUE)
psa_cipher_set_iv        == \E o \in ObjectsOf("cipher") : Step(o, TRUE)
psa_cipher_update        == \E o \in ObjectsOf("cipher") : Step(o, TRUE)
psa_cipher_finish        == \E o \in ObjectsOf("cipher") : Finish(o)
psa_cipher_abort         == \E o \in ObjectsOf("cipher") : Abort(o)

psa_mac_sign_setup    == \E o \in ObjectsOf("mac") : Setup(o)
psa_mac_verify_setup  == \E o \in ObjectsOf("mac") : Setup(o)
psa_mac_update        == \E o \in ObjectsOf("mac") : Step(o, TRUE)
psa_mac_sign_finish   == \E o \in ObjectsOf("mac") : Finish(o)
psa_mac_verify_finish == \E o \in ObjectsOf("mac") : Finish(o)
psa_mac_abort         == \E o \in ObjectsOf("mac") : Abort(o)

psa_aead_encrypt_setup  == \E o \in ObjectsOf("aead") : Setup(o)
psa_aead_decrypt_setup  == \E o \in ObjectsOf("aead") : Setup(o)
psa_aead_generate_nonce == \E o \in ObjectsOf("aead") : Step(o, TRUE)
psa_aead_set_nonce      == \E o \in ObjectsOf("aead") : Step(o, TRUE)
psa_aead_set_lengths    == \E o \in ObjectsOf("aead") : Step(o, TRUE)
\* The sanitize checks of the optional buffer (and, for finish and verify,
\* of the length pointer) may refuse these four before any dispatch.
psa_aead_update_ad ==
  \E o \in ObjectsOf("aead") : Step(o, TRUE) \/ LocalReject
psa_aead_update ==
  \E o \in ObjectsOf("aead") : Step(o, TRUE) \/ LocalReject
psa_aead_finish ==
  \E o \in ObjectsOf("aead") : Finish(o) \/ LocalReject
psa_aead_verify ==
  \E o \in ObjectsOf("aead") : Finish(o) \/ LocalReject
psa_aead_abort          == \E o \in ObjectsOf("aead") : Abort(o)

psa_key_derivation_setup         == \E o \in ObjectsOf("kdf") : Setup(o)
psa_key_derivation_set_capacity  == \E o \in ObjectsOf("kdf") : Step(o, TRUE)
psa_key_derivation_get_capacity  == \E o \in ObjectsOf("kdf") : Step(o, TRUE)
psa_key_derivation_input_bytes   == \E o \in ObjectsOf("kdf") : Step(o, TRUE)
psa_key_derivation_input_key     == \E o \in ObjectsOf("kdf") : Step(o, TRUE)
psa_key_derivation_key_agreement == \E o \in ObjectsOf("kdf") : Step(o, TRUE)
psa_key_derivation_output_key    == \E o \in ObjectsOf("kdf") : Step(o, TRUE)
\* out_vec = {output} only: the handle cannot come back.
psa_key_derivation_output_bytes  == \E o \in ObjectsOf("kdf") : Step(o, FALSE)
psa_key_derivation_abort         == \E o \in ObjectsOf("kdf") : Abort(o)

(***************************************************************************)
(* Specification.                                                          *)
(***************************************************************************)

Init ==
  /\ handle \in [Objects -> InitHandles]
  /\ ctx = [h \in Handles |-> FREE]
  /\ sent = NoReq

Next ==
  \/ psa_hash_setup \/ psa_hash_update \/ psa_hash_finish \/ psa_hash_verify
  \/ psa_hash_abort \/ psa_hash_clone
  \/ psa_cipher_encrypt_setup \/ psa_cipher_decrypt_setup \/ psa_cipher_generate_iv
  \/ psa_cipher_set_iv \/ psa_cipher_update \/ psa_cipher_finish \/ psa_cipher_abort
  \/ psa_mac_sign_setup \/ psa_mac_verify_setup \/ psa_mac_update
  \/ psa_mac_sign_finish \/ psa_mac_verify_finish \/ psa_mac_abort
  \/ psa_aead_encrypt_setup \/ psa_aead_decrypt_setup \/ psa_aead_generate_nonce
  \/ psa_aead_set_nonce \/ psa_aead_set_lengths \/ psa_aead_update_ad
  \/ psa_aead_update \/ psa_aead_finish \/ psa_aead_verify \/ psa_aead_abort
  \/ psa_key_derivation_setup \/ psa_key_derivation_set_capacity
  \/ psa_key_derivation_get_capacity \/ psa_key_derivation_input_bytes
  \/ psa_key_derivation_input_key \/ psa_key_derivation_key_agreement
  \/ psa_key_derivation_output_key \/ psa_key_derivation_output_bytes
  \/ psa_key_derivation_abort

Spec == Init /\ [][Next]_vars

(***************************************************************************)
(* Properties.                                                             *)
(***************************************************************************)

TypeOK ==
  /\ handle \in [Objects -> Handles \cup { 0 }]
  /\ ctx \in [Handles -> { FREE } \cup [owner : Objects, kind : { Kind[o] : o \in Objects }]]
  /\ sent \in { NoReq } \cup [obj : Objects, h : Handles \cup { 0 }]
  /\ Cardinality({ h \in Handles : Live(h) }) <= CONC_OPER_NUM

\* No service context is leaked: every live context is still named by the
\* handle field of the operation object it belongs to, so the caller can
\* still finish or abort it.  A clone onto a bound object, or a setup of a
\* bound object that the service accepts, would lose the old context.
NoOrphanContext ==
  \A h \in Handles : Live(h) => handle[ctx[h].owner] = h

\* No operation object holds a stale handle: a non-zero handle field names
\* a live context that belongs to that object.
NoDanglingHandle ==
  \A o \in Objects : handle[o] # 0 => Live(handle[o]) /\ ctx[handle[o]].owner = o

\* Spec 5: calls on two operation objects never interfere.  No request
\* names a live context that belongs to another object, which a stale or
\* uninitialised handle field would do once the service reuses the value.
NoCrossTalk ==
  [][sent' # NoReq /\ Live(sent'.h) => ctx[sent'.h].owner = sent'.obj]_vars

\* The refinement mapping: an object is bound when its handle field is not
\* 0; the service's count of contexts is the number of live handles.
Lifecycle == INSTANCE OperationLifecycle
               WITH active <- { o \in Objects : handle[o] # 0 },
                    held <- Cardinality({ h \in Handles : Live(h) })

\* Spec section 3: every behaviour of the streaming calls is one of the
\* abstract lifecycle.  An object becomes bound only by its own setup or as
\* the unbound target of a clone, unbound only when its context is
\* released, and the service holds a context exactly for each bound
\* object.  A clone onto a bound target, or a handle left in an object whose
\* context the service released, is a step the abstract lifecycle refuses.
LifecycleRefined == Lifecycle!Spec

====
