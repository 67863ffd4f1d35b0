# TLA+ models of the TF-M crypto client API

The code modelled is `src/secure_fw/partitions/crypto/tfm_crypto_secure_api.c`.
It is the client side of the TF-M crypto service: about eighty `psa_*`
functions. Each one packs its arguments into a request and dispatches it to
the crypto partition. Alongside it is `src/secure_fw/spm/ffm/psa_api.h`, which
declares the channel (`psa_call`) and its limits.

## Inventory

### Parts of the system and how they interact

- **Envelope Builder**: the `struct tfm_crypto_pack_iovec iov` of each
  function. It holds `srv_id`, `key_id`, `alg`, `op_handle` (the
  continuation handle, taken from `operation->handle`), and, for AEAD, an
  inline nonce of at most `TFM_CRYPTO_MAX_NONCE_LENGTH` bytes.
- **Vector Assembler**: the `psa_invec in_vec[]` / `psa_outvec out_vec[]`
  arrays. `in_vec[0]` is always the `iov`. In multipart calls `out_vec[0]` is
  `&operation->handle`. Optional buffers (AEAD additional data, asymmetric
  salt, AEAD finish ciphertext, AEAD verify plaintext) are always the last
  vector. Under `TFM_PSA_API` they are dropped (`in_len--` / `out_len--`)
  when absent.
- **Local Precondition Checks**:
  - the `*_MODULE_DISABLED` builds;
  - "sanitize the optional input/output" (a NULL buffer with a non-zero
    length);
  - the nonce length check;
  - the bound-target check of `psa_hash_clone`;
  - `psa_generate_random` with size 0.
- **Channel Dispatcher**: `API_DISPATCH`. This is `psa_call` for the IPC
  binding, or a `tfm_crypto_*_veneer` for the library binding. `psa_call`
  takes at most `PSA_MAX_IOVEC` (4) vectors in total, and the service's
  `psa_write` never writes past an output vector's capacity.
- **Response Unpacker**: after the dispatch, `*x_length = out_vec[i].len`.
  The handle is written by the service straight into `operation->handle`.
- **Crypto service** (not in this repository): it owns the operation
  contexts named by handles. It holds at most `CONC_OPER_NUM` of them at
  once. It allocates a handle on setup and clone, and releases the context
  on finish, verify and abort.

The layer holds no state of its own. The state that matters is:
- the caller's variables it writes: lengths, and the handle of each
  operation object;
- the request it puts on the channel;
- the service's context table, which it reaches through the handle.

### Hard behaviours (the hazards in PROJECT.json)

- Optional vectors trimmed or not, depending on the binding.
- Lengths copied back whatever the status.
- A length written through a pointer that may be NULL.
- The nonce boundary.
- The `PSA_MAX_IOVEC` limit in `psa_aead_finish`.
- The handle threaded from call to call over interleaved operations, while
  the service moves, releases and reuses handle values.
- `psa_hash_clone` onto a bound target.
- `psa_key_derivation_output_bytes`, which has no handle vector.
- Setup of an object whose handle is not 0.
- A locally refused AEAD call, which must leave the object bound so the
  caller can still abort it.

## Modules

| Module | Models | State |
|---|---|---|
| `CryptoIovec` | The request built by every call whose vectors carry more than the header and the handle (one-shot calls, key management, AEAD calls with optional buffers, streaming calls that report a length), with its local checks, trimming and length copies | `req` (the request on the channel with the reply), `last` (the last call and its return), `lenOut` (the caller's `*_length` variables), `nullWrite` (a store through a NULL length pointer happened) |
| `CryptoOperation` | The 38 multipart functions and `psa_hash_clone`, over several operation objects, with a service modelled from the spec | `handle` (each object's `handle` field), `ctx` (the service's context table), ghost `sent` (the last request) |
| `OperationLifecycle` | The abstract promise of the streaming calls (spec section 3): each object is unbound or bound, and the service holds one context per bound object | `active` (the bound objects), `held` (the service's context count) |
| `AtomicCall` | The channel as the client assumes it (`API_DISPATCH` as one blocking step): a client is blocked on a request until it is answered with output lens within the capacities, and every call is answered | `pend` (the request each client is blocked on), `ret` (the lens it got back) |
| `SpmCall` | The SPM exchange behind `psa_call`, from the contract in `psa_api.h`: `psa_call`, `psa_wait`+`psa_get`, `psa_read`, `psa_skip`, `psa_write`, `psa_reply`, with several client threads | `msg` (each client's message: idle, asserted or got, with its vector sizes), `rd` / `wr` (bytes read and written per vector), `cur` (the message the partition is handling), `ret` |
| `SpmSignals` | The signals of one partition and the calls that read and clear them (`psa_wait`, `psa_get`, `psa_notify`, `psa_clear`, `psa_eoi`, `psa_reset_signal`, `psa_irq_enable`, `psa_irq_disable`, `psa_panic`), with `TFM_PROGRAMMER_ERROR` | `asserted`, `msgs` (queued messages; the service signal is asserted while there are any), `enabled`, `pending` (the last wait result not yet handled), `panicked`, ghost `misused` |
| `MC_CryptoIovec`, `MC_CryptoOperation`, `MC_SpmCall`, `MC_SpmSignals` | Model-checking instances | |

### CryptoIovec

- Each `psa_*` action is one whole call. Its inputs are `\E` over pointers
  (`NULL` or `BUF`) and lengths in `Lens`.
- The local checks are the action's guards. They end in `Return`, which
  does not dispatch.
- Otherwise `Dispatch` builds the vector sequences the code builds. With
  `TFM_PSA_API` they are trimmed by `TrimInput` / `TrimOutput`.
- The service then chooses any status and any reply lengths within the
  capacities (`Replies`, after `psa_write`).
- The `*_length` copies are applied by the function's `Unpack` operator. A
  copy through a NULL pointer sets `nullWrite`.
- `NotSupported` is every function of a family in `DISABLED`.
- The key calls send the key id in the header, except `psa_open_key`, which
  sends it as `in_vec[1]`. Close, destroy and purge use
  `API_DISPATCH_NO_OUTVEC`, so they have no output vector.
  `psa_reset_key_attributes` drops the status.
- `StreamOutput` covers the five streaming calls that copy
  `*x_length = out_vec[1].len`: `psa_cipher_generate_iv`,
  `psa_cipher_update`, `psa_cipher_finish`, `psa_hash_finish` and
  `psa_mac_sign_finish`. `psa_aead_generate_nonce` reports
  `*nonce_length` the same way.

### CryptoOperation

- Each `psa_*` multipart function is an action on any object of its kind.
  There are four call shapes:
  - `Setup`;
  - `Step`, with or without a handle output vector;
  - `Finish`;
  - `Abort`.
- The client part of each shape comes from the code:
  - `op_handle = operation->handle`, as `Send`;
  - the service writes into `&operation->handle` whatever the status, as
    `StoreHandle`;
  - `psa_hash_clone`'s local check is `CloneTargetBound`;
  - the sanitize checks of the four AEAD calls with an optional buffer are
    `LocalReject`, which sends nothing.
- The service part follows the spec, because the service is not in this
  repository. It:
  - rejects handles that are not live or are of the wrong kind;
  - allocates fresh handles up to `CONC_OPER_NUM`;
  - may move a context to a new handle on a step that has the handle
    vector;
  - on failure, keeps or releases the context;
  - always releases the context on abort.
- Handle values are reused after release. This is what makes stale handles
  dangerous.
- The refinement `LifecycleRefined` uses an `INSTANCE OperationLifecycle`
  with two mappings:
  - `active` is the set of objects whose `handle` is not 0;
  - `held` is the number of live handles.

### SpmCall and AtomicCall

- `psa_call(c)` picks one of the request shapes the crypto client builds.
  An `ASSUME` states that they fit in `PSA_MAX_IOVEC`; `CryptoIovec`'s
  `RequestShape` checks that. So the "does not return" case of
  `psa_call` is never reached from this client.
- `psa_get(c)` stands for `psa_wait(PSA_BLOCK)` returning with the signal
  asserted, followed by `psa_get`. It binds the partition (`cur`) to one
  message.
- `psa_read` / `psa_skip` advance a vector's position by
  `min(num_bytes, remaining)` (`Consumed`). `psa_write` is enabled only
  when it fits the vector (`WriteFits`), because a write past the end is a
  programmer error. So the capacity half of `AtomicCallRefined` follows
  from that guard; what the refinement checks about code is that the
  lens reach the right client and the right vector.
- `psa_reply(c)` sets each `out_vec[i].len` to the bytes written, frees the
  message (`FreeMessage`) and releases the partition (`ReleasePartition`).
- `AtomicCallRefined` maps `pend[c]` to the shape of `c`'s message while it
  is not idle. The fine-grained exchange then implements `AtomicCall!Spec`,
  including its fairness. This is the composition: `CryptoIovec` and
  `CryptoOperation` treat `Dispatch` as that atomic call.

### SpmSignals

- Each partition call is an action over any signal argument. A call that
  the header marks "PROGRAMMER ERROR" takes the secure-caller branch of
  `TFM_PROGRAMMER_ERROR` (`ProgrammerError`), which is `tfm_core_panic()`.
  After it, nothing runs.
- `psa_get(s)` delivers a message only for the service signal with a
  message queued. `psa_clear`, `psa_eoi` and `psa_reset_signal` clear the
  doorbell, a SLIH signal or a FLIH signal only when it is asserted
  (`ClearSignal`).
- The return value of `psa_irq_disable` is not modelled. The note in the
  header says it is always 1 and must not be used.
- `psa_irq_disable` leaves an asserted signal asserted (`IrqOff`). The
  header does not say so; `WaitResultStaysValid` depends on it.
- The environment queues messages (`Incoming`, a client's `psa_call`),
  rings the doorbell (another partition's `psa_notify`, with a valid or
  invalid partition id) and fires enabled interrupt lines (`Interrupt`).
- The ghost `misused` records a partition call that was not for a signal
  of its last wait result, or not the call of that signal's kind, or
  `psa_panic`.

## Runs

| Run | cfg | Expect | Shows |
|---|---|---|---|
| iovec_ipc | `CryptoIovec_ipc.cfg` | pass | Under IPC, four properties hold for every call: the request respects `PSA_MAX_IOVEC`, `in_vec[0]` is the header, the optional vector is present iff supplied, and it is last (`RequestShape`). Local rejection happens exactly for the malformed calls (`LocalRejectionExact`). Reported lengths never exceed what was written (`ReportedLengthIsProduced`). An elided optional output reports 0 (`ElidedOutputReportsZero`). |
| iovec_disabled | `CryptoIovec_disabled.cfg` | pass | Disabled families return NOT_SUPPORTED, never dispatch, and leave the others working. |
| iovec_nullwrite | `CryptoIovec_nullwrite.cfg` | violation | `psa_aead_finish` writes `*ciphertext_length = 0` through NULL. |
| iovec_failure | `CryptoIovec_failure.cfg` | violation | Lengths are copied on failure, contrary to spec 4.4. |
| iovec_nonce | `CryptoIovec_nonce.cfg` | violation | A NULL nonce with a non-zero length is silently sent as length 0. |
| iovec_veneer | `CryptoIovec_veneer.cfg` | violation | The library binding sends `{NULL, 0}` instead of dropping the vector. |
| operation | `CryptoOperation.cfg` | pass | No live context loses its owner's handle (`NoOrphanContext`), and no object holds a stale handle (`NoDanglingHandle`). The streaming calls also implement the abstract lifecycle (`LifecycleRefined`). |
| operation_uninit | `CryptoOperation_uninit.cfg` | violation | An uninitialised object's garbage handle reaches another object's context. |
| spm_call | `SpmCall.cfg` | pass | With two client threads, the partition is bound only to a message it has got (`TypeOK`). The exchange implements the atomic call, with lens within capacity (`AtomicCallRefined`). The liveness half of the refinement (every call is answered) rests on the fairness below. |
| spm_signals | `SpmSignals.cfg` | pass | A partition that handles each signal of its last wait result once, with the call of its kind, never panics, whatever happens in between (`WaitResultStaysValid`). |
| operation_setupbound | `CryptoOperation_setupbound.cfg` | violation | If the service accepts setup on a bound object, the old context leaks. |

### Bounds

- **CryptoIovec**:
  - `Lens = 0..1` covers every distinction the code makes: zero versus
    non-zero size, and a reply shorter than its capacity.
  - `TFM_CRYPTO_MAX_NONCE_LENGTH = 1` with nonce lengths `0..2` covers below,
    at and above the limit.
  - A behaviour is a sequence of whole calls. Every property is about a
    single call or a single step, so a depth of 3 is enough.
- **CryptoOperation**:
  - six objects, two of them hash objects so that clone happens between
    two objects of one kind;
  - `CONC_OPER_NUM = 3` and four handle values, so three objects can be
    bound at once, the service can be full, and it can reuse a released
    value while an object still holds it.

- **SpmCall**:
  - two clients, so messages compete for the one partition;
  - three request shapes from the crypto client (`psa_aead_finish`,
    which uses all four vectors, `psa_hash_update` and `psa_close_key`,
    which has no output vector);
  - buffer sizes 1 and 2 with `MaxBytes = 1`, so partial and complete
    reads and writes both occur, as does a write refused at capacity.

- **SpmSignals**: the service signal, the doorbell, one SLIH and one FLIH
  interrupt, with up to two queued messages. One interrupt of each kind
  covers both clearing calls. Two messages let `psa_get` both leave the
  service signal asserted and drain it. Deadlock is not checked, because
  after `tfm_core_panic()` the system stops.

### Fairness

- **CryptoIovec, CryptoOperation**: none is assumed. Every call is one
  synchronous, blocking `psa_call`, and the layer has no retry, timeout or
  background activity. A context is released only when the caller chooses
  to finish or abort (spec section 5).
- **SpmSignals**: none. Its property is a safety property, and the
  partition's handler loop, which would justify fairness, is not in this
  repository.
- **SpmCall**: `psa_reply(c)` is weakly fair, and `psa_get(c)` is strongly
  fair.
  - The weak fairness is the partition's handler: it replies to every
    message it gets.
  - The strong fairness comes from `psa_wait(PSA_BLOCK)`. The wait returns
    whenever a signal is asserted (`psa_api.h` lines 119-121). The
    partition's loop calls `psa_get` for an asserted signal. A message that
    is asserted again and again, while others are handled, is eventually
    delivered.
  - This describes the partition's service loop, which is not in this
    repository. The liveness half of `AtomicCallRefined` is
    therefore a property of the exchange under that loop, not of code in
    this repository.

## Not modelled

- Key storage and key lifetimes belong to the service (spec section 1), so
  only the requests of the key calls are modelled.
- `psa_reset_key_attributes` returns `PSA_ERROR_NOT_SUPPORTED` from a
  `void` function under `TFM_CRYPTO_KEY_MODULE_DISABLED`. That is a
  compile-time defect, not behaviour a model can check.
- `psa_crypto_init` has no state.
- The connection calls of `psa_api.h` are not modelled: `psa_connect`,
  `psa_close`, `psa_version`, `psa_framework_version` and
  `psa_set_rhandle`. The crypto client uses the stateless
  `TFM_CRYPTO_HANDLE` and never makes them. `SpmCall`'s requests never
  trigger `TFM_PROGRAMMER_ERROR` (the `ASSUME` on request shapes);
  `SpmSignals` models its panic branch.
- The non-secure branch of `TFM_PROGRAMMER_ERROR` (return the error
  status) is not modelled: every caller modelled here is secure.
- The CC312 accelerator configuration consists of compile-time macros.
- The data bytes and the crypto algorithms are out of scope for this layer.

## Plan for later sittings

Done so far:
- the key-management requests;
- the `nonce_length` copy of `psa_aead_generate_nonce`;
- the streaming calls that report a length;
- the abstract lifecycle and its refinement;
- the SPM exchange behind `psa_call` and its refinement of the atomic
  call, with fairness and liveness;
- the partition's signal calls and the programmer-error panic.

Remaining:
1. A module composing the `CryptoIovec` request shapes with
   `CryptoOperation` for the AEAD streaming calls. Under the veneer binding
   it would check that a refused `psa_aead_finish` keeps the handle.
2. The veneer binding for `CryptoOperation`, which differs only in
   dispatch.
