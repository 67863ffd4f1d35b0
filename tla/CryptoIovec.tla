----------------------------- MODULE CryptoIovec -----------------------------
(***************************************************************************)
(* The client side of the TF-M crypto service for the one-shot calls and   *)
(* the calls with optional parameters (tfm_crypto_secure_api.c).           *)
(*                                                                         *)
(* Each psa_* function checks a few arguments locally, packs a header      *)
(* (struct tfm_crypto_pack_iovec) and the caller's buffers into an array   *)
(* of input vectors and an array of output vectors, drops an absent        *)
(* optional vector from the tail, calls the service through psa_call (IPC  *)
(* binding) or a veneer (library binding), and copies the length the       *)
(* service left in an output vector to the caller's *_length variable.     *)
(*                                                                         *)
(* One step of the model is one whole call of one psa_* function, with its *)
(* arguments chosen from small sets.  The service is the environment: it   *)
(* answers with any status and writes at most the capacity of each output  *)
(* vector (psa_write cannot write past the end; the SPM then overwrites    *)
(* each len with the number of bytes written).                             *)
(*                                                                         *)
(* Data is abstracted to references (NULL or a caller buffer BUF) and      *)
(* lengths from the small set Lens.                                        *)
(***************************************************************************)
EXTENDS Naturals, Sequences, SequencesExt, TLC

CONSTANTS
  TFM_PSA_API,                  \* TRUE: IPC binding (psa_call); FALSE: veneers
  DISABLED,                     \* families built with *_MODULE_DISABLED
  TFM_CRYPTO_MAX_NONCE_LENGTH,  \* capacity of the inline nonce of the header
  PSA_MAX_IOVEC,                \* bound on in_num + out_num of one psa_call
  Lens,                         \* lengths and sizes a caller may pass
  NULL,                         \* the null pointer
  BUF                           \* a valid caller buffer

ASSUME TFM_PSA_API \in BOOLEAN
ASSUME TFM_CRYPTO_MAX_NONCE_LENGTH \in Nat
ASSUME PSA_MAX_IOVEC \in Nat
ASSUME Lens \subseteq Nat /\ 0 \in Lens
ASSUME NULL # BUF

VARIABLES
  req,        \* the last request the channel carried, with the service's reply
  last,       \* the last psa_* call: function, arguments, dispatched?, status
  lenOut,     \* the caller's *_length variables, one per kind of output buffer
  nullWrite   \* a *_length value has been stored through a NULL pointer

vars == << req, last, lenOut, nullWrite >>

Ptr == { NULL, BUF }

SUCCESS          == "PSA_SUCCESS"
INVALID_ARGUMENT == "PSA_ERROR_INVALID_ARGUMENT"
NOT_SUPPORTED    == "PSA_ERROR_NOT_SUPPORTED"
SERVICE_ERROR    == "service error"   \* any other status, opaque here

\* The statuses the service may answer with.
ServiceStatus == { SUCCESS, SERVICE_ERROR }

\* The kinds of output buffer whose produced length a caller is told.
LenRoles == { "output", "tag", "ciphertext", "plaintext", "nonce" }

\* The family (crypto module) each function belongs to.
FamilyOf == [
  psa_hash_compute      |-> "hash",     psa_hash_compare       |-> "hash",
  psa_mac_compute       |-> "mac",      psa_mac_verify         |-> "mac",
  psa_cipher_encrypt    |-> "cipher",   psa_cipher_decrypt     |-> "cipher",
  psa_sign_message      |-> "sign",     psa_verify_message     |-> "sign",
  psa_sign_hash         |-> "sign",     psa_verify_hash        |-> "sign",
  psa_raw_key_agreement |-> "kdf",      psa_generate_random    |-> "rng",
  psa_export_key        |-> "key",      psa_export_public_key  |-> "key",
  psa_open_key          |-> "key",      psa_close_key          |-> "key",
  psa_import_key        |-> "key",      psa_destroy_key        |-> "key",
  psa_get_key_attributes |-> "key",     psa_reset_key_attributes |-> "key",
  psa_purge_key         |-> "key",      psa_copy_key           |-> "key",
  psa_generate_key      |-> "key",      psa_aead_generate_nonce |-> "aead",
  psa_hash_finish       |-> "hash",     psa_mac_sign_finish    |-> "mac",
  psa_cipher_generate_iv |-> "cipher",  psa_cipher_update      |-> "cipher",
  psa_cipher_finish     |-> "cipher",
  psa_aead_encrypt      |-> "aead",     psa_aead_decrypt       |-> "aead",
  psa_aead_update_ad    |-> "aead",     psa_aead_update        |-> "aead",
  psa_aead_finish       |-> "aead",     psa_aead_verify        |-> "aead",
  psa_asymmetric_encrypt |-> "asym",    psa_asymmetric_decrypt |-> "asym" ]

Functions == DOMAIN FamilyOf

\* A psa_invec / psa_outvec: the kind of buffer, its base and its len.
Vec(role, base, len) == [role |-> role, base |-> base, len |-> len]

\* The header vector, in_vec[0] of every call.
Iov == Vec("iov", BUF, 1)

\* The handle vector of a multipart call, out_vec[0].
HandleVec == Vec("handle", BUF, 1)

(***************************************************************************)
(* The channel and the service.                                            *)
(***************************************************************************)

\* What the service may leave in the output vectors: each len overwritten
\* with the bytes written, which psa_write keeps within the capacity.
Replies(outv) ==
  { [i \in DOMAIN outv |-> [outv[i] EXCEPT !.len = w[i]]] :
      w \in { w \in [DOMAIN outv -> Lens] : \A i \in DOMAIN outv : w[i] <= outv[i].len } }

\* No request: the last call did not use the channel.
NoReq == [fn |-> "none", in |-> << >>, out |-> << >>, reply |-> << >>, nonceLen |-> 0]

\* A call that returns before the channel is used.
Return(fn, a, st) ==
  /\ last' = [fn |-> fn, args |-> a, dispatched |-> FALSE, ret |-> st]
  /\ req' = NoReq
  /\ UNCHANGED << lenOut, nullWrite >>

\* API_DISPATCH / psa_call followed by the copies of out_vec[i].len to the
\* caller's *_length variables: Unpack(reply) maps each pointer written
\* through (a LenRoles variable, or NULL) to the value stored.
Dispatch(fn, a, inv, outv, nonceLen, Unpack(_)) ==
  \E st \in ServiceStatus, rep \in Replies(outv) :
    LET w == Unpack(rep) IN
    /\ req' = [fn |-> fn, in |-> inv, out |-> outv, reply |-> rep, nonceLen |-> nonceLen]
    /\ last' = [fn |-> fn, args |-> a, dispatched |-> TRUE, ret |-> st]
    /\ lenOut' = [r \in LenRoles |-> IF r \in DOMAIN w THEN w[r] ELSE lenOut[r]]
    /\ nullWrite' = (nullWrite \/ NULL \in DOMAIN w)

NoReport(rep) == [r \in {} |-> 0]

\* Mutant: the #ifdef of a family ignored.
EnabledAlways(fam) == TRUE

\* The #ifdef TFM_CRYPTO_*_MODULE_DISABLED around every function body.
Enabled(fam) == fam \notin DISABLED

\* A call of a fixed-shape function of an enabled family.
Call(fn, a, inv, outv, Unpack(_)) ==
  /\ Enabled(FamilyOf[fn])
  /\ Dispatch(fn, a, inv, outv, 0, Unpack)

(***************************************************************************)
(* Local checks and vector trimming shared by the functions below.         *)
(***************************************************************************)

\* "Sanitize the optional input/output": a NULL buffer with a non-zero length.
MismatchedOptional(ref, len) == ref = NULL /\ len # 0

\* Mutant: no length check before the nonce is copied into the header.
NonceCheckDropped(len) == FALSE

\* Mutant: off by one, a nonce of exactly the maximum length is rejected.
NonceTooLongOffByOne(len) == len >= TFM_CRYPTO_MAX_NONCE_LENGTH

NonceTooLong(len) == len > TFM_CRYPTO_MAX_NONCE_LENGTH

\* Mutant: the input vector dropped when its length is 0 instead of when
\* its reference is NULL.
TrimInputByLength(inv, ref) ==
  IF TFM_PSA_API /\ Last(inv).len = 0 THEN Front(inv) ELSE inv

\* IPC binding: in_len-- when the optional input (the last vector) is NULL.
TrimInput(inv, ref) == IF TFM_PSA_API /\ ref = NULL THEN Front(inv) ELSE inv

\* IPC binding: out_len-- when the optional output (the last vector) is NULL
\* or has size 0.
TrimOutput(outv) ==
  IF TFM_PSA_API /\ (Last(outv).base = NULL \/ Last(outv).len = 0)
  THEN Front(outv) ELSE outv

(***************************************************************************)
(* Fixed-shape one-shot functions.                                         *)
(***************************************************************************)

ReportOutput(rep) == "output" :> rep[1].len

psa_export_key ==
  \E size \in Lens :
    Call("psa_export_key", [out |-> size], << Iov >>,
         << Vec("output", BUF, size) >>, ReportOutput)

psa_export_public_key ==
  \E size \in Lens :
    Call("psa_export_public_key", [out |-> size], << Iov >>,
         << Vec("output", BUF, size) >>, ReportOutput)

\* A psa_key_id_t or psa_key_attributes_t the service fills in place.
KeyIdVec == Vec("key_id", BUF, 1)
AttrVec  == Vec("attributes", BUF, 1)

\* psa_open_key: the id travels in in_vec[1], not in the header.
psa_open_key ==
  Call("psa_open_key", [none |-> 0], << Iov, Vec("id", BUF, 1) >>, << KeyIdVec >>, NoReport)

\* API_DISPATCH_NO_OUTVEC: psa_call(..., (psa_outvec *)NULL, 0).
psa_close_key ==
  Call("psa_close_key", [none |-> 0], << Iov >>, << >>, NoReport)

psa_import_key ==
  \E len \in Lens :
    Call("psa_import_key", [in |-> len], << Iov, AttrVec, Vec("data", BUF, len) >>,
         << KeyIdVec >>, NoReport)

psa_destroy_key ==
  Call("psa_destroy_key", [none |-> 0], << Iov >>, << >>, NoReport)

psa_get_key_attributes ==
  Call("psa_get_key_attributes", [none |-> 0], << Iov >>, << AttrVec >>, NoReport)

\* A void function: (void)API_DISPATCH(...), the status is dropped.
psa_reset_key_attributes ==
  Call("psa_reset_key_attributes", [none |-> 0], << Iov >>, << AttrVec >>, NoReport)

psa_purge_key ==
  Call("psa_purge_key", [none |-> 0], << Iov >>, << >>, NoReport)

psa_copy_key ==
  Call("psa_copy_key", [none |-> 0], << Iov, AttrVec >>, << KeyIdVec >>, NoReport)

psa_generate_key ==
  Call("psa_generate_key", [none |-> 0], << Iov, AttrVec >>, << KeyIdVec >>, NoReport)

psa_hash_compute ==
  \E in, size \in Lens :
    Call("psa_hash_compute", [in |-> in, out |-> size],
         << Iov, Vec("input", BUF, in) >>, << Vec("output", BUF, size) >>, ReportOutput)

psa_hash_compare ==
  \E in, hash \in Lens :
    Call("psa_hash_compare", [in |-> in, hash |-> hash],
         << Iov, Vec("input", BUF, in), Vec("hash", BUF, hash) >>, << >>, NoReport)

psa_sign_message ==
  \E in, size \in Lens :
    Call("psa_sign_message", [in |-> in, out |-> size],
         << Iov, Vec("input", BUF, in) >>, << Vec("output", BUF, size) >>, ReportOutput)

psa_verify_message ==
  \E in, sig \in Lens :
    Call("psa_verify_message", [in |-> in, sig |-> sig],
         << Iov, Vec("input", BUF, in), Vec("signature", BUF, sig) >>, << >>, NoReport)

psa_sign_hash ==
  \E in, size \in Lens :
    Call("psa_sign_hash", [in |-> in, out |-> size],
         << Iov, Vec("hash", BUF, in) >>, << Vec("output", BUF, size) >>, ReportOutput)

psa_verify_hash ==
  \E in, sig \in Lens :
    Call("psa_verify_hash", [in |-> in, sig |-> sig],
         << Iov, Vec("hash", BUF, in), Vec("signature", BUF, sig) >>, << >>, NoReport)

psa_mac_compute ==
  \E in, size \in Lens :
    Call("psa_mac_compute", [in |-> in, out |-> size],
         << Iov, Vec("input", BUF, in) >>, << Vec("output", BUF, size) >>, ReportOutput)

psa_mac_verify ==
  \E in, mac \in Lens :
    Call("psa_mac_verify", [in |-> in, mac |-> mac],
         << Iov, Vec("input", BUF, in), Vec("mac", BUF, mac) >>, << >>, NoReport)

psa_cipher_encrypt ==
  \E in, size \in Lens :
    Call("psa_cipher_encrypt", [in |-> in, out |-> size],
         << Iov, Vec("input", BUF, in) >>, << Vec("output", BUF, size) >>, ReportOutput)

psa_cipher_decrypt ==
  \E in, size \in Lens :
    Call("psa_cipher_decrypt", [in |-> in, out |-> size],
         << Iov, Vec("input", BUF, in) >>, << Vec("output", BUF, size) >>, ReportOutput)

psa_raw_key_agreement ==
  \E in, size \in Lens :
    Call("psa_raw_key_agreement", [in |-> in, out |-> size],
         << Iov, Vec("peer_key", BUF, in) >>, << Vec("output", BUF, size) >>, ReportOutput)

\* No length is reported: the caller asked for exactly output_size bytes.
psa_generate_random ==
  \E size \in Lens :
    LET a == [out |-> size] IN
    /\ Enabled("rng")
    /\ IF size = 0
       THEN Return("psa_generate_random", a, SUCCESS)
       ELSE Dispatch("psa_generate_random", a, << Iov >>,
                     << Vec("random", BUF, size) >>, 0, NoReport)

(***************************************************************************)
(* Functions with an optional buffer.  The optional vector is always the   *)
(* last of its array, so dropping it shifts no other vector.               *)
(***************************************************************************)

\* psa_aead_encrypt and psa_aead_decrypt: the nonce is copied into the
\* header, the additional data is an optional third input vector.
AeadOneshot(fn, a) ==
  LET inv == << Iov, Vec("input", BUF, a.in), Vec("ad", a.opt, a.optLen) >>
  IN /\ Enabled("aead")
     /\ IF MismatchedOptional(a.opt, a.optLen) \/ NonceTooLong(a.nonceLen)
        THEN Return(fn, a, INVALID_ARGUMENT)
        ELSE Dispatch(fn, a, TrimInput(inv, a.opt), << Vec("output", BUF, a.out) >>,
                      IF a.nonce # NULL THEN a.nonceLen ELSE 0, ReportOutput)

AeadArgs ==
  [nonce : Ptr, nonceLen : 0 .. TFM_CRYPTO_MAX_NONCE_LENGTH + 1,
   opt : Ptr, optLen : Lens, in : Lens, out : Lens]

psa_aead_encrypt == \E a \in AeadArgs : AeadOneshot("psa_aead_encrypt", a)

psa_aead_decrypt == \E a \in AeadArgs : AeadOneshot("psa_aead_decrypt", a)

\* psa_asymmetric_encrypt and psa_asymmetric_decrypt: optional salt.
AsymOneshot(fn, a) ==
  LET inv == << Iov, Vec("input", BUF, a.in), Vec("salt", a.opt, a.optLen) >>
  IN /\ Enabled("asym")
     /\ IF MismatchedOptional(a.opt, a.optLen)
        THEN Return(fn, a, INVALID_ARGUMENT)
        ELSE Dispatch(fn, a, TrimInput(inv, a.opt), << Vec("output", BUF, a.out) >>,
                      0, ReportOutput)

AsymArgs == [opt : Ptr, optLen : Lens, in : Lens, out : Lens]

psa_asymmetric_encrypt == \E a \in AsymArgs : AsymOneshot("psa_asymmetric_encrypt", a)

psa_asymmetric_decrypt == \E a \in AsymArgs : AsymOneshot("psa_asymmetric_decrypt", a)

\* Mutant: the length of out_vec[0] (the handle) copied instead of out_vec[1].
ReportUpdateOutputWrongIndex(rep) == "output" :> rep[1].len

\* psa_aead_update: *output_length = out_vec[1].len.
ReportUpdateOutput(rep) == "output" :> rep[2].len

\* psa_aead_generate_nonce: *nonce_length = out_vec[1].len.
psa_aead_generate_nonce ==
  \E size \in Lens :
    Call("psa_aead_generate_nonce", [out |-> size], << Iov >>,
         << HandleVec, Vec("nonce", BUF, size) >>, LAMBDA rep : "nonce" :> rep[2].len)

\* The streaming calls that copy *x_length = out_vec[1].len, out_vec[0]
\* being the handle: the iv, the output, the hash or the MAC.
StreamOutput(fn, inv) ==
  \E size \in Lens :
    Call(fn, [out |-> size], inv, << HandleVec, Vec("output", BUF, size) >>, ReportUpdateOutput)

psa_cipher_generate_iv == StreamOutput("psa_cipher_generate_iv", << Iov >>)
psa_cipher_update ==
  \E in \in Lens : StreamOutput("psa_cipher_update", << Iov, Vec("input", BUF, in) >>)
psa_cipher_finish   == StreamOutput("psa_cipher_finish", << Iov >>)
psa_hash_finish     == StreamOutput("psa_hash_finish", << Iov >>)
psa_mac_sign_finish == StreamOutput("psa_mac_sign_finish", << Iov >>)

\* psa_aead_update_ad and psa_aead_update: the input itself is optional.
psa_aead_update_ad ==
  \E a \in [opt : Ptr, optLen : Lens] :
    /\ Enabled("aead")
    /\ IF MismatchedOptional(a.opt, a.optLen)
       THEN Return("psa_aead_update_ad", a, INVALID_ARGUMENT)
       ELSE Dispatch("psa_aead_update_ad", a,
                     TrimInput(<< Iov, Vec("input", a.opt, a.optLen) >>, a.opt),
                     << HandleVec >>, 0, NoReport)

psa_aead_update ==
  \E a \in [opt : Ptr, optLen : Lens, out : Lens] :
    /\ Enabled("aead")
    /\ IF MismatchedOptional(a.opt, a.optLen)
       THEN Return("psa_aead_update", a, INVALID_ARGUMENT)
       ELSE Dispatch("psa_aead_update", a,
                     TrimInput(<< Iov, Vec("input", a.opt, a.optLen) >>, a.opt),
                     << HandleVec, Vec("output", BUF, a.out) >>, 0, ReportUpdateOutput)

\* Mutant: the IPC binding leaves ciphertext_length untouched when the
\* ciphertext vector was dropped.
FinishLengthsNoZero(outv, ctLength, rep) ==
  IF Len(outv) = 3 THEN (ctLength :> rep[3].len) @@ ("tag" :> rep[2].len)
                   ELSE "tag" :> rep[2].len

\* The lengths psa_aead_finish copies back: *ciphertext_length (0 when the
\* IPC binding dropped the ciphertext vector) and *tag_length.
FinishLengths(outv, ctLength, rep) ==
  (ctLength :> IF Len(outv) = 3 THEN rep[3].len ELSE 0) @@ ("tag" :> rep[2].len)

\* psa_aead_finish: the ciphertext output is optional, and so (when it is
\* absent) may be the ciphertext_length pointer a.lenPtr.  The IPC binding
\* reports 0 for an absent ciphertext; the veneer binding reports out_vec[2].
psa_aead_finish ==
  \E a \in [opt : Ptr, optLen : Lens, lenPtr : Ptr, tag : Lens] :
    LET outv == TrimOutput(<< HandleVec, Vec("tag", BUF, a.tag),
                              Vec("ciphertext", a.opt, a.optLen) >>)
        ctLength == IF a.lenPtr = NULL THEN NULL ELSE "ciphertext"
    IN /\ Enabled("aead")
       /\ CASE MismatchedOptional(a.opt, a.optLen) ->
                 Return("psa_aead_finish", a, INVALID_ARGUMENT)
            [] TFM_PSA_API /\ Len(outv) = 3 /\ a.lenPtr = NULL ->
                 Return("psa_aead_finish", a, INVALID_ARGUMENT)
            [] OTHER ->
                 Dispatch("psa_aead_finish", a, << Iov >>, outv, 0,
                          LAMBDA rep : FinishLengths(outv, ctLength, rep))

\* psa_aead_verify: the plaintext output is optional, as for psa_aead_finish.
psa_aead_verify ==
  \E a \in [opt : Ptr, optLen : Lens, lenPtr : Ptr, tag : Lens] :
    LET outv == TrimOutput(<< HandleVec, Vec("plaintext", a.opt, a.optLen) >>)
        ptLength == IF a.lenPtr = NULL THEN NULL ELSE "plaintext"
    IN /\ Enabled("aead")
       /\ CASE MismatchedOptional(a.opt, a.optLen) ->
                 Return("psa_aead_verify", a, INVALID_ARGUMENT)
            [] TFM_PSA_API /\ Len(outv) = 2 /\ a.lenPtr = NULL ->
                 Return("psa_aead_verify", a, INVALID_ARGUMENT)
            [] OTHER ->
                 Dispatch("psa_aead_verify", a, << Iov, Vec("tag", BUF, a.tag) >>, outv, 0,
                          LAMBDA rep : ptLength :> IF Len(outv) = 2 THEN rep[2].len ELSE 0)

\* Every function of a family built with *_MODULE_DISABLED.
NotSupported ==
  \E fn \in Functions :
    /\ ~Enabled(FamilyOf[fn])
    /\ Return(fn, [none |-> 0], NOT_SUPPORTED)

(***************************************************************************)
(* Specification.                                                          *)
(***************************************************************************)

Init ==
  /\ req = NoReq
  /\ last = [fn |-> "none", args |-> [none |-> 0], dispatched |-> FALSE, ret |-> SUCCESS]
  /\ lenOut \in [LenRoles -> Lens]
  /\ nullWrite = FALSE

Next ==
  \/ psa_export_key \/ psa_export_public_key
  \/ psa_open_key \/ psa_close_key \/ psa_import_key \/ psa_destroy_key
  \/ psa_get_key_attributes \/ psa_reset_key_attributes \/ psa_purge_key
  \/ psa_copy_key \/ psa_generate_key \/ psa_aead_generate_nonce
  \/ psa_cipher_generate_iv \/ psa_cipher_update \/ psa_cipher_finish
  \/ psa_hash_finish \/ psa_mac_sign_finish
  \/ psa_hash_compute \/ psa_hash_compare
  \/ psa_sign_message \/ psa_verify_message \/ psa_sign_hash \/ psa_verify_hash
  \/ psa_mac_compute \/ psa_mac_verify
  \/ psa_cipher_encrypt \/ psa_cipher_decrypt
  \/ psa_raw_key_agreement \/ psa_generate_random
  \/ psa_aead_encrypt \/ psa_aead_decrypt
  \/ psa_asymmetric_encrypt \/ psa_asymmetric_decrypt
  \/ psa_aead_update_ad \/ psa_aead_update \/ psa_aead_finish \/ psa_aead_verify
  \/ NotSupported

Spec == Init /\ [][Next]_vars

(***************************************************************************)
(* Properties.                                                             *)
(***************************************************************************)

Roles == LenRoles \cup { "iov", "handle", "input", "ad", "salt", "hash",
                         "signature", "mac", "peer_key", "random",
                         "key_id", "attributes", "id", "data" }

TypeOK ==
  /\ lenOut \in [LenRoles -> Lens]
  /\ nullWrite \in BOOLEAN
  /\ last.fn \in Functions \cup { "none" }
  /\ last.dispatched \in BOOLEAN
  /\ last.ret \in ServiceStatus \cup { INVALID_ARGUMENT, NOT_SUPPORTED }
  /\ \A v \in { req.in, req.out, req.reply } :
       v \in Seq([role : Roles, base : Ptr, len : Lens])
  /\ req.nonceLen \in 0 .. TFM_CRYPTO_MAX_NONCE_LENGTH

\* The optional buffer of each function with one (spec 4.5).
OptionalRole == [
  psa_aead_encrypt       |-> "ad",    psa_aead_decrypt       |-> "ad",
  psa_asymmetric_encrypt |-> "salt",  psa_asymmetric_decrypt |-> "salt",
  psa_aead_update_ad     |-> "input", psa_aead_update        |-> "input",
  psa_aead_finish        |-> "ciphertext", psa_aead_verify   |-> "plaintext" ]

\* An optional input is supplied when its reference is not NULL; an optional
\* output when it is not NULL and has room for something.
Supplied(fn, a) ==
  /\ a.opt # NULL
  /\ fn \in { "psa_aead_finish", "psa_aead_verify" } => a.optLen # 0

\* Spec 3 (a) and (b), 8: a request never has more than PSA_MAX_IOVEC
\* vectors, starts with the header, and carries the optional vector exactly
\* when the caller supplied the optional buffer, as the last vector of its
\* array, so that dropping it moves no other vector.  This is what the
\* in_len-- / out_len-- of the IPC binding in psa_aead_encrypt, _decrypt,
\* _update_ad, _update, _finish, _verify and psa_asymmetric_* must achieve.
RequestShape ==
  last.dispatched =>
    /\ Len(req.in) + Len(req.out) <= PSA_MAX_IOVEC
    /\ req.in[1] = Iov
    /\ last.fn \in DOMAIN OptionalRole =>
         LET r == OptionalRole[last.fn] IN
         /\ (r \in { v.role : v \in ToSet(req.in) \cup ToSet(req.out) })
              <=> Supplied(last.fn, last.args)
         /\ \A v \in { req.in, req.out } : \A i \in DOMAIN v : v[i].role = r => i = Len(v)

\* The arguments spec 4.1, 4.2, 7 and 8 say are refused without a round
\* trip: a disabled family, a NULL optional buffer with a non-zero length,
\* an optional output without a length pointer, a nonce longer than the
\* header holds, and a request for zero random bytes.
LocallyRejected(fn, a) ==
  \/ FamilyOf[fn] \in DISABLED
  \/ fn \in DOMAIN OptionalRole /\ a.opt = NULL /\ a.optLen # 0
  \/ fn \in { "psa_aead_finish", "psa_aead_verify" } /\ Supplied(fn, a) /\ a.lenPtr = NULL
  \/ fn \in { "psa_aead_encrypt", "psa_aead_decrypt" }
       /\ a.nonceLen > TFM_CRYPTO_MAX_NONCE_LENGTH
  \/ fn = "psa_generate_random" /\ a.out = 0

\* Spec 7, 8: every psa_* call dispatches exactly when its arguments pass
\* the local checks, and a call that does not dispatch returns the status
\* of the check that stopped it (NOT_SUPPORTED for a disabled family,
\* SUCCESS for zero random bytes, INVALID_ARGUMENT otherwise).
LocalRejectionExact ==
  last.fn # "none" =>
    /\ last.dispatched <=> ~LocallyRejected(last.fn, last.args)
    /\ ~last.dispatched =>
         last.ret = CASE FamilyOf[last.fn] \in DISABLED -> NOT_SUPPORTED
                      [] last.fn = "psa_generate_random" -> SUCCESS
                      [] OTHER -> INVALID_ARGUMENT

\* Spec 4.4, 8: after a successful call, each *_length variable the call
\* reports holds the bytes the service produced in that very buffer, which
\* is within the capacity the caller gave for it.  Catches a length copied
\* from the wrong out_vec index.
ReportedLengthIsProduced ==
  last.dispatched /\ last.ret = SUCCESS =>
    \A i \in DOMAIN req.reply :
      req.reply[i].role \in LenRoles =>
        /\ req.reply[i].len <= req.out[i].len
        /\ lenOut[req.reply[i].role] = req.reply[i].len

\* Spec 4.5 and 9: when psa_aead_finish or psa_aead_verify is called without
\* its optional output, the output's length variable reads 0 afterwards,
\* never a value left over from an earlier call.
ElidedOutputReportsZero ==
  last.dispatched /\ last.fn \in { "psa_aead_finish", "psa_aead_verify" }
  /\ ~Supplied(last.fn, last.args) /\ last.args.lenPtr # NULL
    => lenOut[OptionalRole[last.fn]] = 0

\* No call stores a length through a NULL *_length pointer.  In
\* psa_aead_finish and psa_aead_verify (IPC binding) the pointer is checked
\* only when the optional output is present, then written in both cases.
NoWriteThroughNull == ~nullWrite

\* Spec 4.4 and 3 (d): a call that does not succeed leaves the caller's
\* *_length variables untouched, since output lengths mean nothing then.
LengthsUntouchedOnFailure == [][last'.ret # SUCCESS => lenOut' = lenOut]_vars

\* Spec 4.2: the nonce length carried in the header of psa_aead_encrypt /
\* psa_aead_decrypt is the length the caller gave, never cut silently.
NonceForwarded ==
  last.dispatched /\ last.fn \in { "psa_aead_encrypt", "psa_aead_decrypt" }
    => req.nonceLen = last.args.nonceLen

====
