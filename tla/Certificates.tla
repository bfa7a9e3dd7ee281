---------------------------- MODULE Certificates ----------------------------
(***************************************************************************)
(* The certificates with which a server proves its static noise key        *)
(* (v2/noise/auth.rs, v2/noise/auth/formats.rs).                            *)
(*                                                                         *)
(* Keys are numbers, the public half of a key pair is a record around the  *)
(* secret one, and a signature is the signed text together with the key    *)
(* that signed it: what the ed25519 and x25519 libraries promise.  Times    *)
(* are seconds since the Unix epoch, cut to 32 bits where the code does so. *)
(***************************************************************************)
EXTENDS Integers

CONSTANT TIME_MOD   \* one more than the last second a u32 timestamp can hold

ASSUME TimeAssumption == TIME_MOD \in Nat \ {0}

Pub(secret) == [public |-> secret]

-----------------------------------------------------------------------------
(* SignedPartHeader                                                         *)

system_time_to_unix_time_u32(t) == t % TIME_MOD

SignedPartHeader(from, until) ==
    [version |-> 0, valid_from |-> from, not_valid_after |-> until]

with_duration(now, valid_for) ==
    SignedPartHeader(system_time_to_unix_time_u32(now),
                     system_time_to_unix_time_u32(now + valid_for))

\* A last second in which the certificate is no longer valid.
EndExcluded(header, now) ==
    /\ header.valid_from <= system_time_to_unix_time_u32(now)
    /\ system_time_to_unix_time_u32(now) < header.not_valid_after

verify_expiration(header, now) ==
    LET now_timestamp == system_time_to_unix_time_u32(now) IN
    /\ ~(now_timestamp < header.valid_from)
    /\ ~(now_timestamp > header.not_valid_after)

-----------------------------------------------------------------------------
(* SignedPart, Certificate and the message that carries its proof           *)

SignedPart(header, pubkey, authority) ==
    [header |-> header, pubkey |-> pubkey, authority_public_key |-> authority]

\* Only ever called with the secret half of the key named in the part, as the
\* code asserts (see Signed in module Keytool).
sign_with(part, authority_secret) == [text |-> part, by |-> authority_secret]

verify(part, signature) ==
    /\ signature.text = part
    /\ Pub(signature.by) = part.authority_public_key

Certificate(part, signature) ==
    [signed_part_header   |-> part.header,
     public_key           |-> part.pubkey,
     authority_public_key |-> part.authority_public_key,
     signature            |-> signature]

CertifiedPart(cert) ==
    SignedPart(cert.signed_part_header, cert.public_key, cert.authority_public_key)

validate(cert, now) ==
    /\ verify(CertifiedPart(cert), cert.signature)
    /\ verify_expiration(cert.signed_part_header, now)

SignatureNoiseMessage(header, signature) == [header |-> header, signature |-> signature]

build_noise_message(cert) == SignatureNoiseMessage(cert.signed_part_header, cert.signature)

\* Believing the key the signature is about instead of the one the peer holds.
FromSignedKey(message, pubkey, authority) ==
    Certificate(SignedPart(message.header, message.signature.text.pubkey, authority),
                message.signature)

from_noise_message(message, pubkey, authority) ==
    Certificate(SignedPart(message.header, pubkey, authority), message.signature)

-----------------------------------------------------------------------------
(* What a server holds: a certificate and the secret key it is about        *)

SecurityContext(cert, secret) == [certificate |-> cert, secret_key |-> secret]

validate_secret_key(ctx) == Pub(ctx.secret_key) = ctx.certificate.public_key

validate_by_time(ctx, now) == validate(ctx.certificate, now)

(***************************************************************************)
(* The certificate an initiator that trusts authority builds from the      *)
(* server's message: the static key is the one proved in the handshake, the *)
(* half of the secret key the server really uses.                           *)
(***************************************************************************)
PresentedCertificate(ctx, authority) ==
    from_noise_message(build_noise_message(ctx.certificate), Pub(ctx.secret_key), authority)

=============================================================================
