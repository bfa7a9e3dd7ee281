------------------------------ MODULE Keytool -------------------------------
(***************************************************************************)
(* The life of a server's credentials: the commands of the key tool         *)
(* (keytool.rs) that write keys, certificates and bundles to files, the     *)
(* servers that load them (noise-proxy and stratum-proxy), and the clock.   *)
(*                                                                         *)
(* A command may die, or run out of disk space, after it created a file and *)
(* before it wrote it, and between its two files.  Files are also removed   *)
(* by their owner.  The content of a file is a record whose type stands for *)
(* the name of its JSON field: a file read as another type does not parse.  *)
(***************************************************************************)
EXTENDS Certificates, FiniteSets

CONSTANTS
    CaFiles,      \* pairs of stems: file of the public and of the secret key
    NoiseFiles,   \* the same for static noise keys
    Durations,    \* numbers of seconds a certificate may be asked for
    MaxKeys,      \* how many keys are generated
    MaxIssued,    \* how many certificates are signed
    MaxRemoved,   \* how many files their owner removes
    MaxTime       \* the last moment considered, before 32-bit time ends

ASSUME KeytoolAssumption ==
    /\ {MaxKeys, MaxIssued, MaxRemoved} \subseteq Nat
    /\ MaxTime \in 0 .. TIME_MOD - 1
    /\ Durations \subseteq Nat

VARIABLES
    files,     \* what is on disk
    now,       \* the clock, in seconds
    keys,      \* number of keys generated; the last one is the number itself
    removed,   \* number of files removed
    issued,    \* every certificate ever written, with the request behind it
    server     \* the security context a server runs with, or NoServer

vars == <<files, now, keys, removed, issued, server>>

Stems == UNION {{pair[1], pair[2]} : pair \in CaFiles \cup NoiseFiles}
Paths == [stem : Stems, ext : {"key", "cert"}]
KeyFile(stem) == [stem |-> stem, ext |-> "key"]
set_extension(path, ext) == [path EXCEPT !.ext = ext]

Absent == [type |-> "absent"]
Empty  == [type |-> "empty"]
NoServer == [kind |-> "none"]

Format(field, inner)  == [type |-> field, key |-> inner]
ed25519_public_key(k) == Format("ed25519_public_key", Pub(k))
ed25519_secret_key(k) == Format("ed25519_secret_key", k)
noise_public_key(k)   == Format("noise_public_key", Pub(k))
noise_secret_key(k)   == Format("noise_secret_key", k)
CertificateFile(cert) == [type |-> "certificate", cert |-> cert]
BundleFile(ctx)       == [type |-> "bundle", ctx |-> ctx]

-----------------------------------------------------------------------------
(* Files                                                                    *)

read_from_file(path, type) == files[path].type = type

open_new_file(fs, path) == fs[path] = Absent

\* What can be on disk after a write: nothing new when the file exists, else
\* the content, or an empty file when the command ends after creating it.
write_to_file(fs, path, content) ==
    IF open_new_file(fs, path)
    THEN {[fs |-> [fs EXCEPT ![path] = content], ok |-> TRUE],
          [fs |-> [fs EXCEPT ![path] = Empty],   ok |-> FALSE]}
    ELSE {[fs |-> fs, ok |-> FALSE]}

\* The second file is written only after the first, and perhaps not even then.
WriteBoth(path1, content1, path2, content2) ==
    \E first \in write_to_file(files, path1, content1) :
       \/ files' = first.fs
       \/ /\ first.ok
          /\ \E second \in write_to_file(first.fs, path2, content2) : files' = second.fs

-----------------------------------------------------------------------------
(* Commands                                                                 *)

Init ==
    /\ files = [path \in Paths |-> Absent]
    /\ now \in 0 .. MaxTime
    /\ keys = 0
    /\ removed = 0
    /\ issued = {}
    /\ server = NoServer

GenCAKey(pair) ==
    /\ keys < MaxKeys
    /\ keys' = keys + 1
    /\ WriteBoth(KeyFile(pair[1]), ed25519_public_key(keys'),
                 KeyFile(pair[2]), ed25519_secret_key(keys'))
    /\ UNCHANGED <<now, removed, issued, server>>

GenNoiseKey(pair) ==
    /\ keys < MaxKeys
    /\ keys' = keys + 1
    /\ WriteBoth(KeyFile(pair[1]), noise_public_key(keys'),
                 KeyFile(pair[2]), noise_secret_key(keys'))
    /\ UNCHANGED <<now, removed, issued, server>>

Signed(pubkey, authority_secret, valid_for) ==
    LET part == SignedPart(with_duration(now, valid_for), pubkey, Pub(authority_secret))
    IN  Certificate(part, sign_with(part, authority_secret))

\* A certificate that could not be written is lost with its command.
Issue(path, content, cert, authority_secret, valid_for) ==
    /\ Cardinality(issued) < MaxIssued
    /\ \E w \in write_to_file(files, path, content) :
          /\ files' = w.fs
          /\ issued' = IF w.ok
                       THEN issued \cup {[cert |-> cert, by |-> authority_secret,
                                          from |-> now, until |-> now + valid_for]}
                       ELSE issued

SignKey(public_key_to_sign, signing_key, valid_for) ==
    /\ read_from_file(public_key_to_sign, "noise_public_key")
    /\ read_from_file(signing_key, "ed25519_secret_key")
    /\ LET authority == files[signing_key].key
           cert == Signed(files[public_key_to_sign].key, authority, valid_for)
       IN  Issue(set_extension(public_key_to_sign, "cert"), CertificateFile(cert),
                 cert, authority, valid_for)
    /\ UNCHANGED <<now, keys, removed, server>>

SignBundle(secret_key_to_sign, signing_key, valid_for) ==
    /\ read_from_file(secret_key_to_sign, "noise_secret_key")
    /\ read_from_file(signing_key, "ed25519_secret_key")
    /\ LET secret == files[secret_key_to_sign].key
           authority == files[signing_key].key
           cert == Signed(Pub(secret), authority, valid_for)
       IN  Issue(set_extension(secret_key_to_sign, "cert"),
                 BundleFile(SecurityContext(cert, secret)), cert, authority, valid_for)
    /\ UNCHANGED <<now, keys, removed, server>>

RemoveFile(path) ==
    /\ removed < MaxRemoved
    /\ files[path] # Absent
    /\ files' = [files EXCEPT ![path] = Absent]
    /\ removed' = removed + 1
    /\ UNCHANGED <<now, keys, issued, server>>

-----------------------------------------------------------------------------
(* Servers                                                                  *)

\* The noise proxy takes a certificate and a key as they are.
NoiseProxyStarts(cert_file, key_file) ==
    /\ server = NoServer
    /\ read_from_file(cert_file, "certificate")
    /\ read_from_file(key_file, "noise_secret_key")
    /\ server' = [kind |-> "noise_proxy",
                  ctx |-> SecurityContext(files[cert_file].cert, files[key_file].key)]
    /\ UNCHANGED <<files, now, keys, removed, issued>>

\* The translating proxy also wants the certificate to be valid.
StratumProxyStarts(cert_file, key_file) ==
    /\ server = NoServer
    /\ read_from_file(cert_file, "certificate")
    /\ read_from_file(key_file, "noise_secret_key")
    /\ LET ctx == SecurityContext(files[cert_file].cert, files[key_file].key)
       IN  /\ validate_by_time(ctx, now)
           /\ server' = [kind |-> "stratum_proxy", ctx |-> ctx]
    /\ UNCHANGED <<files, now, keys, removed, issued>>

\* A bundle is checked for a secret key that belongs to its certificate, also
\* when it is put together from the two files.
BundleStarts(ctx) ==
    /\ server = NoServer
    /\ validate_secret_key(ctx)
    /\ server' = [kind |-> "bundle", ctx |-> ctx]
    /\ UNCHANGED <<files, now, keys, removed, issued>>

ReadFromString(path) ==
    /\ read_from_file(path, "bundle")
    /\ BundleStarts(files[path].ctx)

ReadFromStrings(cert_file, key_file) ==
    /\ read_from_file(cert_file, "certificate")
    /\ read_from_file(key_file, "noise_secret_key")
    /\ BundleStarts(SecurityContext(files[cert_file].cert, files[key_file].key))

Tick ==
    /\ now < MaxTime
    /\ now' = now + 1
    /\ UNCHANGED <<files, keys, removed, issued, server>>

Next ==
    \/ \E pair \in CaFiles : GenCAKey(pair)
    \/ \E pair \in NoiseFiles : GenNoiseKey(pair)
    \/ \E path, signing_key \in Paths, valid_for \in Durations :
          \/ SignKey(path, signing_key, valid_for)
          \/ SignBundle(path, signing_key, valid_for)
    \/ \E path \in Paths : RemoveFile(path) \/ ReadFromString(path)
    \/ \E cert_file, key_file \in Paths :
          \/ NoiseProxyStarts(cert_file, key_file)
          \/ StratumProxyStarts(cert_file, key_file)
          \/ ReadFromStrings(cert_file, key_file)
    \/ Tick

Spec == Init /\ [][Next]_vars

-----------------------------------------------------------------------------
(* Properties                                                               *)

Secrets == 0 .. MaxKeys

Running == server.kind # "none"

\* A client that trusts this authority completes its handshake now.
AcceptedBy(authority) == validate(PresentedCertificate(server.ctx, authority), now)

\* open_new_file: no command changes a file that is already there, not even
\* an empty one left behind by a command that died.
NeverOverwritten ==
    [][\A path \in Paths :
          files[path] # Absent /\ removed' = removed => files'[path] = files[path]]_vars

\* A client accepts a server only while some request to sign the very key the
\* server uses is in force, and only if it trusts the authority that signed:
\* whatever mixture of files the server was started with.
AcceptedOnlyWhileIssued ==
    Running => \A authority \in Secrets :
        AcceptedBy(Pub(authority)) =>
            \E r \in issued : /\ r.by = authority
                             /\ r.cert.public_key = Pub(server.ctx.secret_key)
                             /\ r.from <= now /\ now <= r.until

\* A certificate that does not outlive 32-bit time is accepted from the second
\* it was signed through its last one, by every client of the authority.  A
\* server started from a bundle needs nothing else; one started from two files
\* needs a secret key that belongs to the certificate.
AcceptedThroughout ==
    Running => \A r \in issued :
        (/\ r.cert = server.ctx.certificate
         /\ r.from <= now /\ now <= r.until /\ r.until < TIME_MOD
         /\ server.kind = "bundle" \/ validate_secret_key(server.ctx))
        => AcceptedBy(Pub(r.by))

=============================================================================
