---------------------------- MODULE KeytoolProofs ----------------------------
(***************************************************************************)
(* Theorems about the credentials of a server, for any files, authorities, *)
(* durations and numbers of commands, up to the end of 32-bit time.         *)
(***************************************************************************)
EXTENDS Keytool, TLAPS

-----------------------------------------------------------------------------
(* The inductive invariant                                                  *)

\* What sign_key and sign_bundle put under a signature for this request.
PartOf(r) ==
    SignedPart(SignedPartHeader(system_time_to_unix_time_u32(r.from),
                                system_time_to_unix_time_u32(r.until)),
               r.cert.public_key, Pub(r.by))

\* A request and its certificate tell the same story.
Truthful(r, time) ==
    /\ r.from \in Nat /\ r.until \in Nat /\ r.from <= time
    /\ r.cert = Certificate(PartOf(r), sign_with(PartOf(r), r.by))

IsIssued(cert, requests) == \E r \in requests : r.cert = cert

\* A file holds no certificate that was not issued.
Genuine(content, requests) ==
    /\ content.type = "certificate" => IsIssued(content.cert, requests)
    /\ content.type = "bundle" => IsIssued(content.ctx.certificate, requests)

\* Every certificate on disk or in a server goes back to a request, whatever
\* was interrupted, removed or mixed up; and a bundle holds its own key.
Provenance ==
    /\ now \in 0 .. MaxTime
    /\ removed \in Nat
    /\ DOMAIN files = Paths
    /\ \A path \in Paths : Genuine(files[path], issued)
    /\ \A r \in issued : Truthful(r, now)
    /\ Running => IsIssued(server.ctx.certificate, issued)
    /\ server.kind = "bundle" => validate_secret_key(server.ctx)

-----------------------------------------------------------------------------
\* Seconds within 32 bits survive the cut, and a cut never makes a time later.
LEMMA CutTime ==
    ASSUME NEW t \in Nat
    PROVE  /\ system_time_to_unix_time_u32(t) \in Nat
           /\ system_time_to_unix_time_u32(t) <= t
           /\ t < TIME_MOD => system_time_to_unix_time_u32(t) = t
  BY TimeAssumption DEF system_time_to_unix_time_u32

\* A certificate carries the part that is signed and its signature.
LEMMA CertificateFields ==
    ASSUME NEW part, NEW secret
    PROVE  LET cert == Certificate(part, sign_with(part, secret))
           IN  /\ cert.signed_part_header = part.header
               /\ cert.public_key = part.pubkey
               /\ cert.authority_public_key = part.authority_public_key
               /\ cert.signature = sign_with(part, secret)
               /\ cert.signature.text = part
  BY Zenon DEF Certificate, sign_with

\* A client that trusts the signing authority puts together the very part that
\* was signed, when the server proves it holds the key the part is about.
LEMMA PresentedPart ==
    ASSUME NEW ctx, NEW header, NEW authority,
           LET part == SignedPart(header, Pub(ctx.secret_key), Pub(authority))
           IN  ctx.certificate = Certificate(part, sign_with(part, authority))
    PROVE  LET part  == SignedPart(header, Pub(ctx.secret_key), Pub(authority))
               shown == PresentedCertificate(ctx, Pub(authority))
           IN  /\ shown.signed_part_header = header
               /\ verify(CertifiedPart(shown), shown.signature)
<1> DEFINE part == SignedPart(header, Pub(ctx.secret_key), Pub(authority))
<1>1. /\ part.header = header
      /\ part.authority_public_key = Pub(authority)
      /\ part.pubkey = Pub(ctx.secret_key)
  BY Zenon DEF SignedPart
<1>2. /\ ctx.certificate.signed_part_header = header
      /\ ctx.certificate.signature = sign_with(part, authority)
  BY <1>1, CertificateFields
<1>3. PresentedCertificate(ctx, Pub(authority)) = Certificate(part, sign_with(part, authority))
  BY <1>2, Zenon DEF PresentedCertificate, from_noise_message, build_noise_message,
              SignatureNoiseMessage
<1>4. CertifiedPart(PresentedCertificate(ctx, Pub(authority))) = part
  BY <1>1, <1>3, CertificateFields DEF CertifiedPart
<1>5. verify(part, sign_with(part, authority))
  BY <1>1, Zenon DEF verify, sign_with
<1>. QED
  BY <1>1, <1>3, <1>4, <1>5, CertificateFields

\* write_to_file, after open_new_file: a path that was in use keeps its
\* content, and the one that is written holds the content or nothing, and
\* nothing if the command failed.
LEMMA WriteFacts ==
    ASSUME NEW fs, NEW path, NEW content,
           NEW w \in write_to_file(fs, path, content)
    PROVE  /\ DOMAIN w.fs = DOMAIN fs
           /\ \A p \in DOMAIN fs :
                 \/ w.fs[p] = fs[p]
                 \/ fs[p] = Absent /\ w.fs[p] \in {content, Empty}
           /\ ~w.ok => \A p \in DOMAIN fs : w.fs[p] \in {fs[p], Empty}
  BY DEF write_to_file, open_new_file

\* The same of two files written one after the other by gen_ca_key or
\* gen_noise_key.
LEMMA WriteBothFacts ==
    ASSUME NEW p1, NEW c1, NEW p2, NEW c2, DOMAIN files = Paths,
           c1 # Absent, Empty # Absent,
           WriteBoth(p1, c1, p2, c2)
    PROVE  /\ DOMAIN files' = Paths
           /\ \A p \in Paths : \/ files'[p] = files[p]
                               \/ files[p] = Absent /\ files'[p] \in {c1, c2, Empty}
<1>1. PICK first \in write_to_file(files, p1, c1) :
         \/ files' = first.fs
         \/ /\ first.ok
            /\ \E second \in write_to_file(first.fs, p2, c2) : files' = second.fs
  BY Zenon DEF WriteBoth
<1>2. /\ DOMAIN first.fs = Paths
      /\ \A p \in Paths : \/ first.fs[p] = files[p]
                          \/ files[p] = Absent /\ first.fs[p] \in {c1, Empty}
  BY WriteFacts
<1>3. CASE files' = first.fs
  BY <1>2, <1>3, Zenon
<1>4. CASE \E second \in write_to_file(first.fs, p2, c2) : files' = second.fs
  <2>1. PICK second \in write_to_file(first.fs, p2, c2) : files' = second.fs
    BY <1>4, Zenon
  <2>2. /\ DOMAIN files' = Paths
        /\ \A p \in Paths : \/ files'[p] = first.fs[p]
                            \/ first.fs[p] = Absent /\ files'[p] \in {c2, Empty}
    BY <1>2, <2>1, WriteFacts
  <2>. QED
    BY <1>2, <2>2, Zenon
<1>. QED
  BY <1>1, <1>3, <1>4, Zenon

\* Contents that are neither a certificate nor a bundle claim nothing.
LEMMA PlainContents ==
    \A requests :
    /\ Genuine(Absent, requests) /\ Genuine(Empty, requests) /\ Empty # Absent
    /\ \A k : /\ Genuine(ed25519_public_key(k), requests) /\ Genuine(ed25519_secret_key(k), requests)
              /\ Genuine(noise_public_key(k), requests) /\ Genuine(noise_secret_key(k), requests)
              /\ ed25519_public_key(k) # Absent /\ ed25519_secret_key(k) # Absent
              /\ noise_public_key(k) # Absent /\ noise_secret_key(k) # Absent
  BY Zenon DEF Genuine, Absent, Empty, ed25519_public_key, ed25519_secret_key,
         noise_public_key, noise_secret_key, Format

-----------------------------------------------------------------------------
(* Provenance is inductive                                                  *)

\* A command that changes files only, and writes nothing but genuine contents.
LEMMA FilesStep ==
    ASSUME Provenance, UNCHANGED <<now, removed, issued, server>>,
           DOMAIN files' = Paths,
           \A path \in Paths : files'[path] = files[path] \/ Genuine(files'[path], issued)
    PROVE  Provenance'
<1>1. \A path \in Paths : Genuine(files'[path], issued)
  BY Zenon DEF Provenance
<1>2. \A path \in Paths : Genuine(files'[path], issued')
  BY <1>1, Zenon DEF Genuine, IsIssued
<1>3. \A r \in issued' : Truthful(r, now')
  BY Zenon DEF Provenance, Truthful, PartOf
<1>4. Running' => IsIssued(server'.ctx.certificate, issued')
  BY Zenon DEF Provenance, Running, IsIssued
<1>. QED
  BY <1>2, <1>3, <1>4, Zenon DEF Provenance, validate_secret_key

\* A certificate that is signed, and recorded if the file holds it.
LEMMA SignStep ==
    ASSUME Provenance, UNCHANGED <<now, removed, server>>,
           NEW pubkey, NEW authority, NEW valid_for \in Durations,
           NEW content, NEW path,
           Issue(path, content, Signed(pubkey, authority, valid_for), authority, valid_for),
           content.type = "certificate" => content.cert = Signed(pubkey, authority, valid_for),
           content.type = "bundle"
              => content.ctx.certificate = Signed(pubkey, authority, valid_for)
    PROVE  Provenance'
<1> DEFINE cert == Signed(pubkey, authority, valid_for)
           r == [cert |-> cert, by |-> authority, from |-> now, until |-> now + valid_for]
<1>1. PICK w \in write_to_file(files, path, content) :
         files' = w.fs /\ issued' = IF w.ok THEN issued \cup {r} ELSE issued
  BY Zenon DEF Issue
<1>2. /\ DOMAIN files' = Paths
      /\ \A p \in Paths : \/ files'[p] = files[p]
                          \/ files'[p] \in {content, Empty}
      /\ ~w.ok => \A p \in Paths : files'[p] \in {files[p], Empty}
  BY <1>1, WriteFacts DEF Provenance
<1>3. \A c : IsIssued(c, issued) => IsIssued(c, issued')
  BY <1>1, Zenon DEF IsIssued
<1>4. w.ok => r \in issued' /\ r.cert = cert
  BY <1>1, Zenon
<1>5. \A p \in Paths : Genuine(files'[p], issued')
  <2>1. \A c : Genuine(c, issued) => Genuine(c, issued')
    BY <1>3, Zenon DEF Genuine
  <2>2. w.ok => Genuine(content, issued')
    <3>. HIDE DEF cert, r
    <3>. QED  BY <1>4, Zenon DEF Genuine, IsIssued, cert
  <2>3. Genuine(Empty, issued')
    BY PlainContents, Zenon
  <2>. QED
    BY <1>2, <2>1, <2>2, <2>3, Zenon DEF Provenance
<1>6. Truthful(r, now')
  <2>1. now \in Nat /\ now + valid_for \in Nat
    BY KeytoolAssumption DEF Provenance
  <2>2. r.cert = Certificate(PartOf(r), sign_with(PartOf(r), r.by))
    BY Zenon DEF PartOf, Signed, Certificate, SignedPart, with_duration, SignedPartHeader, sign_with
  <2>3. r.from = now /\ r.until = now + valid_for
    BY Zenon
  <2>. HIDE DEF r
  <2>. QED
    BY <2>1, <2>2, <2>3 DEF Truthful
<1>7. \A q \in issued' : Truthful(q, now')
  BY <1>1, <1>6, Zenon DEF Provenance, Truthful, PartOf
<1>8. Running' => IsIssued(server'.ctx.certificate, issued')
  BY <1>3, Zenon DEF Provenance, Running
<1>. QED
  BY <1>2, <1>5, <1>7, <1>8, Zenon DEF Provenance, validate_secret_key

\* A server that starts with a certificate from a file.
LEMMA StartStep ==
    ASSUME Provenance, UNCHANGED <<files, now, keys, removed, issued>>,
           NEW ctx, NEW kind \in {"noise_proxy", "stratum_proxy", "bundle"},
           server' = [kind |-> kind, ctx |-> ctx],
           IsIssued(ctx.certificate, issued),
           kind = "bundle" => validate_secret_key(ctx)
    PROVE  Provenance'
<1>1. server'.ctx = ctx /\ server'.kind = kind
  BY Zenon
<1>2. \A path \in Paths : Genuine(files'[path], issued')
  BY Zenon DEF Provenance, Genuine, IsIssued
<1>3. \A r \in issued' : Truthful(r, now')
  BY Zenon DEF Provenance, Truthful, PartOf
<1>4. IsIssued(server'.ctx.certificate, issued')
  BY <1>1, Zenon DEF IsIssued
<1>. QED
  BY <1>1, <1>2, <1>3, <1>4, Zenon DEF Provenance, validate_secret_key

\* Every command, start of a server and tick of the clock keeps Provenance.
LEMMA ProvenanceStep == Provenance /\ [Next]_vars => Provenance'
<1> SUFFICES ASSUME Provenance, [Next]_vars
             PROVE  Provenance'
  BY Zenon
<1>1. ASSUME NEW pair \in CaFiles, GenCAKey(pair)
      PROVE  Provenance'
  <2>1. /\ DOMAIN files' = Paths
        /\ \A p \in Paths :
              \/ files'[p] = files[p]
              \/ files'[p] \in {ed25519_public_key(keys'), ed25519_secret_key(keys'), Empty}
    BY <1>1, WriteBothFacts, PlainContents, Zenon DEF GenCAKey, Provenance
  <2>. QED
    BY <1>1, <2>1, PlainContents, FilesStep, Zenon DEF GenCAKey
<1>2. ASSUME NEW pair \in NoiseFiles, GenNoiseKey(pair)
      PROVE  Provenance'
  <2>1. /\ DOMAIN files' = Paths
        /\ \A p \in Paths :
              \/ files'[p] = files[p]
              \/ files'[p] \in {noise_public_key(keys'), noise_secret_key(keys'), Empty}
    BY <1>2, WriteBothFacts, PlainContents, Zenon DEF GenNoiseKey, Provenance
  <2>. QED
    BY <1>2, <2>1, PlainContents, FilesStep, Zenon DEF GenNoiseKey
<1>3. ASSUME NEW path \in Paths, NEW signing_key \in Paths, NEW valid_for \in Durations,
             SignKey(path, signing_key, valid_for)
      PROVE  Provenance'
  <2> DEFINE cert == Signed(files[path].key, files[signing_key].key, valid_for)
  <2>1. CertificateFile(cert).type = "certificate" /\ CertificateFile(cert).cert = cert
    BY Zenon DEF CertificateFile
  <2>2. Issue(set_extension(path, "cert"), CertificateFile(cert), cert, files[signing_key].key, valid_for)
    BY <1>3, Zenon DEF SignKey
  <2>. QED
    BY <1>3, <2>1, <2>2, SignStep, Zenon DEF SignKey
<1>4. ASSUME NEW path \in Paths, NEW signing_key \in Paths, NEW valid_for \in Durations,
             SignBundle(path, signing_key, valid_for)
      PROVE  Provenance'
  <2> DEFINE cert == Signed(Pub(files[path].key), files[signing_key].key, valid_for)
             bundle == BundleFile(SecurityContext(cert, files[path].key))
  <2>1. bundle.type = "bundle" /\ bundle.ctx.certificate = cert
    BY Zenon DEF BundleFile, SecurityContext
  <2>2. Issue(set_extension(path, "cert"), bundle, cert, files[signing_key].key, valid_for)
    BY <1>4, Zenon DEF SignBundle
  <2>. QED
    BY <1>4, <2>1, <2>2, SignStep, Zenon DEF SignBundle
<1>5. ASSUME NEW path \in Paths, RemoveFile(path)
      PROVE  Provenance'
  <2>1. /\ DOMAIN files' = Paths
        /\ \A p \in Paths : Genuine(files'[p], issued')
    BY <1>5, PlainContents, Zenon DEF RemoveFile, Provenance
  <2>2. removed' \in Nat /\ UNCHANGED <<now, issued, server>>
    BY <1>5 DEF RemoveFile, Provenance
  <2>. QED
    BY <2>1, <2>2, Zenon DEF Provenance, Truthful, PartOf, Running, validate_secret_key
<1>6. ASSUME NEW path \in Paths, ReadFromString(path)
      PROVE  Provenance'
  BY <1>6, StartStep, Zenon DEF ReadFromString, BundleStarts, read_from_file, Provenance, Genuine
<1>7. ASSUME NEW cert_file \in Paths, NEW key_file \in Paths,
             \/ NoiseProxyStarts(cert_file, key_file)
             \/ StratumProxyStarts(cert_file, key_file)
             \/ ReadFromStrings(cert_file, key_file)
      PROVE  Provenance'
  <2> DEFINE ctx == SecurityContext(files[cert_file].cert, files[key_file].key)
  <2>1. ctx.certificate = files[cert_file].cert
    BY Zenon DEF SecurityContext
  <2>2. IsIssued(files[cert_file].cert, issued)
    BY <1>7, Zenon DEF NoiseProxyStarts, StratumProxyStarts, ReadFromStrings, read_from_file,
                Provenance, Genuine
  <2>3. CASE NoiseProxyStarts(cert_file, key_file)
    BY <2>1, <2>2, <2>3, StartStep, Zenon DEF NoiseProxyStarts
  <2>4. CASE StratumProxyStarts(cert_file, key_file)
    BY <2>1, <2>2, <2>4, StartStep, Zenon DEF StratumProxyStarts
  <2>5. CASE ReadFromStrings(cert_file, key_file)
    BY <2>1, <2>2, <2>5, StartStep, Zenon DEF ReadFromStrings, BundleStarts
  <2>. QED
    BY <1>7, <2>3, <2>4, <2>5, Zenon
<1>8. CASE Tick
  <2>1. now' \in 0 .. MaxTime /\ now <= now' /\ now \in Int /\ now' \in Int
    BY <1>8, KeytoolAssumption, TimeAssumption DEF Tick, Provenance
  <2>2. UNCHANGED <<files, removed, issued, server>>
    BY <1>8, Zenon DEF Tick
  <2>3. \A r \in issued' : Truthful(r, now')
    BY <2>1, <2>2 DEF Provenance, Truthful
  <2>. QED
    BY <2>1, <2>2, <2>3, Zenon DEF Provenance, Running, validate_secret_key
<1>9. CASE UNCHANGED vars
  BY <1>9, Zenon DEF vars, Provenance, Running, validate_secret_key
<1>. QED
  BY <1>1, <1>2, <1>3, <1>4, <1>5, <1>6, <1>7, <1>8, <1>9, Zenon DEF Next

\* Nothing is on disk, signed or running at the start.
LEMMA ProvenanceInit == Init => Provenance
  BY PlainContents DEF Init, Provenance, NoServer, Running

-----------------------------------------------------------------------------
(* Theorems                                                                 *)

\* open_new_file keeps whatever a path holds, also what a command that died
\* left behind, until its owner removes it.
THEOREM NothingOverwritten == Spec => NeverOverwritten
<1>1. ASSUME Provenance, [Next]_vars, NEW path \in Paths,
             files[path] # Absent, removed' = removed
      PROVE  files'[path] = files[path]
  <2>1. ASSUME NEW pair \in CaFiles, GenCAKey(pair)
        PROVE  files'[path] = files[path]
    BY <1>1, <2>1, WriteBothFacts, PlainContents, Zenon DEF GenCAKey, Provenance
  <2>2. ASSUME NEW pair \in NoiseFiles, GenNoiseKey(pair)
        PROVE  files'[path] = files[path]
    BY <1>1, <2>2, WriteBothFacts, PlainContents, Zenon DEF GenNoiseKey, Provenance
  <2>3. ASSUME NEW p \in Paths, NEW signing_key \in Paths, NEW valid_for \in Durations,
               SignKey(p, signing_key, valid_for)
        PROVE  files'[path] = files[path]
    <3>1. PICK q, content : \E w \in write_to_file(files, q, content) : files' = w.fs
      BY <2>3, Zenon DEF SignKey, Issue
    <3>2. PICK w \in write_to_file(files, q, content) : files' = w.fs
      BY <3>1, Zenon
    <3>3. DOMAIN files = Paths
      BY <1>1, Zenon DEF Provenance
    <3>4. w.fs[path] = files[path] \/ files[path] = Absent
      BY <3>2, <3>3, WriteFacts
    <3>. QED
      BY <1>1, <3>2, <3>4, Zenon
  <2>4. ASSUME NEW p \in Paths, NEW signing_key \in Paths, NEW valid_for \in Durations,
               SignBundle(p, signing_key, valid_for)
        PROVE  files'[path] = files[path]
    <3>1. PICK q, content : \E w \in write_to_file(files, q, content) : files' = w.fs
      BY <2>4, Zenon DEF SignBundle, Issue
    <3>2. PICK w \in write_to_file(files, q, content) : files' = w.fs
      BY <3>1, Zenon
    <3>3. DOMAIN files = Paths
      BY <1>1, Zenon DEF Provenance
    <3>4. w.fs[path] = files[path] \/ files[path] = Absent
      BY <3>2, <3>3, WriteFacts
    <3>. QED
      BY <1>1, <3>2, <3>4, Zenon
  <2>5. ASSUME NEW p \in Paths, RemoveFile(p)
        PROVE  FALSE
    BY <1>1, <2>5 DEF RemoveFile, Provenance
  <2>6. ASSUME NEW p \in Paths, ReadFromString(p)
        PROVE  files'[path] = files[path]
    BY <2>6, Zenon DEF ReadFromString, BundleStarts
  <2>7. ASSUME NEW cert_file \in Paths, NEW key_file \in Paths,
               \/ NoiseProxyStarts(cert_file, key_file)
               \/ StratumProxyStarts(cert_file, key_file)
               \/ ReadFromStrings(cert_file, key_file)
        PROVE  files'[path] = files[path]
    BY <2>7, Zenon DEF NoiseProxyStarts, StratumProxyStarts, ReadFromStrings, BundleStarts
  <2>8. CASE Tick \/ UNCHANGED vars
    BY <2>8, Zenon DEF Tick, vars
  <2>. QED
    BY <1>1, <2>1, <2>2, <2>3, <2>4, <2>5, <2>6, <2>7, <2>8, Zenon DEF Next
<1>2. Provenance /\ [Next]_vars
        => [\A path \in Paths :
              files[path] # Absent /\ removed' = removed => files'[path] = files[path]]_vars
  BY <1>1, Zenon
<1>. QED
  BY <1>2, ProvenanceInit, ProvenanceStep, PTL DEF Spec, NeverOverwritten

\* A client accepts a server only while a request of an authority it trusts to
\* sign the key the server really uses is in force.
THEOREM OnlyIssuedAccepted == Spec => []AcceptedOnlyWhileIssued
<1>1. Provenance => AcceptedOnlyWhileIssued
  <2> SUFFICES ASSUME Provenance, Running, NEW authority \in Secrets,
                      AcceptedBy(Pub(authority))
               PROVE  \E r \in issued : /\ r.by = authority
                                        /\ r.cert.public_key = Pub(server.ctx.secret_key)
                                        /\ r.from <= now /\ now <= r.until
    BY Zenon DEF AcceptedOnlyWhileIssued
  <2>1. PICK r \in issued : r.cert = server.ctx.certificate
    BY Zenon DEF Provenance, IsIssued
  <2>2. /\ r.from \in Nat /\ r.until \in Nat /\ r.from <= now
        /\ r.cert = Certificate(PartOf(r), sign_with(PartOf(r), r.by))
    BY Zenon DEF Provenance, Truthful
  <2> DEFINE until == system_time_to_unix_time_u32(r.until)
  <2>3. /\ r.cert.signature.text = PartOf(r)
        /\ r.cert.signed_part_header.not_valid_after = until
    <3>1. /\ r.cert.signature.text = PartOf(r)
          /\ r.cert.signed_part_header = PartOf(r).header
      BY <2>2, CertificateFields
    <3>2. PartOf(r).header.not_valid_after = until
      BY Zenon DEF PartOf, SignedPart, SignedPartHeader
    <3>. QED
      BY <3>1, <3>2, Zenon
  <2> DEFINE shown == PresentedCertificate(server.ctx, Pub(authority))
  <2>4. /\ PartOf(r) = SignedPart(r.cert.signed_part_header, Pub(server.ctx.secret_key),
                                  Pub(authority))
        /\ ~(system_time_to_unix_time_u32(now) > r.cert.signed_part_header.not_valid_after)
    <3>1. /\ verify(CertifiedPart(shown), shown.signature)
          /\ verify_expiration(shown.signed_part_header, now)
      BY Zenon DEF AcceptedBy, validate
    <3>2. shown = Certificate(SignedPart(r.cert.signed_part_header,
                                         Pub(server.ctx.secret_key), Pub(authority)),
                              r.cert.signature)
      BY <2>1, Zenon DEF PresentedCertificate, from_noise_message, build_noise_message,
                  SignatureNoiseMessage
    <3> HIDE DEF shown
    <3>3. /\ shown.signature = r.cert.signature
          /\ shown.signed_part_header = r.cert.signed_part_header
          /\ CertifiedPart(shown) = SignedPart(r.cert.signed_part_header,
                                               Pub(server.ctx.secret_key), Pub(authority))
      BY <3>2, Zenon DEF Certificate, SignedPart, CertifiedPart
    <3>. QED
      BY <2>3, <3>1, <3>3, Zenon DEF verify, verify_expiration
  <2>5. Pub(r.by) = Pub(authority) /\ r.cert.public_key = Pub(server.ctx.secret_key)
    BY <2>4, Zenon DEF PartOf, SignedPart
  <2>6. r.by = authority
    BY <2>5, Zenon DEF Pub
  <2>7. now \in Nat /\ now < TIME_MOD
    BY KeytoolAssumption, TimeAssumption DEF Provenance
  <2>8. now <= r.until
    <3>1. system_time_to_unix_time_u32(now) = now
      BY <2>7, CutTime, Zenon
    <3>2. until \in Nat /\ until <= r.until
      BY <2>2, CutTime, Zenon
    <3>3. ~(now > until)
      BY <2>3, <2>4, <3>1, Zenon
    <3>4. r.until \in Nat /\ now \in Nat
      BY <2>2, <2>7, Zenon
    <3>. HIDE DEF until
    <3>. QED
      BY <3>2, <3>3, <3>4
  <2>. QED
    BY <2>2, <2>5, <2>6, <2>8, Zenon
<1>. QED
  BY <1>1, ProvenanceInit, ProvenanceStep, PTL DEF Spec

\* Through every second of its time, a certificate that ends within 32 bits is
\* accepted, if the server holds the key it is about; a bundle always does.
THEOREM IssuedAccepted == Spec => []AcceptedThroughout
<1>1. Provenance => AcceptedThroughout
  <2> SUFFICES ASSUME Provenance, Running, NEW r \in issued,
                      r.cert = server.ctx.certificate,
                      r.from <= now, now <= r.until, r.until < TIME_MOD,
                      server.kind = "bundle" \/ validate_secret_key(server.ctx)
               PROVE  AcceptedBy(Pub(r.by))
    BY Zenon DEF AcceptedThroughout
  <2>1. /\ r.from \in Nat /\ r.until \in Nat
        /\ r.cert = Certificate(PartOf(r), sign_with(PartOf(r), r.by))
    BY Zenon DEF Provenance, Truthful
  <2>2. now \in Nat /\ now < TIME_MOD /\ r.from < TIME_MOD
    BY <2>1, KeytoolAssumption, TimeAssumption DEF Provenance
  <2>3. /\ system_time_to_unix_time_u32(now) = now
        /\ system_time_to_unix_time_u32(r.from) = r.from
        /\ system_time_to_unix_time_u32(r.until) = r.until
    BY <2>1, <2>2, CutTime, Zenon
  <2>4. Pub(server.ctx.secret_key) = r.cert.public_key
    BY Zenon DEF Provenance, validate_secret_key
  <2> DEFINE header == SignedPartHeader(r.from, r.until)
  <2>5. PartOf(r) = SignedPart(header, Pub(server.ctx.secret_key), Pub(r.by))
    BY <2>3, <2>4, Zenon DEF PartOf
  <2> DEFINE shown == PresentedCertificate(server.ctx, Pub(r.by))
  <2>6. /\ shown.signed_part_header = header
        /\ verify(CertifiedPart(shown), shown.signature)
    <3> DEFINE part == SignedPart(header, Pub(server.ctx.secret_key), Pub(r.by))
    <3>1. server.ctx.certificate = Certificate(part, sign_with(part, r.by))
      BY <2>1, <2>5, Zenon
    <3> HIDE DEF header
    <3>. QED
      BY <3>1, PresentedPart, Zenon
  <2>7. header.valid_from = r.from /\ header.not_valid_after = r.until
    BY <2>3, Zenon DEF SignedPartHeader
  <2>8. verify_expiration(header, now)
    BY <2>1, <2>2, <2>3, <2>7 DEF verify_expiration
  <2>. QED
    BY <2>6, <2>8, Zenon DEF AcceptedBy, validate
<1>. QED
  BY <1>1, ProvenanceInit, ProvenanceStep, PTL DEF Spec
==============================================================================
