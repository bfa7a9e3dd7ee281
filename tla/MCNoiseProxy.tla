---------------------------- MODULE MCNoiseProxy ----------------------------
(***************************************************************************)
(* Clients with every list of algorithms and the legacy one, and proxies    *)
(* with a certificate that holds, that has expired, that is about another   *)
(* key, or that another authority signed.                                   *)
(***************************************************************************)
EXTENDS NoiseProxy

CONSTANTS Trusted, Other, Static, OtherStatic

CertificateOf(secret, authority, from, until) ==
    LET part == SignedPart(SignedPartHeader(from, until), Pub(secret), Pub(authority))
    IN  Certificate(part, sign_with(part, authority))

Good == SecurityContext(CertificateOf(Static, Trusted, 1, 3), Static)

Case(legacy, algorithms, ctx, now, header, frames) ==
    [legacy |-> legacy, algorithms |-> algorithms, authority |-> Pub(Trusted),
     now |-> now, ctx |-> ctx, header |-> header, frames |-> frames]

Served ==
    {Case(FALSE, ConnectorAlgorithms, Good, 1, TRUE, 2),
     Case(TRUE, <<>>, Good, 3, FALSE, 1)}

Negotiating ==
    {Case(FALSE, algorithms, Good, 2, FALSE, 1) :
        algorithms \in {<<"ChaChaPoly">>, <<"ChaChaPoly", "AESGCM">>, <<>>}}

Refused ==
    {Case(FALSE, ConnectorAlgorithms, ctx, 2, FALSE, 1) :
        ctx \in {SecurityContext(CertificateOf(Static, Trusted, 0, 1), Static),
                 SecurityContext(CertificateOf(Static, Trusted, 3, 4), Static),
                 SecurityContext(CertificateOf(Static, Other, 1, 3), Static),
                 SecurityContext(CertificateOf(Static, Trusted, 1, 3), OtherStatic)}}

AllCases == Served \cup Negotiating \cup Refused

=============================================================================
