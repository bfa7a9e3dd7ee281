--------------------------- MODULE NoiseHandshake ---------------------------
(***************************************************************************)
(* The two parties of the noise handshake (v2/noise.rs,                     *)
(* v2/noise/negotiation.rs) as the functions step that drive them, and the  *)
(* cipher of the transport that follows (v2/noise/codec.rs).                *)
(*                                                                         *)
(* A message is a record; cryptography is what it promises: a message       *)
(* written under one handshake state can be read under an equal one only,   *)
(* and the messages of the transport only in their order.                   *)
(***************************************************************************)
EXTENDS Certificates, Sequences, FiniteSetsExt, Functions

EncryptionAlgorithm == {"AESGCM", "ChaChaPoly"}

None == [type |-> "none"]

NegotiationMessage(algos) == [type |-> "negotiation", encryption_algos |-> algos]

\* The prologue is built anew in every call of step: the initiator's message
\* is gone when the state is built, on both sides.
Prologue(responder_msg) == [initiator_msg |-> None, responder_msg |-> responder_msg]

EncryptionNegotiation(prologue, chosen_algorithm) ==
    [chosen_algorithm |-> chosen_algorithm, prologue |-> prologue]

NoHandshakeState == EncryptionNegotiation(Prologue(None), "none")

-----------------------------------------------------------------------------
(* The noise library: pattern NX, e / e, ee, s, es                          *)

WriteE == [type |-> "e"]
ReadsE(msg) == msg.type = "e"

WriteReply(state, ctx) ==
    [type |-> "e_ee_s_es", under |-> state, remote_static |-> Pub(ctx.secret_key),
     payload |-> build_noise_message(ctx.certificate)]

ReadsReply(state, msg) == msg.type = "e_ee_s_es" /\ msg.under = state

TransportWrite(state, n, frame) ==
    [type |-> "transport", under |-> state, n |-> n, frame |-> frame]

TransportReads(state, n, msg) ==
    msg.type = "transport" /\ msg.under = state /\ msg.n = n

-----------------------------------------------------------------------------
(* StepResult: what to do, the message if there is one, and the handshake   *)
(* state after the step                                                     *)

StepResult(do, msg, state) == [do |-> do, msg |-> msg, state |-> state]
Failed(state) == StepResult("Err", None, state)

-----------------------------------------------------------------------------
(* Initiator::step                                                          *)

ListAlgorithms(algorithms, state) ==
    StepResult("ExpectReply", NegotiationMessage(algorithms), state)

ChosenByResponder(in_msg, state) ==
    IF in_msg.type = "negotiation" /\ Len(in_msg.encryption_algos) = 1
    THEN StepResult("ExpectReply", WriteE,
                    EncryptionNegotiation(Prologue(in_msg), in_msg.encryption_algos[1]))
    ELSE Failed(state)

verify_remote_static_key_signature(in_msg, authority, now) ==
    validate(from_noise_message(in_msg.payload, in_msg.remote_static, authority), now)

VerifyResponder(in_msg, state, authority, now) ==
    IF /\ ReadsReply(state, in_msg)
       /\ verify_remote_static_key_signature(in_msg, authority, now)
    THEN StepResult("Done", None, state)
    ELSE Failed(state)

InitiatorStep(stage, in_msg, state, algorithms, authority, now) ==
    CASE stage = 0 -> ListAlgorithms(algorithms, state)
      [] stage = 1 -> ChosenByResponder(in_msg, state)
      [] stage = 2 -> VerifyResponder(in_msg, state, authority, now)
      [] OTHER     -> StepResult("panic", None, state)

\* The list the connector of the noise proxy crate starts from.
ConnectorAlgorithms == <<"AESGCM">>

(***************************************************************************)
(* An initiator older than the negotiation: it begins with e, under         *)
(* ChaChaPoly and without a prologue.                                       *)
(***************************************************************************)
LegacyState == EncryptionNegotiation(Prologue(None), "ChaChaPoly")

LegacyStep(stage, in_msg, authority, now) ==
    CASE stage = 0 -> StepResult("ExpectReply", WriteE, LegacyState)
      [] stage = 1 -> VerifyResponder(in_msg, LegacyState, authority, now)
      [] OTHER     -> StepResult("panic", None, LegacyState)

-----------------------------------------------------------------------------
(* Responder::step                                                          *)

Algorithms == <<"AESGCM", "ChaChaPoly">>   \* what both proxies are willing to use

\* The first algorithm of the client's list that the responder supports, AES or
\* not; empty if there is none.
FirstSupported(offered) ==
    LET supported == {i \in DOMAIN offered : offered[i] \in Range(Algorithms)}
    IN  IF supported = {} THEN <<>> ELSE <<offered[Min(supported)]>>

\* AES if offered, otherwise the first supported one.
ChooseAlgorithm(offered) ==
    IF "AESGCM" \in Range(offered) THEN <<"AESGCM">> ELSE FirstSupported(offered)

Negotiate(in_msg, state) ==
    LET chosen == ChooseAlgorithm(in_msg.encryption_algos) IN
    IF chosen = <<>>
    THEN Failed(state)
    ELSE LET answer == NegotiationMessage(<<chosen[1]>>)
         IN  StepResult("ExpectReply", answer,
                        EncryptionNegotiation(Prologue(answer), chosen[1]))

\* Legacy clients treated as if an answer had been sent to them.
NegotiatedAnyway(in_msg) ==
    StepResult("NextStep", in_msg,
               EncryptionNegotiation(Prologue(NegotiationMessage(<<"ChaChaPoly">>)), "ChaChaPoly"))

\* A message that is no negotiation is passed on to the next step.
WithoutNegotiation(in_msg) == StepResult("NextStep", in_msg, LegacyState)

FirstMessage(in_msg, state) ==
    IF in_msg.type = "negotiation" THEN Negotiate(in_msg, state) ELSE WithoutNegotiation(in_msg)

Authenticate(in_msg, state, ctx) ==
    IF ReadsE(in_msg)
    THEN StepResult("NoMoreReply", WriteReply(state, ctx), state)
    ELSE Failed(state)

ResponderStep(stage, in_msg, state, ctx) ==
    CASE stage = 0 -> StepResult("ReceiveMessage", None, state)
      [] stage = 1 -> FirstMessage(in_msg, state)
      [] stage = 2 -> Authenticate(in_msg, state, ctx)
      [] stage = 3 -> StepResult("Done", None, state)
      [] OTHER     -> StepResult("panic", None, state)

=============================================================================
