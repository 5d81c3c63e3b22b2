------------------------------- MODULE Session -------------------------------
(***************************************************************************)
(* What a connection seals its messages with: the session keys of          *)
(* src/security/session.ts, the short authentication string                *)
(* (src/security/sas.ts), signatures (src/security/crypto.ts,              *)
(* src/security/identity.ts) and the frames of src/network/protocol.ts.    *)
(* Keys are terms: two are equal exactly when they are derived alike.      *)
(***************************************************************************)
EXTENDS Naturals, Sequences

CONSTANT NoSession  \* nothing is derived yet, or the connection is closed

(* X25519 gives both ends the same secret; HKDF separates its uses. *)
Shared(ours, theirs) == {ours, theirs}
Hkdf(secret, salt, info) == <<info, secret, salt>>

(* deriveSession(): the transmit key of one role is the receive key of the
   other, the entity key is the same for both. *)
SameForBothRoles(role, ours, theirs, initiator, responder) ==  \* mutant
  LET key(info) == Hkdf(Shared(ours, theirs), <<initiator, responder>>, info)
  IN [tx |-> key("forth"), rx |-> key("back"), entity |-> key("entity"),
      sas |-> <<initiator, responder>>]
DeriveSession(role, ours, theirs, initiator, responder) ==
  LET key(info) == Hkdf(Shared(ours, theirs), <<initiator, responder>>, info)
      forth == key("forth")
      back == key("back")
  IN [tx |-> IF role = "initiator" THEN forth ELSE back,
      rx |-> IF role = "initiator" THEN back ELSE forth,
      entity |-> key("entity"),
      sas |-> <<initiator, responder>>]

(* deriveSessionKeys(), with both ephemeral keys in the order of the roles. *)
SessionOf(role, ours, theirs) ==
  IF role = "initiator" THEN DeriveSession(role, ours, theirs, ours, theirs)
                        ELSE DeriveSession(role, ours, theirs, theirs, ours)

-----------------------------------------------------------------------------
(* An envelope, signed by its sender, and the frame it travels in. *)
Envelope(sender, channel, data) ==
  [sender |-> sender, channel |-> channel, data |-> data]
Signed(who, envelope) == [by |-> who, envelope |-> envelope]
EncodeEncrypted(session, message) == [key |-> session.tx, message |-> message]

(* decode() with verifyAuthenticity(): a frame of another key, or an envelope
   of another sender or signature, is dropped. *)
Decrypts(session, frame) == session # NoSession /\ frame.key = session.rx
Authentic(message, remote) == message.by = remote /\ message.envelope.sender = remote
Opens(session, frame, remote) == Decrypts(session, frame) /\ Authentic(frame.message, remote)
=============================================================================
