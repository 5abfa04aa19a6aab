---------------------------- MODULE MCCapability ----------------------------
(* Fields of the envelope and of the message, as far as they differ.       *)
EXTENDS CapabilityDispatch

MCSigned == {"request_id", "nonce", "expires_at"}
MCAdded  == {"idempotency_key"}
=============================================================================
