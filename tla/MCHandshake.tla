----------------------------- MODULE MCHandshake -----------------------------
(* Register contents for the model-checked instances of Handshake. *)
EXTENDS Handshake

CleanAvail == {NoUpdate}
AnyAvail   == UpdateType
=============================================================================
