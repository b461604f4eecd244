-------------------------- MODULE MCIntentDelivery --------------------------
(* Model of IntentDelivery for TLC. *)
EXTENDS IntentDelivery, TLC

SenderSymmetry == Permutations(Senders)
=============================================================================
