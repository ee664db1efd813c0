------------------------ MODULE MCAccountSubscriber ------------------------
(* The instance of AccountSubscriber for TLC: see MCAccountSubscriber.cfg. *)
EXTENDS AccountSubscriber
=============================================================================
