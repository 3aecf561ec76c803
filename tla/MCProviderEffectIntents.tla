------------------------ MODULE MCProviderEffectIntents ------------------------
(* Small bounds for TLC; every request may be of any kind. *)
EXTENDS ProviderEffectIntents, TLC
=============================================================================
