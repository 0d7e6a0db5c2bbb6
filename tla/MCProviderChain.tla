------------------------- MODULE MCProviderChain -------------------------
(* Two retries per call and a matchlist that may exceed the limit by one.  *)
EXTENDS ProviderChain
==========================================================================
