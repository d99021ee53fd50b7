----------------------------- MODULE MCAudioRing -----------------------------
(* The audio ring on a small instance: a ring shorter than a batch, a device *)
(* that asks for more than the ring may hold, and three sample rates.       *)
EXTENDS AudioRing

MCRates == {2, 3, 7}
=============================================================================
