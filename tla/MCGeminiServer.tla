--------------------------- MODULE MCGeminiServer ---------------------------
(* Instances of GeminiServer for TLC: four clients, one of them silent.    *)
EXTENDS GeminiServer

CONSTANTS alice, bob, carol, mute

MCClient == {alice, bob, carol, mute}
MCCooperative == {alice, bob, carol}
=============================================================================
