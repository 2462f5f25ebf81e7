------------------------- MODULE MCDeviceShadowDoc -------------------------
(* DeviceShadowDoc on a small instance for TLC.                            *)
EXTENDS DeviceShadowDoc

MCTTLs == {1, 3}
=============================================================================
