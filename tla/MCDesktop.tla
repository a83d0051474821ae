----------------------------- MODULE MCDesktop -----------------------------
(* A small instance of Desktop for TLC: two configurations that resolve    *)
(* and can still fail to launch or to bind.                                *)
EXTENDS Desktop

CONSTANTS good, better

AllConfigs == {good, better}
None == {}
=============================================================================
