--------------------------- MODULE MCLogRotation ---------------------------
(* Logs of a few bytes for TLC; the constants are numbers of the cfg.      *)
EXTENDS LogRotation
=============================================================================
