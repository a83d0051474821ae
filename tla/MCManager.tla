----------------------------- MODULE MCManager -----------------------------
(* Small instances of Manager for TLC: good configurations, one with a bad *)
(* route, and one with a command that cannot be resolved.                  *)
EXTENDS Manager

CONSTANTS good, better, badRoute, badCommand

AllConfigs == {good, better, badRoute, badCommand}
BadRoutes == {badRoute}
BadCommands == {badCommand}
=============================================================================
