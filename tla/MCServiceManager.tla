-------------------------- MODULE MCServiceManager --------------------------
(* Small instances of ServiceManager for TLC.                              *)
EXTENDS ServiceManagerInv, TLC

CONSTANTS web, api, p1, p2

OnlyWeb == {web}
WebAndApi == {web, api}
NoPids == {}
TwoPids == {p1, p2}

\* pids are interchangeable; with both services launched by start_all the
\* services are too
PidSymmetry == Permutations(TwoPids)
Symmetry == Permutations(TwoPids) \cup Permutations(WebAndApi)
=============================================================================
