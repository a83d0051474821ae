----------------------------- MODULE MCInstance -----------------------------
(* Three launches.  In instance.cfg a tick is a second and a half, as long *)
(* as a launch knocks; in startup_window.cfg half a second.  The inherited *)
(* PATH has an empty entry, or cannot be read.  The login shell's has one  *)
(* directory in common with it, and two that are not UTF-8 and get the     *)
(* same name, or is all separators.                                        *)
EXTENDS Instance, TLC

CONSTANTS l1, l2, l3

ThreeLaunches == {l1, l2, l3}
Inherited == {<<"bin", "", "opt">>, Garbled}
LoginAnswers == {<<"", "">>, <<"caf8", "opt", "caf9">>}
Lossy == ("caf8" :> "caf?") @@ ("caf9" :> "caf?")

\* Every launch that got its request through is answered while the primary serves
\* (ActivationServer::start): shown for one, as launches are interchangeable.
RequestsAnswered == RequestAnswered(l1)
=============================================================================
