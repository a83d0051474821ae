------------------------------ MODULE MCProxy ------------------------------
(* Two addresses, one or both of them bound, or one of them twice (two     *)
(* names of a host), and two clients of two servers.                       *)
EXTENDS Proxy

CONSTANTS a1, a2, c1, c2

TwoAddresses == {a1, a2}
TwoClients == {c1, c2}
OneClient == {c1}
Lists == {<<a1>>, <<a1, a2>>, <<a2, a2>>}
=============================================================================
