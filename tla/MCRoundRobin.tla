---------------------------- MODULE MCRoundRobin ----------------------------
(* Four processes, pushed and removed in any order, without a bound on the *)
(* number of calls.                                                        *)
EXTENDS RoundRobinClient
=============================================================================
