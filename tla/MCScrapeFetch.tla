---------------------------- MODULE MCScrapeFetch ----------------------------
(* ScrapeFetch with two goroutines: rules expire and change between their   *)
(* calls, and one sleeps in the bucket while the other queues behind it.    *)
EXTENDS ScrapeFetch

CONSTANTS c1, c2, nobody

MCCallers == {c1, c2}
MCPolicies == {"enforce", "warn", "ignore"}
==============================================================================
