---------------------------- MODULE MCMcpClients ----------------------------
(* McpClients for TLC.  The versions of a configuration are interchangeable, *)
(* so runs that begin with the first one, or with none, stand for all.  (A   *)
(* SYMMETRY clause would not be sound beside a liveness property.)           *)
EXTENDS McpClients

CONSTANT First  \* the version that a file may begin with

ASSUME FirstAssumption == First \in Versions

FirstInit == Init /\ \A k \in Keys : config[k] \in {First, Off}

FirstSpec == FirstInit /\ [][Next]_vars /\ Fairness
=============================================================================
