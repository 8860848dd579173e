----------------------------- MODULE MCHAMonitor -----------------------------
(* HAMonitor for TLC.  The configurations give every constant its value: two *)
(* replicas, the least TTL at which a connected leader keeps its lease, one  *)
(* provider, a service that is up or down.                                   *)
EXTENDS HAMonitor

NoProvider == {}
=============================================================================
