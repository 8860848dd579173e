--------------------------- MODULE MCLeaderElection ---------------------------
(***************************************************************************)
(* LeaderElection for TLC.  The configurations give every constant its     *)
(* value: two replicas, and a TTL and delay that leave a late leader room  *)
(* to renew (leader.cfg) or that a document speaks of.                     *)
(***************************************************************************)
EXTENDS LeaderElection
=============================================================================
