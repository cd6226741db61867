---------------------------- MODULE MCClientPool ----------------------------
(***************************************************************************)
(* ClientPool for TLC.  Connections are interchangeable; the symmetry is   *)
(* used by the runs without liveness properties only.                      *)
(***************************************************************************)
EXTENDS ClientPool, TLC

ConnSymmetry == Permutations(Conn)
=============================================================================
