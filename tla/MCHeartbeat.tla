---------------------------- MODULE MCHeartbeat ----------------------------
(* Bounded instances of Heartbeat. *)
EXTENDS Heartbeat, TLC

(* Tasks differ in nothing but their names. *)
LaunchSymmetry == Permutations(Launches)

=============================================================================
