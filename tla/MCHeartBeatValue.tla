-------------------------- MODULE MCHeartBeatValue --------------------------
(* Windows of beat counts for TLC. *)
EXTENDS HeartBeatValue
=============================================================================
