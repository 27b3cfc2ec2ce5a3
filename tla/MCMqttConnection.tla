--------------------------- MODULE MCMqttConnection ---------------------------
(***************************************************************************)
(* MqttConnection for TLC.  Its constants are sets of model values and a   *)
(* bound, which the cfg gives; there is no symmetry, for liveness.         *)
(***************************************************************************)
EXTENDS MqttConnection, TLC
=============================================================================
