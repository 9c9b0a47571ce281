---------------------------- MODULE MCSatellite ----------------------------
(* Instances of Satellite for TLC.                                         *)
EXTENDS Satellite
=============================================================================
