------------------------------ MODULE MCLrScan ------------------------------
(***************************************************************************)
(* LrScan as TLC checks it: every cause of an event may occur.             *)
(***************************************************************************)
EXTENDS LrScan

AllCauses == LCauses
=============================================================================
