-------------------------- MODULE MCLorawanSession --------------------------
(***************************************************************************)
(* LorawanSession as TLC checks it: the calls that fail and the commands   *)
(* the other threads post.                                                 *)
(***************************************************************************)
EXTENDS LorawanSession

AllFaults   == Calls
AllCommands == Jobs \cup {"leave", "reset", "suspend", "resume"}
=============================================================================
