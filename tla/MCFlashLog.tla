----------------------------- MODULE MCFlashLog -----------------------------
(***************************************************************************)
(* FlashLog for TLC: messages of 2 and 3 cells, and what may fail.         *)
(***************************************************************************)
EXTENDS FlashLog

SmallSizes   == {2, 3}
WritesFail   == {"write1", "write2", "flush"}
RoomIsMade   == {"write2", "flush", "erase"}
=============================================================================
