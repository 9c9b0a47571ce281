---------------------------- MODULE MCFlashRead -----------------------------
(***************************************************************************)
(* FlashRead as TLC checks it: the commands the server may choose from.    *)
(***************************************************************************)
EXTENDS FlashRead

All(p)         == Command("all", p, 0, 0, ContinueLen)
FromHead(s, n) == Command("head", 0, s, n, NumberEnd)

(* Of the six messages that fill the ring five are on port 1, which is     *)
(* more than two batches of two.                                           *)
MCPrefills == {<<>>, <<1, 1, 2, 1, 1, 1>>}
MCRequests == {All(1), FromHead(1, 2), FromHead(3, 3)}

AllPrefills == {<<>>, <<2>>, <<1, 2, 1>>, <<2, 1, 1, 1, 2, 1>>}
AllRequests == {All(0)}
=============================================================================
