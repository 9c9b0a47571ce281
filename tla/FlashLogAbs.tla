---------------------------- MODULE FlashLogAbs -----------------------------
(***************************************************************************)
(* What the flash log promises: a first-in first-out log of which only the *)
(* oldest messages are ever given up, and a buffer of the newest messages  *)
(* that a reset or a refused write may lose, never the log behind it.      *)
(* Nothing is duplicated or invented.  Ids grow with every message, so the *)
(* order of arrival is the order of the ids.                               *)
(***************************************************************************)
EXTENDS Naturals

VARIABLES
    log,    \* ids of the messages on flash
    pend,   \* ids of the messages still in RAM
    next    \* id of the next message

avars == <<log, pend, next>>

Init == log = {} /\ pend = {} /\ next = 1

(* The messages that arrive in one step: none, one, or the two boot        *)
(* records, of which the first may have failed.                            *)
Arrivals == {{}, {next}, {next + 1}}

(* The log gives up its oldest messages only.                              *)
Gone == log \ log'
OldestFirst == \A x \in Gone, y \in log \cap log' : x < y

(* What was kept, and what arrives, is in the log or waits; the messages   *)
(* that wait are the newest.                                               *)
Moves(kept) ==
    /\ OldestFirst
    /\ \A x \in log', y \in pend' : x < y
    /\ \E new \in Arrivals : log' \cup pend' = (kept \ Gone) \cup new

Keep == Moves(log \cup pend)

(* The pending messages are lost.                                          *)
Lose == Moves(log)

Clear == log' = {} /\ pend' = {}

Next == next' \in {next, next + 1, next + 2} /\ (Keep \/ Lose \/ Clear)

Spec == Init /\ [][Next]_avars
=============================================================================
