---------------------------- MODULE LrMessaging ----------------------------
(***************************************************************************)
(* Messages between users over LoRaWAN (communication/lr_messaging and its *)
(* use in communication.c): those to send are repeated in rounds, as often *)
(* as the setting lr_messaging_retry_count says, those received wait until *)
(* a phone asks for them over Bluetooth.  The communication thread keeps   *)
(* both stores; the main thread hands its messages to the phone.           *)
(***************************************************************************)
EXTENDS Naturals, Sequences, FiniteSets

CONSTANTS
    Slots,       \* bound: messages in a store, LR_MESSAGING_N_STORED_MSG
    MaxMessage,  \* LR_MESSAGING_MAX_MSG_LEN, which the stores compare with
    MainQueMax,  \* size of main_que
    RetryCounts, \* values of the setting lr_messaging_retry_count
    SeqNrs,      \* sequence numbers of received messages
    Bound        \* bound: messages typed, received, reads, settings, ...

ASSUME MessagingAssumption ==
    /\ Slots \in Nat \ {0} /\ MainQueMax \in Nat \ {0}
    /\ MaxMessage \in Nat /\ Slots <= MaxMessage  \* 5 and 46
    /\ RetryCounts \subseteq Nat \ {0} /\ RetryCounts # {} /\ Bound \in Nat

VARIABLES
    out,      \* outgoing_msg_que
    sendIdx,  \* send_idx
    nextNr,   \* outgoing_seq_nr
    round,    \* messages the present round has still to send
    count,    \* lr_messaging_retry_count
    in,       \* incoming_msg_que
    reading,  \* messages CMD_READ_ALL_LR_MESSAGES has still to read
    nMes,     \* the value n_mes
    linked,   \* a phone is connected
    mainQue,  \* main_que: messages for the phone
    hist,     \* history, see Init
    left      \* bound

outgoing == <<out, sendIdx, nextNr, round>>
incoming == <<in, reading, nMes>>
vars     == <<outgoing, count, incoming, linked, mainQue, hist, left>>

Budget   == left > 0 /\ left' = left - 1
CommIdle == round = 0 /\ reading = 0

RemoveOldest(q) == IF q = <<>> THEN q ELSE Tail(q)
RoomFor(q)      == IF Len(q) >= MaxMessage THEN RemoveOldest(q) ELSE q

-----------------------------------------------------------------------------
(* Messages to send                                                        *)

(* Faulty variant: a new message goes first.                               *)
StoreOutgoingFirst ==
    /\ Budget /\ CommIdle /\ Len(out) < Slots
    /\ nextNr' = nextNr + 1
    /\ out' = <<[seq |-> nextNr', retry |-> 0]>> \o RoomFor(out)
    /\ UNCHANGED <<sendIdx, round, count, incoming, linked, mainQue, hist>>

(* MB_MSG_STORE of a message typed on the phone.  With Slots messages in   *)
(* the store the code goes on and overwrites what lies behind it.          *)
StoreOutgoing ==
    /\ Budget /\ CommIdle /\ Len(out) < Slots
    /\ nextNr' = nextNr + 1
    /\ out' = Append(RoomFor(out), [seq |-> nextNr', retry |-> 0])
    /\ UNCHANGED <<sendIdx, round, count, incoming, linked, mainQue, hist>>

(* prv_lr_send_messages() sends as many messages as there are; as each     *)
(* removes one at most, it never finds the store empty.                    *)
StartRound ==
    /\ CommIdle /\ out # <<>>
    /\ round' = Len(out)
    /\ hist' = [hist EXCEPT !.before = [i \in DOMAIN out |-> out[i].seq], !.sent = <<>>]
    /\ UNCHANGED <<out, sendIdx, nextNr, count, incoming, linked, mainQue, left>>

(* Faulty variant: the position is not taken back to the start.            *)
SendMessageNoWrap ==
    /\ round > 0 /\ sendIdx < Len(out)
    /\ LET sent == [out EXCEPT ![sendIdx + 1].retry = @ + 1]
           last == sent[sendIdx + 1].retry >= count
       IN  /\ out' = IF last THEN RemoveOldest(sent) ELSE sent
           /\ sendIdx' = IF last THEN sendIdx ELSE sendIdx + 1
           /\ hist' = [hist EXCEPT !.sent = Append(@, out[sendIdx + 1].seq)]
    /\ round' = round - 1
    /\ UNCHANGED <<nextNr, count, incoming, linked, mainQue, left>>

(* lr_messaging_send_outgoing_msg(): the message at send_idx; after the    *)
(* last repetition the first of the store is removed, "it must be the last *)
(* one".                                                                   *)
SendMessage ==
    /\ round > 0 /\ out # <<>>
    /\ LET sent == [out EXCEPT ![sendIdx + 1].retry = @ + 1]
           last == sent[sendIdx + 1].retry >= count
           next == IF last THEN sendIdx ELSE sendIdx + 1
       IN  /\ out' = IF last THEN RemoveOldest(sent) ELSE sent
           /\ sendIdx' = IF next >= Len(out') THEN 0 ELSE next
           /\ hist' = [hist EXCEPT !.sent = Append(@, out[sendIdx + 1].seq)]
    /\ round' = round - 1
    /\ UNCHANGED <<nextNr, count, incoming, linked, mainQue, left>>

(* The main thread changes the setting whenever it runs.                   *)
SetCount(c) ==
    /\ Budget /\ c # count
    /\ count' = c
    /\ UNCHANGED <<outgoing, incoming, linked, mainQue, hist>>

-----------------------------------------------------------------------------
(* Received messages                                                       *)

(* add_incoming_msg() closes the gap of the first message of that number.  *)
Places(q, seq) == {i \in DOMAIN q : q[i].seq = seq}
Without(q, i)  == SubSeq(q, 1, i - 1) \o SubSeq(q, i + 1, Len(q))
Others(q, seq) ==
    IF Places(q, seq) = {} THEN q
    ELSE Without(q, CHOOSE i \in Places(q, seq) : \A j \in Places(q, seq) : i <= j)

(* Faulty variant: a repetition is kept beside the message.                *)
StoreIncomingTwice(seq) ==
    /\ Budget /\ CommIdle /\ Len(in) < Slots
    /\ in' = Append(in, [seq |-> seq, at |-> hist.stored + 1])
    /\ nMes' = Len(in')
    /\ hist' = [hist EXCEPT !.stored = @ + 1, !.broken = FALSE]
    /\ UNCHANGED <<outgoing, count, reading, linked, mainQue>>

(* MB_MSG_STORE of a message received: a repetition replaces the message   *)
(* and becomes the newest.                                                 *)
StoreIncoming(seq) ==
    /\ Budget /\ CommIdle /\ Len(Others(in, seq)) < Slots
    /\ in' = Append(RoomFor(Others(in, seq)), [seq |-> seq, at |-> hist.stored + 1])
    /\ nMes' = Len(in')
    /\ hist' = [hist EXCEPT !.stored = @ + 1, !.broken = FALSE]
    /\ UNCHANGED <<outgoing, count, reading, linked, mainQue>>

(* CMD_READ_ALL_LR_MESSAGES of a phone.                                    *)
ReadAll ==
    /\ Budget /\ CommIdle
    /\ reading' = Len(in)
    /\ nMes' = IF in = <<>> THEN 0 ELSE nMes
    /\ UNCHANGED <<outgoing, count, in, linked, mainQue, hist>>

EndReading == reading' = 0 /\ nMes' = 0

(* The message is removed before it is handed over, also when the phone is *)
(* gone; a full main_que is emptied first.                                 *)
ReadMessage ==
    /\ reading > 0
    /\ in' = RemoveOldest(in)
    /\ IF linked
       THEN /\ mainQue' = IF Len(mainQue) < MainQueMax
                            THEN Append(mainQue, Head(in)) ELSE <<Head(in)>>
            /\ IF reading = 1 THEN EndReading ELSE reading' = reading - 1 /\ UNCHANGED nMes
            /\ hist' = [hist EXCEPT !.broken = FALSE]
       ELSE /\ UNCHANGED mainQue
            /\ EndReading
            /\ hist' = [hist EXCEPT !.broken = TRUE]
    /\ UNCHANGED <<outgoing, count, linked, left>>

(* The main thread sends to the phone, or drops what it cannot send.       *)
Deliver ==
    /\ mainQue # <<>>
    /\ mainQue' = Tail(mainQue)
    /\ hist' = IF linked THEN [hist EXCEPT !.delivered = Append(@, Head(mainQue).at)] ELSE hist
    /\ UNCHANGED <<outgoing, count, incoming, linked, left>>

Link ==
    /\ Budget
    /\ linked' = ~linked
    /\ UNCHANGED <<outgoing, count, incoming, mainQue, hist>>

-----------------------------------------------------------------------------
(* hist: the sequence numbers in the store when the round began and those  *)
(* sent since; messages received; order of those the phone got; the last   *)
(* read was broken off.                                                    *)
Init ==
    /\ out = <<>> /\ sendIdx = 0 /\ nextNr = 0 /\ round = 0 /\ count \in RetryCounts
    /\ in = <<>> /\ reading = 0 /\ nMes = 0
    /\ linked \in BOOLEAN /\ mainQue = <<>> /\ left = Bound
    /\ hist = [before |-> <<>>, sent |-> <<>>, stored |-> 0, delivered |-> <<>>, broken |-> FALSE]

Next ==
    \/ StoreOutgoing \/ StartRound \/ SendMessage \/ ReadAll \/ ReadMessage \/ Deliver \/ Link
    \/ \E c \in RetryCounts : SetCount(c)
    \/ \E seq \in SeqNrs : StoreIncoming(seq)

Spec == Init /\ [][Next]_vars

-----------------------------------------------------------------------------
(* A message leaves the store only after it has been sent as often as the  *)
(* setting then asks for, although the code removes the first of the store *)
(* and not the one it has just sent (lr_messaging.c:332), and also when    *)
(* the setting changes in the middle of a round.                           *)
LeavesAfterRetries ==
    [][\A i \in DOMAIN out :
        (\A j \in DOMAIN out' : out'[j].seq # out[i].seq)
            => out[i].retry + (IF i = sendIdx + 1 THEN 1 ELSE 0) >= count]_vars

(* A round sends every message of the store once, the oldest first, and    *)
(* the next one begins again with the oldest.                              *)
RoundSendsEach ==
    round = 0 => (sendIdx = 0 /\ hist.sent = hist.before)

(* Outside a read n_mes tells how many messages wait, except after a read  *)
(* that the phone broke off (communication.c:1946); no message waits       *)
(* twice, and the phone gets them in the order they came.                  *)
UnreadCounted ==
    /\ reading = 0 => nMes = Len(in) \/ (hist.broken /\ nMes = 0)
    /\ Cardinality({in[i].seq : i \in DOMAIN in}) = Len(in)
    /\ \A i, j \in DOMAIN hist.delivered : i < j => hist.delivered[i] < hist.delivered[j]
=============================================================================
