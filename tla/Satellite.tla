----------------------------- MODULE Satellite -----------------------------
(***************************************************************************)
(* The satellite thread (satellite/satellite.c).  Other threads put        *)
(* messages and commands on satellite_que; messages gather in sat_buf      *)
(* until a command sends them all as one: the modem is switched on, the    *)
(* message written into it, and sessions with the gateway are tried, in    *)
(* which messages for the device are fetched, too.                         *)
(*                                                                         *)
(* Each command to the modem may fail in two ways: the modem did not obey, *)
(* or it did and its answer was lost or too late.                          *)
(***************************************************************************)
EXTENDS Naturals, Sequences, FiniteSetsExt

CONSTANTS
    Cap,       \* size of sat_buf
    Sizes,     \* sizes of messages
    QueMax,    \* size of satellite_que, 4 in the code
    Retries,   \* values of the setting satellite_retry
    Receives,  \* messages fetched in a row, 3 in the code
    Inputs,    \* what may happen, see Causes
    Bound      \* bound: how often something of it happens

Causes == {"message", "send", "order", "enable", "retry", "fault"}

ASSUME SatelliteAssumption ==
    /\ {Cap, QueMax, Receives} \subseteq Nat \ {0}
    /\ Sizes \subseteq 1 .. Cap /\ Sizes # {}
    /\ Retries \subseteq Nat \ {0} /\ Retries # {}
    /\ Inputs \subseteq Causes /\ Bound \in Nat

VARIABLES
    que,      \* satellite_que
    buf,      \* sat_buf: numbers and sizes of its messages, oldest first
    enabled,  \* the setting satellite_enabled
    retry,    \* the setting satellite_retry
    sat,      \* the satellite thread: where it is and its local variables
    modem,    \* messages written into it, one fetched, how often handed on
    gateway,  \* numbers of the messages that arrived, a sequence per session
    hist,     \* history, see Init
    left      \* bound

settings == <<enabled, retry>>
link     == <<modem, gateway>>
vars     == <<que, buf, settings, sat, link, hist, left>>

Uses(input) == input \in Inputs /\ left > 0 /\ left' = left - 1
At(place)   == sat.at = place
Goes(place) == sat' = [sat EXCEPT !.at = place]

Idle == [at |-> "idle", tries |-> 0, received |-> 1, more |-> FALSE]

-----------------------------------------------------------------------------
(* The queue.  A message has a number and a size; a command and the status *)
(* message have the number 0.                                              *)

Command(name)    == [cmd |-> name, no |-> 0, size |-> 0]
NewMessage(size) == [cmd |-> "message", no |-> hist.made + 1, size |-> size]

Numbers(s) == {s[i].no : i \in DOMAIN s} \ {0}
SizeOf(s)  == MapThenSumSet(LAMBDA i : s[i].size, DOMAIN s)

(* thread_put_message(): a full queue is purged.                           *)
Put(e) ==
    LET purged == Len(que) = QueMax
    IN  /\ que' = Append(IF purged THEN <<>> ELSE que, e)
        /\ hist' = [hist EXCEPT !.made = IF e.no > 0 THEN @ + 1 ELSE @,
                                !.lost = @ \cup IF purged THEN Numbers(que) ELSE {}]

PostMessage ==
    /\ Uses("message")
    /\ \E size \in Sizes : Put(NewMessage(size))
    /\ UNCHANGED <<buf, settings, sat, link>>

(* The interval has passed ("send"), or a user asks for it ("order").      *)
PostSend ==
    /\ \E cmd \in {"send", "order"} : Uses(cmd) /\ Put(Command(cmd))
    /\ UNCHANGED <<buf, settings, sat, link>>

SetEnabled ==
    /\ Uses("enable")
    /\ enabled' = ~enabled
    /\ Put(Command("enable"))
    /\ UNCHANGED <<buf, retry, sat, link>>

SetRetry ==
    /\ Uses("retry")
    /\ retry' \in Retries \ {retry}
    /\ UNCHANGED <<que, buf, enabled, sat, link, hist>>

-----------------------------------------------------------------------------
(* satellite_handle_commands()                                             *)

Takes(cmd) ==
    /\ At("idle") /\ que # <<>> /\ Head(que).cmd = cmd
    /\ que' = Tail(que)

Rest(k) == SubSeq(buf, k + 1, Len(buf))

(* The oldest messages, k of them, are removed until one more has room.    *)
Removed(k, size) ==
    /\ SizeOf(Rest(k)) + size <= Cap
    /\ \A j \in 0 .. k - 1 : SizeOf(Rest(j)) + size > Cap

AddMessage ==
    /\ Takes("message")
    /\ IF enabled
       THEN \E k \in 0 .. Len(buf) :
                /\ Removed(k, Head(que).size)
                /\ buf' = Append(Rest(k), [no |-> Head(que).no, size |-> Head(que).size])
                /\ hist' = [hist EXCEPT !.lost = @ \cup (Numbers(buf) \ Numbers(Rest(k)))]
       ELSE /\ hist' = [hist EXCEPT !.lost = @ \cup {Head(que).no}]
            /\ UNCHANGED buf
    /\ UNCHANGED <<settings, sat, link, left>>

(* An empty buffer is sent only if a user asks, with a status message.     *)
StartSend ==
    \E cmd \in {"send", "order"} :
        /\ Takes(cmd)
        /\ IF enabled /\ (buf # <<>> \/ cmd = "order")
           THEN Goes("switchOn")
           ELSE UNCHANGED sat
        /\ IF enabled /\ buf = <<>> /\ cmd = "order"
           THEN \E size \in Sizes : buf' = <<[no |-> 0, size |-> size]>>
           ELSE UNCHANGED buf
        /\ UNCHANGED <<settings, link, hist, left>>

(* satellite_test(): the modem is pinged, nothing is sent.                 *)
Test ==
    /\ Takes("enable")
    /\ UNCHANGED <<buf, settings, sat, link, hist, left>>

-----------------------------------------------------------------------------
(* satellite_send_buffer()                                                 *)

(* satellite_enable(), satellite_check_communication() and                 *)
(* satellite_configure_port().                                             *)
SwitchOn ==
    /\ At("switchOn")
    /\ \/ Goes("write") /\ UNCHANGED left
       \/ Goes("off") /\ Uses("fault")
    /\ UNCHANGED <<que, buf, settings, link, hist>>

(* satellite_queue_bytes_message().  Without an echo it gives up; whatever *)
(* fails later it returns -EIO, which its caller takes for true.           *)
Write ==
    LET filled    == modem' = [modem EXCEPT !.out = buf]
        notFilled == UNCHANGED modem
        doubts    == hist' = [hist EXCEPT !.doubt = @ \cup Numbers(buf)]
    IN  /\ At("write")
        /\ \/ Goes("send") /\ filled /\ UNCHANGED <<hist, left>>
           \/ Goes("off") /\ notFilled /\ Uses("fault") /\ UNCHANGED hist
           \/ Goes("send") /\ notFilled /\ Uses("fault") /\ doubts
           \/ Goes("send") /\ filled /\ Uses("fault") /\ UNCHANGED hist
        /\ UNCHANGED <<que, buf, settings, gateway>>

InSession == At("send") \/ At("more")

Sent == [i \in DOMAIN modem.out |-> modem.out[i].no]

(* A session with the gateway: what is in the modem goes out, and a        *)
(* message that waits for the device may come in.  Unless the modem is     *)
(* emptied afterwards it keeps a copy.                                     *)
Session(fetches, emptied) ==
    /\ gateway' = IF Numbers(modem.out) = {} THEN gateway ELSE Append(gateway, Sent)
    /\ modem' = [out |-> IF emptied THEN <<>> ELSE modem.out,
                 fetched |-> fetches, handed |-> 0]
    /\ hist' = [hist EXCEPT !.again = @ \cup IF emptied THEN {} ELSE Numbers(modem.out)]

(* Faulty variant: the buffer is emptied although no session succeeded.    *)
SessionFailsClears ==
    /\ InSession
    /\ \/ UNCHANGED <<link, hist, left>>
       \/ /\ Uses("fault")
          /\ \E fetches \in BOOLEAN : Session(fetches, FALSE)
    /\ IF sat.tries + 1 >= retry
       THEN Goes("off") /\ buf' = <<>>
       ELSE sat' = [sat EXCEPT !.tries = @ + 1] /\ UNCHANGED buf
    /\ UNCHANGED <<que, settings>>

(* A session that fails, or of which no answer is heard.                   *)
SessionFails ==
    /\ InSession
    /\ \/ UNCHANGED <<link, hist, left>>
       \/ /\ Uses("fault")
          /\ \E fetches \in BOOLEAN : Session(fetches, FALSE)
    /\ IF sat.tries + 1 >= retry
       THEN Goes("off")
       ELSE sat' = [sat EXCEPT !.tries = @ + 1]
    /\ UNCHANGED <<que, buf, settings>>

(* Faulty variant: attempts are not counted.                               *)
AfterSessionUncounted(fetches, received) ==
    \E more \in {FALSE, fetches} :
        sat' = [at |-> IF fetches THEN "receive" ELSE "off",
                tries |-> 0, received |-> 1, more |-> more]

(* Reading goes on while messages come, "for a maximum of 3 times".        *)
AfterSession(fetches, received) ==
    \E more \in {FALSE, fetches} :
        sat' = [at |-> IF fetches /\ received <= Receives THEN "receive" ELSE "off",
                tries |-> 0, received |-> received, more |-> more]

(* Faulty variant: the buffer keeps what has been sent.                    *)
SessionSucceedsKeeps ==
    /\ InSession
    /\ \E fetches \in BOOLEAN :
        /\ \/ Session(fetches, TRUE) /\ UNCHANGED left
           \/ Session(fetches, FALSE) /\ Uses("fault")
        /\ AfterSession(fetches, IF At("send") THEN 1 ELSE sat.received + 1)
    /\ UNCHANGED <<que, buf, settings>>

(* After a success the modem is emptied, and nobody asks whether it was.   *)
SessionSucceeds ==
    /\ InSession
    /\ \E fetches \in BOOLEAN :
        /\ \/ Session(fetches, TRUE) /\ UNCHANGED left
           \/ Session(fetches, FALSE) /\ Uses("fault")
        /\ AfterSession(fetches, IF At("send") THEN 1 ELSE sat.received + 1)
    /\ buf' = IF At("send") THEN <<>> ELSE buf
    /\ UNCHANGED <<que, settings>>

(* Faulty variant: without the final OK it is tried again.                 *)
ReceiveAgain ==
    LET handed == modem' = [modem EXCEPT !.handed = IF @ = 0 THEN 1 ELSE 2]
        goesOn == sat' = [sat EXCEPT !.at = IF sat.more THEN "more" ELSE "off", !.tries = 0]
    IN  /\ At("receive")
        /\ \/ handed /\ goesOn /\ UNCHANGED left
           \/ handed /\ Goes("receive") /\ Uses("fault")
           \/ UNCHANGED modem /\ (goesOn \/ Goes("off")) /\ Uses("fault")
        /\ UNCHANGED <<que, buf, settings, gateway, hist>>

(* satellite_receive(): the fetched message is handed to the main thread.  *)
(* It fails without an echo, a header or the final OK; a message that does *)
(* not come is taken for one that did.                                     *)
Receive ==
    LET handed == modem' = [modem EXCEPT !.handed = IF @ = 0 THEN 1 ELSE 2]
        goesOn == sat' = [sat EXCEPT !.at = IF sat.more THEN "more" ELSE "off", !.tries = 0]
    IN  /\ At("receive")
        /\ \/ handed /\ goesOn /\ UNCHANGED left
           \/ handed /\ Goes("off") /\ Uses("fault")
           \/ UNCHANGED modem /\ (goesOn \/ Goes("off")) /\ Uses("fault")
        /\ UNCHANGED <<que, buf, settings, gateway, hist>>

NoMessages == [out |-> <<>>, fetched |-> FALSE, handed |-> 0]

(* satellite_disable(): without power the modem forgets everything.        *)
SwitchOff ==
    /\ At("off")
    /\ sat' = Idle
    /\ modem' = NoMessages
    /\ UNCHANGED <<que, buf, settings, gateway, hist, left>>

-----------------------------------------------------------------------------
Init ==
    /\ que = <<>> /\ buf = <<>> /\ gateway = <<>>
    /\ enabled = TRUE /\ retry \in Retries
    /\ sat = Idle /\ modem = NoMessages
    /\ hist = [made   |-> 0,      \* messages posted
               lost   |-> {},     \* purged, displaced or not wanted
               doubt  |-> {},     \* of which the modem did not take a copy
               again  |-> {}]     \* which may be sent a second time
    /\ left = Bound

Others == PostMessage \/ PostSend \/ SetEnabled \/ SetRetry

satellite_handle_commands == AddMessage \/ StartSend \/ Test
satellite_send_buffer ==
    SwitchOn \/ Write \/ SessionFails \/ SessionSucceeds \/ Receive \/ SwitchOff

Next == Others \/ satellite_handle_commands \/ satellite_send_buffer

Spec == Init /\ [][Next]_vars

(* Every wait for the modem has a timeout.                                 *)
FairSpec == Spec /\ WF_vars(satellite_send_buffer)

-----------------------------------------------------------------------------
Entries == [no : 0 .. Bound, size : 0 .. Cap]

TypeOK ==
    /\ que \in Seq([cmd : {"message", "send", "order", "enable"},
                    no : 0 .. Bound, size : 0 .. Cap])
    /\ Len(que) <= QueMax
    /\ buf \in Seq(Entries)
    /\ enabled \in BOOLEAN /\ retry \in Retries
    /\ sat \in [at : {"idle", "switchOn", "write", "send", "receive", "more", "off"},
                tries : Nat, received : 1 .. Receives + 1, more : BOOLEAN]
    /\ modem \in [out : Seq(Entries), fetched : BOOLEAN, handed : 0 .. 2]
    /\ gateway \in Seq(Seq(0 .. Bound))
    /\ hist \in [made : Nat, lost : SUBSET Nat, doubt : SUBSET Nat,
                 again : SUBSET Nat]
    /\ left \in 0 .. Bound

Arrived == UNION {{gateway[i][a] : a \in DOMAIN gateway[i]} : i \in DOMAIN gateway}

(* Every message is still queued, still in the buffer, at the gateway, or  *)
(* had to go for a newer one - through any order of failed, unheard and    *)
(* successful sessions.  Messages the modem never took are excepted here,  *)
(* see ClearedIsSent.                                                      *)
NothingLost ==
    1 .. hist.made \subseteq
        Numbers(que) \cup Numbers(buf) \cup Arrived \cup hist.lost \cup hist.doubt

(* The same without the exception.                                         *)
ClearedIsSent ==
    1 .. hist.made \subseteq
        Numbers(que) \cup Numbers(buf) \cup Arrived \cup hist.lost

(* The gateway gets messages once and in order, except after a session     *)
(* whose answer was not heard or a modem that was not emptied.             *)
OnceAtGateway ==
    \A i, j \in DOMAIN gateway :
        \A a \in DOMAIN gateway[i], b \in DOMAIN gateway[j] :
            LET m == gateway[i][a]
                n == gateway[j][b]
            IN  /\ i < j \/ (i = j /\ a < b)
                /\ {m, n} \cap (hist.again \cup {0}) = {}
                => m < n

(* A message for the device is executed at most once, also when its final  *)
(* OK is missing or another session follows.                               *)
ExecutedOnce == modem.handed <= 1

(* However long the gateway has messages for the device and whatever       *)
(* fails, the modem is switched off in the end.                            *)
SendEnds == ~At("idle") ~> At("idle")
=============================================================================
