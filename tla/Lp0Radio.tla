------------------------------ MODULE Lp0Radio ------------------------------
(***************************************************************************)
(* Who has the radio.  The LR1110 serves the LoRaWAN modem, the LP0 thread *)
(* (lp0/lp0.c, lp0/lp0_offload) and, during an offload, the flash thread   *)
(* that sends the log through LP0; a GPS fix asks for the modem to be      *)
(* silent.  They hand it over through the event queue of the LoRaWAN       *)
(* thread and through six semaphores, each of which holds 0 or 1.          *)
(*                                                                         *)
(* Radio interrupts (priority 5) and the LoRaWAN thread (6) come before    *)
(* the LP0 thread (7) and all others, so a thread below takes a step only  *)
(* when the LoRaWAN thread has nothing to do or waits.                     *)
(***************************************************************************)
EXTENDS Naturals, Sequences

CONSTANTS
    Roles,        \* lp0_node_params[0]: 0 none, 1 tracker, 2 offload station
    LrQueMax,     \* size of event_que of lorawan.c
    Lp0QueMax,    \* size of lp0_event_que
    FlashQueMax,  \* size of flash_que
    Payloads,     \* bound: payloads of one offload
    FillCount,    \* bound: messages of a test fill, 100 in the code
    Modes,        \* the modes a command may set
    Packets,      \* what may be received
    Inputs,       \* what may happen from outside, see Causes
    Bound         \* bound: how often something of it happens

Causes  == {"message", "fill", "set", "packet", "fix", "job", "uplink", "mode", "role", "store", "fault", "slow"}
AllModes == {"DISABLED", "SETUP", "DEFAULT", "DISCOVERY", "TRANSFER", "STATION"}
Semaphores == {"chip", "done", "send", "start", "over", "save"}
AllPackets == {"ack", "ping", "fill", "data", "error"}

ASSUME RoleAssumption == Roles # {} /\ Roles \subseteq 0 .. 2
ASSUME SizeAssumption ==
    /\ {LrQueMax, Lp0QueMax, FlashQueMax, FillCount} \subseteq Nat \ {0}
    /\ Payloads \in Nat
ASSUME InputAssumption ==
    /\ Modes \subseteq AllModes /\ Packets \subseteq AllPackets
    /\ Inputs \subseteq Causes /\ Bound \in Nat

VARIABLES
    mode,      \* prv_mode
    lp0,       \* where the LP0 thread is
    lp0Que,    \* lp0_event_que
    ping,      \* ping_event_timer runs
    role,      \* the setting lp0_node_params[0]
    task,      \* prv_current_task
    air,       \* the chip is sending or listening for that task
    irq,       \* messages the interrupt thread has still to store
    sem,       \* the semaphores
    lr,        \* the LoRaWAN thread and its modem
    lrQue,     \* event_que
    flash,     \* where the flash thread is
    flashQue,  \* flash_que
    gps,       \* where the communication thread is
    paused,    \* com_thread_operation is THREAD_DISABLED
    upset,     \* what has happened that the code cannot make good
    left       \* bounds

lp0vars   == <<lp0, lp0Que, ping, role>>
radio     == <<task, air, irq>>
lrvars    == <<lr, lrQue>>
flashvars == <<flash, flashQue, paused>>
vars == <<mode, lp0vars, radio, sem, lrvars, flashvars, gps, upset, left>>

-----------------------------------------------------------------------------
(* Queues, semaphores, bounds                                              *)

Uses(input) == input \in Inputs /\ left > 0 /\ left' = left - 1

Upset(cases) == upset' = upset \cup cases
When(condition, case) == IF condition THEN {case} ELSE {}

Give(s) == [sem EXCEPT ![s] = 1]
Take(s) == [sem EXCEPT ![s] = 0]

(* A full queue loses its oldest entry.                                    *)
Newest(que, max) == IF Len(que) <= max THEN que ELSE Tail(que)

(* prv_put_event_in_que() of lorawan.c and of lp0.c.                       *)
PutLorawan(e) == lrQue' = Newest(Append(lrQue, e), LrQueMax)
Loses         == When(Len(lrQue) = LrQueMax, "lost")
PutLp0(e)     == lp0Que' = Newest(Append(lp0Que, e), Lp0QueMax)

(* thread_put_message(): a full queue is purged.                           *)
PutFlash(e) == flashQue' = IF Len(flashQue) < FlashQueMax THEN Append(flashQue, e) ELSE <<e>>
Purges      == When(Len(flashQue) = FlashQueMax, "purged")

-----------------------------------------------------------------------------
(* The LoRaWAN thread.  It uses the radio whenever its modem is resumed    *)
(* and its engine can run, and during a radio job.                         *)

LorawanUsesRadio == (lr.on /\ lr.at # "retake") \/ lr.at = "job"
Runs  == lr.at = "idle" /\ ~lr.txWait
Ready == Runs /\ lrQue # <<>>

(* A semaphore given while LP0 waits for it is LP0's, and nobody else can  *)
(* take it.                                                                *)
Owed == lp0.at \in {"suspending", "transfer"} /\ sem.chip = 1
Retakes == lr.at = "retake" /\ sem.chip = 1 /\ ~Owed

(* The LP0 thread yields to the LoRaWAN thread, and the others to an LP0   *)
(* thread that has just been given the radio.                              *)
Yield  == ~Ready /\ ~Retakes
Others == Yield /\ ~Owed

TakeEvent(e) == Ready /\ Head(lrQue) = e /\ lrQue' = Tail(lrQue)

(* LORAWAN_CMD_MODEM_SUSPEND: the semaphore is given only by the request   *)
(* that finds the engine running.                                          *)
LorawanSuspend ==
    /\ TakeEvent("suspend")
    /\ \/ /\ lr.state = "ENGINE"
          /\ lr' = [lr EXCEPT !.state = "SUSPENDED", !.enabled = FALSE, !.on = FALSE]
          /\ sem' = Give("chip")
          /\ UNCHANGED <<upset, left>>
       \/ /\ lr.state = "ENGINE" /\ Uses("fault")   \* the modem refuses
          /\ Upset({"fault"})
          /\ UNCHANGED <<lr, sem>>
       \/ /\ lr.state # "ENGINE"
          /\ lr' = [lr EXCEPT !.enabled = FALSE]
          /\ UNCHANGED <<sem, upset, left>>
    /\ UNCHANGED <<mode, lp0vars, radio, flashvars, gps>>

(* LORAWAN_CMD_MODEM_RESUME: the semaphore is taken back, with a timeout.  *)
LorawanResume ==
    /\ TakeEvent("resume")
    /\ \/ /\ lr.state = "SUSPENDED"
          /\ lr' = [lr EXCEPT !.state = "ENGINE", !.enabled = TRUE, !.on = TRUE, !.at = "retake"]
          /\ UNCHANGED <<upset, left>>
       \/ /\ lr.state = "SUSPENDED" /\ Uses("fault")
          /\ Upset({"fault"})
          /\ UNCHANGED lr
       \/ /\ lr.state = "ENGINE"
          /\ lr' = [lr EXCEPT !.enabled = TRUE]
          /\ UNCHANGED <<upset, left>>
    /\ UNCHANGED <<mode, lp0vars, radio, sem, flashvars, gps>>

(* 180 s are longer than any message of LP0, its windows included, and not *)
(* longer than an offload or the watch of a station.                       *)
RetakeTimesOut ==
    lr.at = "retake" /\ sem.chip = 0 /\ lp0.at \notin {"transmit", "window1", "window2"}

LorawanRetake ==
    /\ Retakes \/ RetakeTimesOut
    /\ sem' = IF Retakes THEN Take("chip") ELSE sem
    /\ lr' = [lr EXCEPT !.at = "idle"]
    /\ UNCHANGED <<mode, lp0vars, radio, lrQue, flashvars, gps, upset, left>>

(* A scan, a VHF burst or an S-band message: the modem is suspended and    *)
(* resumed around it, whoever else had it suspended.                       *)
LorawanJob ==
    /\ TakeEvent("job")
    /\ lr' = [lr EXCEPT !.state = "SUSPENDED", !.on = FALSE, !.at = "job"]
    /\ Upset({"job"})
    /\ UNCHANGED <<mode, lp0vars, radio, sem, flashvars, gps, left>>

LorawanJobEnds ==
    /\ lr.at = "job"
    /\ lr' = [lr EXCEPT !.state = "ENGINE", !.on = TRUE, !.at = "idle"]
    /\ UNCHANGED <<mode, lp0vars, radio, sem, lrQue, flashvars, gps, upset, left>>

(* An uplink: until it has been sent no event is taken.                    *)
LorawanMessage ==
    /\ TakeEvent("uplink")
    /\ lr' = [lr EXCEPT !.txWait = (lr.state = "ENGINE" /\ lr.enabled)]
    /\ UNCHANGED <<mode, lp0vars, radio, sem, flashvars, gps, upset, left>>

LorawanTxDone ==
    /\ lr.txWait /\ lr.at = "idle"
    /\ lr' = [lr EXCEPT !.txWait = FALSE]
    /\ UNCHANGED <<mode, lp0vars, radio, sem, lrQue, flashvars, gps, upset, left>>

LorawanThread ==
    \/ LorawanSuspend \/ LorawanResume \/ LorawanRetake \/ LorawanJob \/ LorawanJobEnds
    \/ LorawanMessage \/ LorawanTxDone

-----------------------------------------------------------------------------
(* The radio as lp0_communication.c keeps it: a task is refused while      *)
(* another one is recorded, and recorded even when the chip then fails to  *)
(* start it.                                                               *)

Oks == {TRUE} \cup (IF "fault" \in Inputs /\ left > 0 THEN {FALSE} ELSE {})
Spends(ok) == left' = IF ok THEN left ELSE left - 1

(* lp0_send_message(), lp0_start_message_receive(); "reset" when           *)
(* lp0_lr11xx_system_init() comes first.                                   *)
StartTask(t, reset, ok) ==
    /\ task' = IF task = "IDLE" THEN t ELSE task
    /\ air'  = IF task = "IDLE" THEN ok ELSE air /\ ~reset

EndTask == task' = "IDLE" /\ air' = FALSE

-----------------------------------------------------------------------------
(* The LP0 thread, lp0_main_loop()                                         *)

At(p) == Yield /\ lp0.at = p

(* A turn of the loop begins anew.                                         *)
Loop == [lp0 EXCEPT !.at = "loop", !.job = "none", !.boot = FALSE]

(* LP0_MODE_DISABLED and LP0_MODE_DEFAULT wait for an event, the first for *)
(* a second; a mode set meanwhile is not looked at before the wait ends.   *)
WaitForEvent ==
    /\ At("loop")
    /\ mode = "DISABLED" \/ (mode = "DEFAULT" /\ lp0.offload = role)
    /\ lp0' = [lp0 EXCEPT !.at = "events", !.boot = (mode = "DISABLED")]
    /\ UNCHANGED <<mode, lp0Que, ping, role, radio, sem, lrvars, flashvars, gps, upset, left>>

(* LP0_MODE_DISABLED goes on to LP0_MODE_SETUP whatever the mode became.   *)
ModeAfterHandler == IF lp0.boot THEN "SETUP" ELSE mode

Boot ==
    /\ At("events") /\ lp0.boot /\ lp0Que = <<>>
    /\ mode' = "SETUP" /\ lp0' = Loop
    /\ UNCHANGED <<lp0Que, ping, role, radio, sem, lrvars, flashvars, gps, upset, left>>

Setup ==
    /\ At("loop") /\ mode = "SETUP"
    /\ mode' = IF role = 2 THEN "STATION" ELSE "DEFAULT"
    /\ ping' = (ping \/ role = 1)
    /\ lp0' = [lp0 EXCEPT !.offload = role]
    /\ UNCHANGED <<lp0Que, role, radio, sem, lrvars, flashvars, gps, upset, left>>

RoleChanged ==
    /\ At("loop") /\ mode = "DEFAULT" /\ lp0.offload # role
    /\ mode' = "SETUP"
    /\ UNCHANGED <<lp0vars, radio, sem, lrvars, flashvars, gps, upset, left>>

(* lp0_suspend_lorawan_and_wait_for_suspension() up to its wait.           *)
AskForRadio(job) ==
    /\ lp0' = [lp0 EXCEPT !.at = "suspending", !.job = job]
    /\ sem' = Take("chip")
    /\ PutLorawan("suspend") /\ Upset(Loses)
    /\ UNCHANGED <<lr, left>>

Handles(e) == At("events") /\ lp0Que # <<>> /\ Head(lp0Que) = e /\ lp0Que' = Tail(lp0Que)

HandleMessage ==
    /\ Handles("message")
    /\ AskForRadio("message")
    /\ UNCHANGED <<mode, ping, role, radio, flashvars, gps>>

(* LP0_CMD_SET_MODE.  The ping timer sets the mode of its event, and       *)
(* lp0_send_command() leaves it as the stack had it.                       *)
HandleSetMode ==
    /\ \/ /\ Handles("discover") /\ UNCHANGED upset
          /\ mode' = IF lp0.boot THEN "SETUP" ELSE "DISCOVERY"
       \/ /\ Handles("set") /\ Upset({"mode"})
          /\ \E m \in Modes : mode' = IF lp0.boot THEN "SETUP" ELSE m
    /\ lp0' = Loop
    /\ UNCHANGED <<ping, role, radio, sem, lrvars, flashvars, gps, left>>

(* LP0_CMD_TEST_FLASH_FILL_100_MESSAGES, up to the first wait.             *)
HandleFill ==
    /\ Handles("fill")
    /\ lp0' = [lp0 EXCEPT !.at = "fill", !.fill = FillCount]
    /\ PutFlash("store") /\ Upset(Purges)
    /\ UNCHANGED <<mode, ping, role, radio, sem, lrvars, flash, paused, gps, left>>

FillStored ==
    /\ At("fill") /\ sem.save = 1
    /\ sem' = Take("save")
    /\ IF lp0.fill > 1
       THEN /\ lp0' = [lp0 EXCEPT !.fill = @ - 1]
            /\ PutFlash("store") /\ Upset(Purges)
            /\ UNCHANGED mode
       ELSE /\ lp0' = [Loop EXCEPT !.fill = 0]
            /\ mode' = ModeAfterHandler
            /\ UNCHANGED <<flashQue, upset>>
    /\ UNCHANGED <<lp0Que, ping, role, radio, lrvars, flash, paused, gps, left>>

(* lp0_offload_device_discovery_mode(), lp0_offload_station_discovery()    *)
Discover ==
    /\ At("loop") /\ mode = "DISCOVERY"
    /\ AskForRadio("ping")
    /\ UNCHANGED <<mode, lp0Que, ping, role, radio, flashvars, gps>>

StationDiscovery ==
    /\ At("loop") /\ mode = "STATION"
    /\ AskForRadio("station")
    /\ UNCHANGED <<mode, lp0Que, ping, role, radio, flashvars, gps>>

(* The wait for the suspension ends, with or without the semaphore: the    *)
(* result is not looked at.  450 s pass only while nothing else happens.   *)
Settled == Runs /\ lrQue = <<>>
WaitEnds == sem.chip = 1 \/ Settled

BeginTransmit ==
    /\ At("suspending") /\ lp0.job # "station"
    /\ WaitEnds
    /\ \E ok \in Oks :
          /\ sem' = [sem EXCEPT !.chip = 0, !.done = 0]
          /\ StartTask("TX", TRUE, ok)
          /\ Spends(ok) /\ Upset(When(~ok, "fault"))
    /\ lp0' = [lp0 EXCEPT !.at = "transmit"]
    /\ UNCHANGED <<mode, lp0Que, ping, role, irq, lrvars, flashvars, gps>>

BeginStation ==
    /\ At("suspending") /\ lp0.job = "station"
    /\ WaitEnds
    /\ \E ok \in Oks :
          /\ sem' = Take("chip")
          /\ StartTask("LISTEN", TRUE, ok)
          /\ Spends(ok) /\ Upset(When(~ok, "fault") \cup When(sem.done = 1, "stale"))
    /\ lp0' = [lp0 EXCEPT !.at = "station"]
    /\ UNCHANGED <<mode, lp0Que, ping, role, irq, lrvars, flashvars, gps>>

(* The first window, LP0 and RX1 of LoRaWAN.  The chip reports the end of  *)
(* a transmission within 5 s unless its interrupt waits, the wait ends     *)
(* after 15.                                                               *)
OpenWindow1 ==
    /\ At("transmit")
    /\ sem.done = 1 \/ irq > 0 \/ ~(task = "TX" /\ air)
    /\ sem' = Take("done")
    /\ \E ok \in Oks :
          StartTask("LISTEN", FALSE, ok) /\ Spends(ok) /\ Upset(When(~ok, "fault"))
    /\ lp0' = [lp0 EXCEPT !.at = "window1"]
    /\ UNCHANGED <<mode, lp0Que, ping, role, irq, lrvars, flashvars, gps>>

(* The first window is closed and the second, RX2, opened.                 *)
OpenWindow2 ==
    /\ At("window1")
    /\ sem' = Take("done")
    /\ \E ok \in Oks :
          /\ task' = "RX" /\ air' = ok
          /\ Spends(ok) /\ Upset(When(~ok, "fault"))
    /\ lp0' = [lp0 EXCEPT !.at = "window2"]
    /\ UNCHANGED <<mode, lp0Que, ping, role, irq, lrvars, flashvars, gps>>

(* Faulty variant: the default mode whatever was received.                 *)
EndUseAlwaysDefault ==
    /\ At("window2")
    /\ sem.done = 1 \/ ~air \/ irq > 0 \/ "slow" \in Inputs
    /\ sem' = [sem EXCEPT !.done = 0, !.chip = 1]
    /\ PutLorawan("resume")
    /\ Upset(When(task # "IDLE" \/ irq > 0, "open") \cup Loses)
    /\ LET unanswered == lp0.job = "ping"
       IN  /\ mode' = IF unanswered THEN "DEFAULT" ELSE ModeAfterHandler
           /\ ping' = (ping \/ unanswered)
    /\ lp0' = Loop
    /\ UNCHANGED <<lp0Que, role, radio, lr, flashvars, gps, left>>

(* Faulty variant: the modem is not resumed.                               *)
EndUseKeepsRadio ==
    /\ At("window2")
    /\ sem.done = 1 \/ ~air \/ irq > 0 \/ "slow" \in Inputs
    /\ sem' = [sem EXCEPT !.done = 0, !.chip = 1]
    /\ Upset(When(task # "IDLE" \/ irq > 0, "open"))
    /\ LET unanswered == lp0.job = "ping" /\ mode = "DISCOVERY"
       IN  /\ mode' = IF unanswered THEN "DEFAULT" ELSE ModeAfterHandler
           /\ ping' = (ping \/ unanswered)
    /\ lp0' = Loop
    /\ UNCHANGED <<lp0Que, role, radio, lrvars, flashvars, gps, left>>

(* The end of the second window, or of 15 s, which slow modulations (cause *)
(* "slow") exceed, and an interrupt thread that is storing messages; the   *)
(* radio goes back, and a discovery without an answer is followed by       *)
(* another.                                                                *)
EndUse ==
    /\ At("window2")
    /\ sem.done = 1 \/ ~air \/ irq > 0 \/ "slow" \in Inputs
    /\ sem' = [sem EXCEPT !.done = 0, !.chip = 1]
    /\ PutLorawan("resume")
    /\ Upset(When(task # "IDLE" \/ irq > 0, "open") \cup Loses)
    /\ LET unanswered == lp0.job = "ping" /\ mode = "DISCOVERY"
       IN  /\ mode' = IF unanswered THEN "DEFAULT" ELSE ModeAfterHandler
           /\ ping' = (ping \/ unanswered)
    /\ lp0' = Loop
    /\ UNCHANGED <<lp0Que, role, radio, lr, flashvars, gps, left>>

(* LP0_MODE_DEVICE_DATA_TRANSFER: this wait has no timeout, and the        *)
(* semaphore is not reset before it.                                       *)
BeginTransfer ==
    /\ At("loop") /\ mode = "TRANSFER"
    /\ IF lp0.suspended
       THEN /\ lp0' = [lp0 EXCEPT !.at = "offload"]
            /\ sem' = Give("start")
            /\ UNCHANGED <<lrQue, upset>>
       ELSE /\ lp0' = [lp0 EXCEPT !.at = "transfer", !.suspended = TRUE]
            /\ PutLorawan("suspend") /\ Upset(Loses)
            /\ UNCHANGED sem
    /\ UNCHANGED <<mode, lp0Que, ping, role, radio, lr, flashvars, gps, left>>

(* Faulty variant: the suspension is not waited for.                       *)
TransferUnconfirmed ==
    /\ At("transfer")
    /\ sem' = [sem EXCEPT !.chip = 0, !.start = 1]
    /\ air' = FALSE
    /\ lp0' = [lp0 EXCEPT !.at = "offload"]
    /\ UNCHANGED <<mode, lp0Que, ping, role, task, irq, lrvars, flashvars, gps, upset, left>>

TransferSuspended ==
    /\ At("transfer") /\ sem.chip = 1
    /\ sem' = [sem EXCEPT !.chip = 0, !.start = 1]
    /\ air' = FALSE
    /\ lp0' = [lp0 EXCEPT !.at = "offload"]
    /\ UNCHANGED <<mode, lp0Que, ping, role, task, irq, lrvars, flashvars, gps, upset, left>>

EndTransfer ==
    /\ At("offload") /\ sem.over = 1
    /\ sem' = [sem EXCEPT !.over = 0, !.chip = 1]
    /\ PutLorawan("resume") /\ Upset(Loses)
    /\ lp0' = [Loop EXCEPT !.suspended = FALSE]
    /\ ping' = TRUE
    /\ mode' = "DEFAULT"
    /\ UNCHANGED <<lp0Que, role, radio, lr, flashvars, gps, left>>

(* A station goes round when the answer to a ping has been sent.           *)
EndStation ==
    /\ At("station") /\ sem.done = 1
    /\ sem' = [sem EXCEPT !.done = 0, !.chip = 1]
    /\ PutLorawan("resume") /\ Upset(Loses)
    /\ lp0' = [Loop EXCEPT !.suspended = FALSE]
    /\ UNCHANGED <<mode, lp0Que, ping, role, radio, lr, flashvars, gps, left>>

Lp0Thread ==
    \/ WaitForEvent \/ Boot \/ Setup \/ RoleChanged
    \/ HandleMessage \/ HandleSetMode \/ HandleFill \/ FillStored
    \/ Discover \/ StationDiscovery \/ BeginTransmit \/ BeginStation
    \/ OpenWindow1 \/ OpenWindow2 \/ EndUse
    \/ BeginTransfer \/ TransferSuspended \/ EndTransfer \/ EndStation

-----------------------------------------------------------------------------
(* The interrupt thread of the radio.  It runs before every other thread,  *)
(* until it waits for the flash thread itself.                             *)

Interrupt == irq = 0 /\ air

(* Faulty variant: the flash thread is not told.                           *)
TxDoneSilent ==
    /\ Interrupt /\ task = "TX"
    /\ EndTask
    /\ sem' = Give("done")
    /\ UNCHANGED <<mode, lp0vars, irq, lrvars, flashvars, gps, upset, left>>

(* prv_lp0_on_tx_done(), sent or timed out.                                *)
TxDone ==
    /\ Interrupt /\ task = "TX"
    /\ EndTask
    /\ sem' = [sem EXCEPT !.done = 1, !.send = IF mode = "TRANSFER" THEN 1 ELSE @]
    /\ UNCHANGED <<mode, lp0vars, irq, lrvars, flashvars, gps, upset, left>>

(* A station listens or sends again, or fails to.                         *)
Again(t) ==
    /\ task' = t
    /\ \E ok \in Oks : air' = ok /\ Spends(ok) /\ Upset(When(~ok, "fault"))

(* prv_lp0_device_on_rx_done() with an error, here a timeout: a station    *)
(* listens again.                                                          *)
RxTimeout ==
    /\ Interrupt /\ task = "RX"
    /\ IF mode = "STATION"
       THEN Again("LISTEN") /\ UNCHANGED sem
       ELSE EndTask /\ sem' = Give("done") /\ UNCHANGED <<upset, left>>
    /\ UNCHANGED <<mode, lp0vars, irq, lrvars, flashvars, gps>>

(* A packet for the device or for the station.                             *)
Receives(p) == Interrupt /\ task \in {"RX", "LISTEN"} /\ p \in Packets /\ Uses("packet")
DeviceReceives(p)  == mode # "STATION" /\ Receives(p) /\ EndTask
StationReceives(p) == mode = "STATION" /\ Receives(p)

(* One that cannot be read.                                                *)
RxError ==
    /\ \/ DeviceReceives("error") /\ sem' = Give("done")
       \/ StationReceives("error") /\ task' = "LISTEN" /\ air' = TRUE /\ UNCHANGED sem
    /\ UNCHANGED <<mode, lp0vars, irq, lrvars, flashvars, gps, upset>>

(* A station answers a ping; nothing is given until the answer is sent.    *)
StationAnswers ==
    /\ \/ StationReceives("ping") /\ air' = TRUE /\ UNCHANGED upset
       \/ StationReceives("ping") /\ air' = FALSE /\ "fault" \in Inputs /\ Upset({"fault"})
    /\ task' = "TX"
    /\ UNCHANGED <<mode, lp0vars, irq, sem, lrvars, flashvars, gps>>

(* lp0_offload_station_data_receive(): when the SD card refuses the data   *)
(* the station does not listen again.                                      *)
StationStores ==
    /\ \/ StationReceives("data") /\ task' = "LISTEN" /\ air' = TRUE /\ UNCHANGED upset
       \/ StationReceives("data") /\ EndTask /\ "fault" \in Inputs /\ UNCHANGED upset
    /\ UNCHANGED <<mode, lp0vars, irq, sem, lrvars, flashvars, gps>>

(* LP0_PING_ACK: the flash thread is asked for everything it has.          *)
Acknowledged ==
    /\ DeviceReceives("ack")
    /\ mode' = "TRANSFER"
    /\ PutFlash("getall")
    /\ Upset(Purges \cup When(lp0.boot, "boot")
                   \cup When(flash.at # "idle" \/ "getall" \in {flashQue[i] : i \in DOMAIN flashQue}, "twice"))
    /\ lp0' = [lp0 EXCEPT !.suspended = FALSE]
    /\ sem' = Give("done")
    /\ UNCHANGED <<lp0Que, ping, role, irq, lrvars, flash, paused, gps>>

(* Any other message for the device, LP0_PING among them.                  *)
ReceivedOther ==
    /\ DeviceReceives("ping") \/ DeviceReceives("data")
    /\ sem' = Give("done")
    /\ UNCHANGED <<mode, lp0vars, irq, lrvars, flashvars, gps, upset>>

(* LP0_FLASH_TEST_FILL_100_MESSAGES: the interrupt thread itself waits for *)
(* the flash thread, once for every message.                               *)
FillReceived ==
    /\ DeviceReceives("fill")
    /\ irq' = FillCount
    /\ PutFlash("store") /\ Upset(Purges)
    /\ UNCHANGED <<mode, lp0vars, sem, lrvars, flash, paused, gps>>

IrqStored ==
    /\ irq > 0 /\ sem.save = 1
    /\ irq' = irq - 1
    /\ IF irq > 1
       THEN /\ sem' = Take("save")
            /\ PutFlash("store") /\ Upset(Purges)
            /\ UNCHANGED lp0
       ELSE /\ sem' = [sem EXCEPT !.save = 0, !.done = IF mode = "STATION" THEN @ ELSE 1]
            /\ lp0' = [lp0 EXCEPT !.suspended = FALSE]
            /\ UNCHANGED <<flashQue, upset>>
    /\ UNCHANGED <<mode, lp0Que, ping, role, task, air, lrvars, flash, paused, gps, left>>

IrqThread ==
    \/ TxDone \/ RxTimeout \/ RxError \/ StationAnswers \/ StationStores
    \/ Acknowledged \/ ReceivedOther \/ FillReceived \/ IrqStored

-----------------------------------------------------------------------------
(* The flash thread.  flash.at is "idle", "start" (waits for LP0), "send"  *)
(* (payloads are left to send) or "sent" (waits for the end of one).       *)

FlashAt(p) == Others /\ flash.at = p
NextFor(m) == FlashAt("idle") /\ flashQue # <<>> /\ Head(flashQue) = m /\ flashQue' = Tail(flashQue)

FlashStore ==
    /\ NextFor("store")
    /\ sem' = Give("save")
    /\ UNCHANGED <<mode, lp0vars, radio, lrvars, flash, paused, gps, upset, left>>

FlashGetAll ==
    /\ NextFor("getall")
    /\ flash' = [at |-> "start", left |-> 0]
    /\ UNCHANGED <<mode, lp0vars, radio, sem, lrvars, paused, gps, upset, left>>

(* Faulty variant: the go-ahead stays for the next offload.                *)
OffloadStartsAgain ==
    /\ FlashAt("start") /\ sem.start = 1
    /\ paused' = TRUE
    /\ \E n \in 0 .. Payloads : flash' = [at |-> "send", left |-> n]
    /\ UNCHANGED <<mode, lp0vars, radio, sem, lrvars, flashQue, gps, upset, left>>

OffloadStarts ==
    /\ FlashAt("start") /\ sem.start = 1
    /\ sem' = Take("start")
    /\ paused' = TRUE
    /\ \E n \in 0 .. Payloads : flash' = [at |-> "send", left |-> n]
    /\ UNCHANGED <<mode, lp0vars, radio, lrvars, flashQue, gps, upset, left>>

(* lp0_prepare_and_send_message(), whose error is ignored.                 *)
FlashSends ==
    /\ FlashAt("send") /\ flash.left > 0
    /\ sem' = Take("send")
    /\ \E ok \in Oks : StartTask("TX", FALSE, ok) /\ Spends(ok) /\ Upset(When(~ok, "fault"))
    /\ flash' = [flash EXCEPT !.at = "sent"]
    /\ UNCHANGED <<mode, lp0vars, irq, lrvars, flashQue, paused, gps>>

FlashSent ==
    /\ FlashAt("sent") /\ sem.send = 1
    /\ sem' = Take("send")
    /\ flash' = [at |-> "send", left |-> flash.left - 1]
    /\ UNCHANGED <<mode, lp0vars, radio, lrvars, flashQue, paused, gps, upset, left>>

OffloadOver ==
    /\ FlashAt("send") /\ flash.left = 0
    /\ sem' = Give("over")
    /\ paused' = FALSE
    /\ flash' = [flash EXCEPT !.at = "idle"]
    /\ UNCHANGED <<mode, lp0vars, radio, lrvars, flashQue, gps, upset, left>>

FlashThread ==
    \/ FlashStore \/ FlashGetAll \/ OffloadStarts \/ FlashSends \/ FlashSent \/ OffloadOver

(* get_thread_operation(): the pause of the communication thread expires.  *)
GateExpires ==
    /\ Others /\ paused
    /\ paused' = FALSE
    /\ UNCHANGED <<mode, lp0vars, radio, sem, lrvars, flash, flashQue, gps, upset, left>>

-----------------------------------------------------------------------------
(* prv_obtain_ublox_fix() of the communication thread                      *)

GpsStart ==
    /\ Others /\ gps = "idle" /\ ~paused /\ Uses("fix")
    /\ PutLorawan("suspend") /\ Upset({"fix"} \cup Loses)
    /\ gps' = "wait"
    /\ UNCHANGED <<mode, lp0vars, radio, sem, lr, flashvars>>

GpsFix ==
    /\ Others /\ gps = "wait" /\ ~lr.enabled
    /\ gps' = "fix"
    /\ UNCHANGED <<mode, lp0vars, radio, sem, lrvars, flashvars, upset, left>>

GpsResume ==
    /\ Others /\ gps = "fix"
    /\ PutLorawan("resume") /\ Upset(Loses)
    /\ gps' = "idle"
    /\ UNCHANGED <<mode, lp0vars, radio, sem, lr, flashvars, left>>

GpsThread == GpsStart \/ GpsFix \/ GpsResume

-----------------------------------------------------------------------------
(* What comes from other threads, a timer and commands                     *)

Lp0Event ==
    /\ Others
    /\ \/ Uses("message") /\ PutLp0("message")
       \/ Uses("set")     /\ PutLp0("set")
       \/ Uses("fill")    /\ PutLp0("fill")
    /\ Upset(When(Len(lp0Que) = Lp0QueMax, "dropped"))
    /\ UNCHANGED <<mode, lp0, ping, role, radio, sem, lrvars, flashvars, gps>>

(* The ping timer does not wait for room.                                  *)
PingTimer ==
    /\ Others /\ ping
    /\ ping' = FALSE
    /\ IF Len(lp0Que) < Lp0QueMax
       THEN lp0Que' = Append(lp0Que, "discover") /\ UNCHANGED upset
       ELSE Upset({"dropped"}) /\ UNCHANGED lp0Que
    /\ UNCHANGED <<mode, lp0, role, radio, sem, lrvars, flashvars, gps, left>>

LorawanEvent ==
    /\ Others
    /\ \/ Uses("uplink") /\ PutLorawan("uplink")
       \/ Uses("job")    /\ PutLorawan("job")
    /\ Upset(Loses)
    /\ UNCHANGED <<mode, lp0vars, radio, sem, lr, flashvars, gps>>

(* lp0_command_parser() writes the mode where every thread reads it.       *)
SetMode ==
    /\ Others /\ Uses("mode")
    /\ \E m \in Modes : mode' = m
    /\ Upset({"mode"})
    /\ UNCHANGED <<lp0vars, radio, sem, lrvars, flashvars, gps>>

SetRole ==
    /\ Others /\ Uses("role")
    /\ \E r \in Roles : role' = r
    /\ UNCHANGED <<mode, lp0, lp0Que, ping, radio, sem, lrvars, flashvars, gps, upset>>

Store ==
    /\ Others /\ Uses("store")
    /\ PutFlash("store") /\ Upset(Purges)
    /\ UNCHANGED <<mode, lp0vars, radio, sem, lrvars, flash, paused, gps>>

Outside == Lp0Event \/ PingTimer \/ LorawanEvent \/ SetMode \/ SetRole \/ Store

-----------------------------------------------------------------------------
(* Specification.  LoRaWAN has joined; LP0 starts later than all others.   *)

Init ==
    /\ mode = "DISABLED"
    /\ role \in Roles
    /\ lp0 = [at |-> "loop", job |-> "none", boot |-> FALSE, suspended |-> FALSE, offload |-> 0, fill |-> 0]
    /\ lp0Que = <<>> /\ ping = FALSE
    /\ task = "IDLE" /\ air = FALSE /\ irq = 0
    /\ sem = [s \in Semaphores |-> IF s = "save" THEN 1 ELSE 0]
    /\ lr = [state |-> "ENGINE", enabled |-> TRUE, on |-> TRUE, at |-> "idle", txWait |-> FALSE]
    /\ lrQue = <<>>
    /\ flash = [at |-> "idle", left |-> 0] /\ flashQue = <<>>
    /\ gps = "idle" /\ paused = FALSE
    /\ upset = {} /\ left = Bound

Next ==
    \/ LorawanThread \/ IrqThread \/ Lp0Thread \/ FlashThread
    \/ GpsThread \/ GateExpires \/ Outside

Spec == Init /\ [][Next]_vars

(* Threads are scheduled, a timer that runs expires, a chip that sends or  *)
(* listens with a timeout reports, and waits with a timeout end.           *)
FairSpec ==
    /\ Spec
    /\ WF_vars(LorawanThread) /\ WF_vars(TxDone) /\ WF_vars(RxTimeout) /\ WF_vars(IrqStored)
    /\ WF_vars(Lp0Thread) /\ WF_vars(FlashThread)
    /\ WF_vars(GpsFix \/ GpsResume) /\ WF_vars(PingTimer)

-----------------------------------------------------------------------------
TypeOK ==
    /\ mode \in AllModes
    /\ lp0 \in [at : {"loop", "events", "suspending", "transmit", "window1", "window2",
                     "fill", "transfer", "offload", "station"},
               job : {"none", "message", "ping", "station"}, boot : BOOLEAN,
               suspended : BOOLEAN, offload : 0 .. 2, fill : 0 .. FillCount]
    /\ lp0Que \in Seq({"message", "discover", "set", "fill"}) /\ Len(lp0Que) <= Lp0QueMax
    /\ ping \in BOOLEAN /\ role \in Roles
    /\ task \in {"IDLE", "TX", "LISTEN", "RX"} /\ air \in BOOLEAN /\ irq \in 0 .. FillCount
    /\ sem \in [Semaphores -> {0, 1}]
    /\ lr \in [state : {"ENGINE", "SUSPENDED"}, enabled : BOOLEAN, on : BOOLEAN,
              at : {"idle", "retake", "job"}, txWait : BOOLEAN]
    /\ lrQue \in Seq({"suspend", "resume", "job", "uplink"}) /\ Len(lrQue) <= LrQueMax
    /\ flash \in [at : {"idle", "start", "send", "sent"}, left : 0 .. Payloads]
    /\ flashQue \in Seq({"store", "getall"}) /\ Len(flashQue) <= FlashQueMax
    /\ gps \in {"idle", "wait", "fix"} /\ paused \in BOOLEAN
    /\ upset \subseteq {"dropped", "purged", "lost", "open", "fault", "job", "fix",
                        "stale", "mode", "boot", "twice"}
    /\ left \in 0 .. Bound

-----------------------------------------------------------------------------
(* Properties.  "upset" names the cases the code has no answer to; a       *)
(* property names those that break it, and no other one does.              *)

Excused(cases) == upset \cap cases # {}

(* LP0 (or the flash thread through it) and the LoRaWAN engine never use   *)
(* the radio at once, except: a GPS fix or a radio job resumed the modem   *)
(* under LP0, the modem or the chip refused, LP0 gave the radio back with  *)
(* a reception still open, a station took an old "done" for its own, or    *)
(* the request to suspend was pushed out of the full queue of LoRaWAN,     *)
(* which LP0 waits 450 s for and then takes for granted.                   *)
RadioExclusive ==
    task # "IDLE" /\ LorawanUsesRadio => Excused({"fix", "job", "fault", "open", "stale", "lost"})

(* LP0 waits for the end of an offload exactly while one of its tokens is  *)
(* out: the go-ahead, the flash thread at work, or the report of its end.  *)
Offloading == flash.at \in {"send", "sent"}
OffloadPaired ==
    /\ lp0.at = "offload" <=> sem.start = 1 \/ Offloading \/ sem.over = 1
    /\ sem.start + sem.over <= 1 /\ (Offloading => sem.start + sem.over = 0)

Queued(e, que) == \E i \in DOMAIN que : que[i] = e

(* The two threads of an offload wait for each other.  A flash thread told *)
(* to send everything finds LP0 in the mode in which it lets it go on,     *)
(* unless a second acknowledgement came, the mode was set meanwhile, LP0   *)
(* was still starting or the radio was left open; and LP0, waiting for the *)
(* flash thread, is waited for, unless the request was purged from the     *)
(* queue or the mode set.                                                  *)
OffloadServed ==
    /\ flash.at = "start" \/ Queued("getall", flashQue)
           => mode = "TRANSFER" \/ Excused({"boot", "twice", "mode", "open"})
    /\ lp0.at = "offload" =>
           \/ flash.at # "idle" \/ Queued("getall", flashQue) \/ sem.over = 1
           \/ Excused({"purged", "mode"})

(* A tracker goes on pinging: in the default mode the next discovery is    *)
(* timed or queued, unless a full queue lost it or the mode was set.       *)
PingsGoOn ==
    lp0.offload = 1 /\ mode = "DEFAULT"
        => ping \/ Queued("discover", lp0Que) \/ Excused({"dropped", "mode"})

(* An offload that was asked for ends.                                     *)
OffloadEnds ==
    flash.at = "start" ~> flash.at = "idle" \/ Excused({"boot", "twice", "mode", "open", "fault", "lost"})

(* A device that is no station gives the radio back to the modem.          *)
RadioReturns ==
    ~lr.on ~> lr.on \/ mode = "STATION"
                  \/ Excused({"purged", "mode", "open", "fault"})
=============================================================================
