------------------------------- MODULE BtCmdq -------------------------------
(***************************************************************************)
(* The search for a heart monitor over Bluetooth (bt_module/bt_cmdq).  One *)
(* timer starts a scan, another one ends it; both hand the work to the     *)
(* system work queue, which sleeps in every call of the Bluetooth stack.   *)
(* The receiving thread of the stack reports what is heard, the            *)
(* communication thread follows the setting, and the thread of the         *)
(* Bluetooth module sends the results, scans for other devices and         *)
(* switches the advertisement.                                             *)
(*                                                                         *)
(* The types of scan differ in durations only; as time is left out here,   *)
(* so are they, and prv_successful_scan, which selects among them (the     *)
(* callback returns at once when it is told of an unsuccessful scan).      *)
(***************************************************************************)
EXTENDS Naturals, Sequences, FiniteSets

CONSTANTS
    BufLen,   \* BT_CMDQ_SCAN_BUFF_LEN
    Room,     \* results that fit into a message
    Inputs,   \* what may happen, see Causes
    Bound     \* bound: how often something of it happens

Causes == {"cmdq", "adv", "single", "report", "found", "link", "fault"}

ASSUME CmdqAssumption ==
    /\ BufLen \in Nat \ {0} /\ Room \in Nat
    /\ Inputs \subseteq Causes /\ Bound \in Nat

VARIABLES
    set,        \* the setting cmdq_enabled
    on,         \* prv_cmdq_scan_enabled
    comm,       \* where the communication thread is in bt_cmdq_start_operation()
    scanTimer,  \* scan_timer is running
    stopTimer,  \* scan_stop_timer is running
    work,       \* the work queue: "start" and "stop", each at most once
    at,         \* where the work queue is in the handler it runs
    scanning,   \* who scans
    rx,         \* where the receiving thread is in prv_scan_cb()
    linked,     \* a phone is connected
    bleAdv,     \* the setting ble_adv
    adv,        \* the device advertises, or will once the phone has gone
    ble,        \* where the thread of the Bluetooth module is
    buf,        \* bt_cmdq_result_buf
    count,      \* bt_cmdq_result_counter
    hist,       \* history, see Init
    left        \* bound

search  == <<on, comm>>
timers  == <<scanTimer, stopTimer>>
queue   == <<work, at>>
results == <<buf, count>>
radio   == <<scanning, linked, adv>>
vars    == <<set, search, timers, queue, rx, radio, bleAdv, ble, results, hist, left>>

Uses(input) == input \in Inputs /\ left > 0 /\ left' = left - 1

Submit(item) ==
    work' = IF \E i \in DOMAIN work : work[i] = item THEN work ELSE Append(work, item)

Note(what)   == hist' = [hist EXCEPT !.notes = @ \cup {what}]
Forget(what) == hist' = [hist EXCEPT !.notes = @ \ {what}]
Noted(what)  == what \in hist.notes

-----------------------------------------------------------------------------
(* The communication thread                                                *)

SetCmdq ==
    /\ Uses("cmdq")
    /\ set' = ~set
    /\ UNCHANGED <<search, timers, queue, rx, radio, bleAdv, ble, results, hist>>

(* handle_bt_cmdq() and bt_cmdq_start_operation(): the search counts as    *)
(* started before Bluetooth is known to work.                              *)
StartOperation ==
    /\ comm = "idle" /\ set /\ ~on
    /\ on' = TRUE
    /\ comm' = "check"
    /\ UNCHANGED <<set, timers, queue, rx, radio, bleAdv, ble, results, hist, left>>

(* prv_check_bt() succeeds: prv_scan_handler(SCAN_IMMEDIATE).              *)
FirstScan ==
    /\ comm = "check"
    /\ comm' = "idle"
    /\ scanTimer' = TRUE
    /\ Forget("givenUp")
    /\ UNCHANGED <<set, on, stopTimer, queue, rx, radio, bleAdv, ble, results, left>>

NoBluetooth ==
    /\ comm = "check"
    /\ Uses("fault")
    /\ comm' = "idle"
    /\ Note("givenUp")
    /\ UNCHANGED <<set, on, timers, queue, rx, radio, bleAdv, ble, results>>

(* bt_cmdq_stop_operation(): a scan under way is ended, the timer for the  *)
(* next one goes on.                                                       *)
StopOperation ==
    /\ comm = "idle" /\ ~set /\ on
    /\ on' = FALSE
    /\ stopTimer' = FALSE
    /\ IF stopTimer THEN Submit("stop") ELSE work' = work
    /\ UNCHANGED <<set, comm, scanTimer, at, rx, radio, bleAdv, ble, results, hist, left>>

-----------------------------------------------------------------------------
(* The timers                                                              *)

HandlerNever == UNCHANGED <<scanTimer, hist>>  \* faulty variant of Handler

(* prv_scan_handler(): nothing once the search is off.                     *)
Handler ==
    /\ scanTimer' = (scanTimer \/ on)
    /\ IF on THEN Forget("givenUp") ELSE hist' = hist

ScanTimerFires ==
    /\ scanTimer
    /\ scanTimer' = FALSE
    /\ Submit("start")
    /\ UNCHANGED <<set, search, stopTimer, at, rx, radio, bleAdv, ble, results, hist, left>>

(* prv_scan_stop_timer_cb(), which also runs when the timer is stopped.    *)
StopTimerFires ==
    /\ stopTimer
    /\ stopTimer' = FALSE
    /\ Submit("stop")
    /\ Handler
    /\ UNCHANGED <<set, search, at, rx, radio, bleAdv, ble, results, left>>

-----------------------------------------------------------------------------
(* The work queue                                                          *)

Takes(item) == at = "idle" /\ work # <<>> /\ Head(work) = item /\ work' = Tail(work)

(* stop_bt_advertisement() and start_bt_advertisement()                    *)
AdvStopped == adv' = FALSE
AdvStarted ==
    /\ adv' = TRUE
    /\ IF bleAdv THEN hist' = hist ELSE Note("forced")

(* prv_work_scan_start_handler(): the advertisement pauses for the scan.   *)
WorkStart ==
    /\ Takes("start")
    /\ AdvStopped
    /\ at' = "link"
    /\ UNCHANGED <<set, search, timers, rx, scanning, linked, bleAdv, ble, results, hist, left>>

AdvStaysOn ==
    /\ Takes("start")
    /\ Uses("fault")
    /\ Note("givenUp")
    /\ UNCHANGED <<set, search, timers, at, rx, radio, bleAdv, ble, results>>

(* A phone that is connected is asked to go; the scan does not wait for it. *)
AskToLeave ==
    /\ at = "link"
    /\ at' = "scan"
    /\ UNCHANGED <<set, search, timers, work, rx, radio, bleAdv, ble, results, hist, left>>

LinkStays ==
    /\ at = "link" /\ linked
    /\ Uses("fault")
    /\ at' = "gaveUp"
    /\ Note("givenUp")
    /\ UNCHANGED <<set, search, timers, work, rx, radio, bleAdv, ble, results>>

(* bt_le_scan_start() is refused while any scan is under way.              *)
ScanStarts ==
    /\ at = "scan" /\ scanning = "none"
    /\ scanning' = "cmdq"
    /\ at' = "timer"
    /\ Forget("unstopped")
    /\ UNCHANGED <<set, search, timers, work, rx, linked, adv, bleAdv, ble, results, left>>

(* Faulty variant: the stop timer is started after a refused scan only.   *)
StopTimerForgotten ==
    /\ at = "timer"
    /\ at' = "idle"
    /\ UNCHANGED <<set, search, timers, work, rx, radio, bleAdv, ble, results, hist, left>>

(* The stop timer, started without a delay, may expire before it is        *)
(* started again with the duration of the scan.                            *)
ScanRefused ==
    /\ at = "scan"
    /\ IF scanning # "none" THEN left' = left ELSE Uses("fault")
    /\ stopTimer' = TRUE
    /\ at' = "timer"
    /\ UNCHANGED <<set, search, scanTimer, work, rx, radio, bleAdv, ble, results, hist>>

StopTimerStarts ==
    /\ at = "timer"
    /\ stopTimer' = TRUE
    /\ at' = "idle"
    /\ UNCHANGED <<set, search, scanTimer, work, rx, radio, bleAdv, ble, results, hist, left>>

(* prv_work_scan_stop_handler() ends whatever scan is under way.           *)
WorkStop ==
    /\ Takes("stop")
    /\ at' = "adv"
    /\ scanning' = "none"
    /\ UNCHANGED <<set, search, timers, rx, linked, adv, bleAdv, ble, results, hist, left>>

ScanStays ==
    /\ Takes("stop") /\ scanning # "none"
    /\ Uses("fault")
    /\ at' = "adv"
    /\ Note("unstopped")
    /\ UNCHANGED <<set, search, timers, rx, radio, bleAdv, ble, results>>

(* Faulty variant: advertising goes on only after a scan.                  *)
AdvAgainAfterScan ==
    /\ at \in {"adv", "gaveUp"}
    /\ at' = "idle"
    /\ IF at = "adv" THEN AdvStarted ELSE UNCHANGED <<adv, hist>>
    /\ UNCHANGED <<set, search, timers, work, rx, scanning, linked, bleAdv, ble, results, left>>

(* Both handlers start the advertisement again, whatever ble_adv says.     *)
AdvAgain ==
    /\ at \in {"adv", "gaveUp"}
    /\ at' = "idle"
    /\ AdvStarted
    /\ UNCHANGED <<set, search, timers, work, rx, scanning, linked, bleAdv, ble, results, left>>

AdvRefused ==
    /\ at \in {"adv", "gaveUp"}
    /\ Uses("fault")
    /\ at' = "idle"
    /\ Note("refused")
    /\ UNCHANGED <<set, search, timers, work, rx, radio, bleAdv, ble, results>>

-----------------------------------------------------------------------------
(* The receiving thread                                                    *)

(* prv_scan_cb(): an advertisement of the monitor plans the next scan.     *)
Heard ==
    /\ rx = "idle" /\ scanning = "cmdq"
    /\ Uses("found")
    /\ Handler
    /\ rx' \in {"idle", "match"}
    /\ UNCHANGED <<set, search, stopTimer, queue, radio, bleAdv, ble, results>>

(* A scan response ends the scan, if its timer runs already.               *)
Match ==
    /\ rx = "match"
    /\ stopTimer' = FALSE
    /\ IF stopTimer THEN Submit("stop") /\ Handler
                    ELSE UNCHANGED <<work, scanTimer, hist>>
    /\ rx' \in {"save", "idle"}  \* data of a length that is not the monitor's
    /\ UNCHANGED <<set, search, at, radio, bleAdv, ble, results, left>>

Cleaning == ble.at \in {"copy", "clear", "assign"}

(* bt_cmdq_messaging_save_to_buffer(): a full buffer discards the result.  *)
Save ==
    /\ rx = "save"
    /\ rx' = "idle"
    /\ IF count < BufLen
       THEN /\ buf' = [buf EXCEPT ![count + 1] = hist.saved + 1]
            /\ count' = count + 1
            /\ hist' = [hist EXCEPT !.saved = @ + 1,
                                    !.notes = IF Cleaning THEN @ \cup {"overlap"} ELSE @]
       ELSE UNCHANGED <<results, hist>>
    /\ UNCHANGED <<set, search, timers, queue, radio, bleAdv, ble, left>>

-----------------------------------------------------------------------------
(* The thread of the Bluetooth module                                      *)

Ready == [at |-> "idle", n |-> 0, keep |-> 0, i |-> 0]
Goes(place) == ble' = [ble EXCEPT !.at = place]

(* bt_cmdq_messaging_results_send(): the results that fit into a message.  *)
Compose ==
    /\ ble.at = "idle" /\ count > 0
    /\ Uses("report")
    /\ LET n == IF count < Room THEN count ELSE Room
       IN  /\ ble' = [ble EXCEPT !.at = "leftover", !.n = n]
           /\ hist' = [hist EXCEPT !.sent = @ \o SubSeq(buf, 1, n)]
    /\ UNCHANGED <<set, search, timers, queue, rx, radio, bleAdv, results>>

(* Faulty variant: what did not fit into the message is removed as well.   *)
LeftoverNone ==
    /\ ble.at = "leftover"
    /\ ble' = [ble EXCEPT !.at = "copy", !.keep = 0, !.i = 1]
    /\ UNCHANGED <<set, search, timers, queue, rx, radio, bleAdv, results, hist, left>>

(* The number of those left, an argument of the function that removes the  *)
(* others: the buffer may have grown since.                                *)
Leftover ==
    /\ ble.at = "leftover"
    /\ ble' = [ble EXCEPT !.at = "copy", !.keep = count - ble.n, !.i = 1]
    /\ UNCHANGED <<set, search, timers, queue, rx, radio, bleAdv, results, hist, left>>

(* prv_reorder_and_clean_results_buffer() reads the counter at every turn. *)
CopyOne ==
    /\ ble.at = "copy" /\ ble.i <= ble.keep
    /\ buf' = [buf EXCEPT ![ble.i] = buf[ble.i + count - ble.keep]]
    /\ ble' = [ble EXCEPT !.i = @ + 1]
    /\ UNCHANGED <<set, search, timers, queue, rx, radio, bleAdv, count, hist, left>>

ClearRest ==
    /\ ble.at = "copy" /\ ble.i > ble.keep
    /\ buf' = [i \in 1 .. BufLen |-> IF ble.keep < i /\ i <= count THEN 0 ELSE buf[i]]
    /\ Goes("assign")
    /\ UNCHANGED <<set, search, timers, queue, rx, radio, bleAdv, count, hist, left>>

Removed ==
    /\ ble.at = "assign"
    /\ count' = ble.keep
    /\ ble' = Ready
    /\ UNCHANGED <<set, search, timers, queue, rx, radio, bleAdv, buf, hist, left>>

(* CMD_SINGLE_BT_SCAN and bt_scan(): not while the setting is on or a      *)
(* phone is there; refused while another scan is under way.                *)
SingleScan ==
    /\ ble.at = "idle" /\ ~set /\ ~linked /\ scanning = "none"
    /\ Uses("single")
    /\ scanning' = "single"
    /\ Goes("single")
    /\ UNCHANGED <<set, search, timers, queue, rx, linked, adv, bleAdv, results, hist>>

(* After its sleep it ends the scan that is under way, its own or not.     *)
SingleEnds ==
    /\ ble.at = "single"
    /\ scanning' = "none"
    /\ Goes("idle")
    /\ UNCHANGED <<set, search, timers, queue, rx, linked, adv, bleAdv, results, hist, left>>

(* A new value of ble_adv                                                  *)
SetAdv ==
    /\ ble.at = "idle"
    /\ Uses("adv")
    /\ bleAdv' = ~bleAdv
    /\ adv' = bleAdv'
    /\ hist' = [hist EXCEPT !.notes = @ \ {"forced", "refused"}]
    /\ UNCHANGED <<set, search, timers, queue, rx, scanning, linked, ble, results>>

(* A new ble_advertisement_interval starts the advertisement afresh.       *)
SetInterval ==
    /\ ble.at = "idle"
    /\ Uses("adv")
    /\ AdvStarted
    /\ UNCHANGED <<set, search, timers, queue, rx, scanning, linked, bleAdv, ble, results>>

-----------------------------------------------------------------------------
(* The phone                                                               *)

Connects ==
    /\ adv /\ ~linked
    /\ Uses("link")
    /\ linked' = TRUE
    /\ UNCHANGED <<set, search, timers, queue, rx, scanning, adv, bleAdv, ble, results, hist>>

Disconnects ==
    /\ linked
    /\ linked' = FALSE
    /\ UNCHANGED <<set, search, timers, queue, rx, scanning, adv, bleAdv, ble, results, hist, left>>

-----------------------------------------------------------------------------
Init ==
    /\ set \in BOOLEAN /\ on = FALSE /\ comm = "idle"
    /\ scanTimer = FALSE /\ stopTimer = FALSE
    /\ work = <<>> /\ at = "idle"
    /\ scanning = "none" /\ rx = "idle" /\ linked = FALSE
    /\ bleAdv \in BOOLEAN /\ adv = bleAdv
    /\ ble = Ready
    /\ buf = [i \in 1 .. BufLen |-> 0] /\ count = 0
    /\ hist = [notes |-> {},   \* what went wrong, see Note
               saved |-> 0,    \* results saved
               sent |-> <<>>]  \* results sent
    /\ left = Bound

CommThread == StartOperation \/ FirstScan \/ NoBluetooth \/ StopOperation
WorkQueue  ==
    \/ WorkStart \/ AdvStaysOn \/ AskToLeave \/ LinkStays \/ ScanStarts \/ ScanRefused
    \/ StopTimerStarts \/ WorkStop \/ ScanStays \/ AdvAgain \/ AdvRefused
RxThread   == Match \/ Save
BleThread  == Leftover \/ CopyOne \/ ClearRest \/ Removed \/ SingleEnds

Next ==
    \/ SetCmdq \/ CommThread \/ ScanTimerFires \/ StopTimerFires \/ WorkQueue
    \/ Heard \/ RxThread \/ Compose \/ SingleScan \/ SetAdv \/ SetInterval \/ BleThread
    \/ Connects \/ Disconnects

Spec == Init /\ [][Next]_vars

(* Timers expire, and each thread goes on with what it has begun.          *)
FairSpec ==
    /\ Spec
    /\ WF_vars(CommThread) /\ WF_vars(ScanTimerFires) /\ WF_vars(StopTimerFires)
    /\ WF_vars(WorkQueue) /\ WF_vars(RxThread) /\ WF_vars(BleThread)

-----------------------------------------------------------------------------
(* Properties                                                              *)

(* While the search is on, another scan comes, whatever the phone, the     *)
(* timers and the other scanner do meanwhile, unless Bluetooth did not     *)
(* start or a scan was given up because the advertisement or the phone     *)
(* stayed; the code has no other attempt after that                        *)
(* (prv_work_scan_start_handler(), prv_scan_stop_timer_cb()).              *)
SearchGoesOn ==
    (on /\ ~Noted("givenUp")) ~> (scanning = "cmdq" \/ ~on \/ Noted("givenUp"))

(* Every scan of the search ends, also one that was found useless or that  *)
(* began as the search was switched off, unless the stack refuses to stop  *)
(* it (scan_stop_timer, prv_scan_cb(), bt_cmdq_stop_operation()).          *)
ScanEnds ==
    scanning = "cmdq" ~> (scanning # "cmdq" \/ Noted("unstopped"))

Kept == {buf[i] : i \in 1 .. count}
Sent == {hist.sent[i] : i \in DOMAIN hist.sent}

(* A result that was saved is sent once, or waits in the buffer, unless it *)
(* came while results sent were being removed: the one or the other is     *)
(* lost then (prv_reorder_and_clean_results_buffer()).                     *)
ResultsKept ==
    /\ Len(hist.sent) = Cardinality(Sent)
    /\ ble.at = "idle" /\ ~Noted("overlap") =>
           /\ Kept \cap Sent = {}
           /\ Kept \cup Sent = 1 .. hist.saved

Quiet == work = <<>> /\ at = "idle" /\ ~stopTimer /\ scanning # "cmdq"

(* Between scans the device advertises as ble_adv says, also after a scan  *)
(* that was given up or refused, unless the stack refused; a scan starts   *)
(* the advertisement that was switched off, too.                           *)
AdvertisesAsSet ==
    Quiet /\ ~Noted("refused") /\ ~Noted("forced") => adv = bleAdv
=============================================================================
