------------------------------- MODULE LrScan -------------------------------
(***************************************************************************)
(* What the communication thread asks of the LoRaWAN thread and waits for: *)
(* a GNSS or Wi-Fi scan, an almanac update, an S-band message, the modem's *)
(* silence during a GPS fix, and a restart (communication/communication.c  *)
(* with the queue event_que of lorawan/lorawan.c).  The answer comes       *)
(* through a flag per kind of request, looked at every 100 ms, or through  *)
(* lorawan_enabled.  The LP0 thread suspends and resumes the modem         *)
(* meanwhile.                                                              *)
(*                                                                         *)
(* The engine of the modem sleeps in every transfer to the chip, so all    *)
(* interleavings of the threads are possible between two events.           *)
(*                                                                         *)
(* The specification is LSpec, so that the module can be used together     *)
(* with GpsFix, the other half of how a position is found.                 *)
(***************************************************************************)
EXTENDS Naturals, Sequences

CONSTANTS
    QueMax,      \* size of event_que, 8 in the code
    SBandParts,  \* messages per S-band event, 2 for LR_S_BAND_SEND_BOTH
    LInputs,     \* what may happen, see LCauses
    LBound       \* bound: how often something of it happens

Scans  == {"gnss", "wifi", "almanac", "sband"}
LCauses == Scans \cup {"fix", "reset", "vhf", "uplink", "leave", "lp0", "fault"}

ASSUME ScanAssumption ==
    /\ QueMax \in Nat \ {0} /\ SBandParts \in {1, 2}
    /\ LInputs \subseteq LCauses /\ LBound \in Nat

VARIABLES
    state,    \* state of lorawan_main_loop()
    enabled,  \* lorawan_enabled
    que,      \* event_que: what is asked, and by which request
    run,      \* what the LoRaWAN thread is at, for which request, parts left
    burst,    \* prv_vhf_burst_queued
    comm,     \* where the communication thread is, since which request
    done,     \* the flags lr_..._done
    answer,   \* history: the request each flag was last set for
    lp0,      \* the LP0 thread has asked for the radio
    lost,     \* history: the events purged, skipped or refused
    budget    \* bound: how much may still happen

lorawan == <<state, enabled, run, burst>>
flags   == <<done, answer>>
lvars   == <<lorawan, que, comm, flags, lp0, lost, budget>>

Idle == [job |-> "none", no |-> 0, parts |-> 0]

-----------------------------------------------------------------------------
(* Requests                                                                *)

Spends(input) == input \in LInputs /\ budget > 0 /\ budget' = budget - 1

Event(cmd, no) == [cmd |-> cmd, no |-> no]

(* prv_put_event_in_que(): each event put into a full queue costs the      *)
(* oldest one.                                                             *)
All(events)     == que \o events
Excess(events)  == IF Len(All(events)) > QueMax THEN Len(All(events)) - QueMax ELSE 0
Put(events)     == que' = SubSeq(All(events), Excess(events) + 1, Len(All(events)))
Dropped(events) == {All(events)[i].cmd : i \in 1 .. Excess(events)}
Loses(cmds)     == lost' = lost \cup cmds

(* Waits afresh for what may be lost on the way.                           *)
Sends(events, hopes) ==
    Put(events) /\ lost' = (lost \ hopes) \cup Dropped(events)

At(place) == comm.at = place
GoTo(place) == comm' = [comm EXCEPT !.at = place]
Asks(place) == comm' = [at |-> place, no |-> comm.no + 1]
Lowers(k)   == done' = [done EXCEPT ![k] = FALSE]

(* Faulty variant: the flag of the scan before is still up.                *)
AskScanKeepsFlag(k) ==
    /\ Spends(k) /\ At("idle")
    /\ enabled
    /\ Asks(k)
    /\ Sends(<<Event(k, comm.no + 1)>>, {k})
    /\ UNCHANGED <<lorawan, flags, lp0>>

(* prv_lr_gnss_scan(), prv_lr_wifi_scan(), first part of prv_s_band_send(): *)
(* refused while LoRaWAN is disabled.                                       *)
AskScan(k) ==
    /\ Spends(k) /\ At("idle")
    /\ enabled
    /\ Lowers(k)
    /\ Asks(k)
    /\ Sends(<<Event(k, comm.no + 1)>>, {k})
    /\ UNCHANGED <<lorawan, answer, lp0>>

(* The wait ends with the flag.                                            *)
ScanAnswered(k) ==
    /\ At(k) /\ done[k]
    /\ GoTo("idle")
    /\ UNCHANGED <<lorawan, que, flags, lp0, lost, budget>>

(* prv_s_band_send() sends a second message after the first.               *)
SecondMessage ==
    /\ At("sband") /\ done["sband"]
    /\ Lowers("sband")
    /\ Asks("sband2")
    /\ Sends(<<Event("sband", comm.no + 1)>>, {"sband"})
    /\ UNCHANGED <<lorawan, answer, lp0, budget>>

SecondAnswered ==
    /\ At("sband2") /\ done["sband"]
    /\ GoTo("idle")
    /\ UNCHANGED <<lorawan, que, flags, lp0, lost, budget>>

(* prv_lr_update_almanac(): nobody lowers its flag.                        *)
AskAlmanac ==
    /\ Spends("almanac") /\ At("idle")
    /\ Asks("almanac")
    /\ Sends(<<Event("almanac", comm.no + 1)>>, {"almanac"})
    /\ UNCHANGED <<lorawan, flags, lp0>>

AlmanacTimeout ==
    /\ At("almanac") /\ ~done["almanac"]
    /\ GoTo("idle")
    /\ UNCHANGED <<lorawan, que, flags, lp0, lost, budget>>

(* prv_obtain_ublox_fix(): suspend, wait, fix, resume.                     *)
AskFix ==
    /\ Spends("fix") /\ At("idle")
    /\ GoTo("fix")
    /\ Sends(<<Event("suspend", 0)>>, {"suspend", "crossed"})
    /\ UNCHANGED <<lorawan, flags, lp0>>

FixStarts ==
    /\ At("fix") /\ ~enabled
    /\ GoTo("gps")
    /\ UNCHANGED <<lorawan, que, flags, lp0, lost, budget>>

(* Faulty variant: a fix leaves the modem suspended.                       *)
FixEndsSilent ==
    /\ At("gps")
    /\ GoTo("idle")
    /\ UNCHANGED <<lorawan, que, flags, lp0, lost, budget>>

FixEnds ==
    /\ At("gps")
    /\ GoTo("idle")
    /\ Sends(<<Event("resume", 0)>>, {})
    /\ UNCHANGED <<lorawan, flags, lp0, budget>>

(* lr_reset(): suspend, reset, wait until LoRaWAN is enabled, almanac.  It *)
(* may find LoRaWAN enabled before either event has been taken.            *)
AskReset ==
    /\ Spends("reset") /\ At("idle")
    /\ GoTo("reset")
    /\ Sends(<<Event("suspend", 0), Event("reset", 0)>>, {"reset"})
    /\ UNCHANGED <<lorawan, flags, lp0>>

(* The end of lr_start() and of lr_reset().                                *)
LorawanUp ==
    /\ At("start") \/ At("reset")
    /\ enabled
    /\ Asks("almanac")
    /\ Sends(<<Event("almanac", comm.no + 1)>>, {"almanac"})
    /\ UNCHANGED <<lorawan, flags, lp0, budget>>

-----------------------------------------------------------------------------
(* Start and restart, the other users of the queue                         *)

Start ==
    /\ state' = "SETUP" /\ enabled' = FALSE /\ que' = <<Event("start", 0)>>
    /\ run' = Idle /\ burst' = FALSE
    /\ comm' = [at |-> "start", no |-> 0]
    /\ done' = [k \in Scans |-> FALSE] /\ answer' = [k \in Scans |-> 0]
    /\ lp0' = FALSE /\ lost' = {}

(* Twenty seconds without LoRaWAN: sys_reboot().                           *)
Reboot ==
    /\ At("start") \/ At("reset")
    /\ ~enabled
    /\ budget > 0 /\ budget' = budget - 1
    /\ Start

(* An uplink, a network left: put without waiting.                         *)
Post(cmd) ==
    /\ Spends(cmd) /\ At("idle")
    /\ Sends(<<Event(cmd, 0)>>, {})
    /\ UNCHANGED <<lorawan, comm, flags, lp0>>

(* lorawan_vhf_burst(): one at a time.                                     *)
AskBurst ==
    /\ Spends("vhf") /\ At("idle")
    /\ ~burst
    /\ burst' = TRUE
    /\ Sends(<<Event("vhf", 0)>>, {"vhf"})
    /\ UNCHANGED <<state, enabled, run, comm, flags, lp0>>

Lp0Asks ==
    /\ Spends("lp0") /\ ~lp0
    /\ lp0' = TRUE
    /\ Sends(<<Event("suspend", 0)>>, {})
    /\ UNCHANGED <<lorawan, comm, flags>>

Lp0GivesBack ==
    /\ lp0
    /\ lp0' = FALSE
    /\ Sends(<<Event("resume", 0)>>, {})
    /\ UNCHANGED <<lorawan, comm, flags, budget>>

-----------------------------------------------------------------------------
(* The LoRaWAN thread                                                      *)

Takes(cmd) == run = Idle /\ state # "INIT" /\ que # <<>> /\ Head(que).cmd = cmd /\ que' = Tail(que)

Fails(cmd) == Spends("fault") /\ Loses({cmd})
Works == UNCHANGED <<lost, budget>>

(* LORAWAN_CMD_START, LORAWAN_CMD_RESET, and the next turn of the loop.    *)
EngineStart ==
    /\ Takes("start") \/ Takes("reset")
    /\ state' = "INIT"
    /\ UNCHANGED <<enabled, run, burst, comm, flags, lp0, lost, budget>>

EngineInit ==
    /\ state = "INIT" /\ run = Idle
    /\ state' = "ENGINE" /\ enabled' = TRUE
    /\ UNCHANGED <<run, burst, que, comm, flags, lp0, lost, budget>>

Suspend ==
    /\ Takes("suspend")
    /\ \/ state # "ENGINE" /\ enabled' = FALSE /\ UNCHANGED state /\ Works
       \/ state = "ENGINE" /\ enabled' = FALSE /\ state' = "SUSPENDED" /\ Works
       \/ state = "ENGINE" /\ UNCHANGED <<enabled, state>> /\ Fails("suspend")
    /\ UNCHANGED <<run, burst, comm, flags, lp0>>

(* History: a resume comes after the suspension the communication thread   *)
(* asked for and before it has looked.                                     *)
Crossed ==
    IF At("fix") /\ \A i \in DOMAIN que : que[i].cmd # "suspend" THEN {"crossed"} ELSE {}

(* Then the thread waits for the semaphore of LP0, for 180 s at most.      *)
Resume ==
    /\ Takes("resume")
    /\ \/ /\ state = "SUSPENDED"
          /\ state' = "ENGINE" /\ enabled' = TRUE
          /\ run' = [Idle EXCEPT !.job = "retake"]
          /\ Loses(Crossed) /\ UNCHANGED budget
       \/ /\ state = "SUSPENDED"
          /\ UNCHANGED <<state, enabled, run>> /\ Fails("resume")
       \/ /\ state = "ENGINE"
          /\ enabled' = TRUE
          /\ Loses(Crossed) /\ UNCHANGED <<state, run, budget>>
       \/ state = "SETUP" /\ UNCHANGED <<state, enabled, run>> /\ Works
    /\ UNCHANGED <<burst, comm, flags, lp0>>

Retaken ==
    /\ run.job = "retake"
    /\ run' = Idle
    /\ UNCHANGED <<state, enabled, burst, que, comm, flags, lp0, lost, budget>>

(* An uplink: no event is taken until it is sent.                          *)
Uplink ==
    /\ Takes("uplink")
    /\ run' = IF state = "ENGINE" /\ enabled THEN [Idle EXCEPT !.job = "uplink"] ELSE run
    /\ UNCHANGED <<state, enabled, burst, comm, flags, lp0, lost, budget>>

UplinkSent ==
    /\ run.job = "uplink"
    /\ run' = Idle
    /\ UNCHANGED <<state, enabled, burst, que, comm, flags, lp0, lost, budget>>

Leave ==
    /\ Takes("leave")
    /\ UNCHANGED <<state, enabled, run, burst, comm, flags, lp0, lost, budget>>

(* A scan or an update asked for while LoRaWAN was enabled is skipped,     *)
(* without an answer, when it no longer is.                                *)
SkipJob(k) ==
    /\ Takes(k) /\ k \notin {"sband", "vhf"} /\ ~enabled
    /\ Loses({k})
    /\ UNCHANGED <<lorawan, comm, flags, lp0, budget>>

(* Around a radio job the modem is suspended; a refusal is only logged.    *)
JobStarts(k) ==
    /\ Takes(k)
    /\ enabled \/ k \in {"sband", "vhf"}
    /\ run' = [job |-> k, no |-> Head(que).no, parts |-> IF k = "sband" THEN SBandParts ELSE 1]
    /\ \/ state' = "SUSPENDED" /\ Works
       \/ UNCHANGED state /\ Spends("fault") /\ UNCHANGED lost
    /\ UNCHANGED <<enabled, burst, comm, flags, lp0>>

Answers(k) ==
    IF k = "vhf" THEN UNCHANGED flags
    ELSE done' = [done EXCEPT ![k] = TRUE] /\ answer' = [answer EXCEPT ![k] = run.no]

(* Faulty variant: a failed job is not reported.                           *)
JobEndsSilent(k) ==
    /\ run.job = k
    /\ \/ /\ state' = "ENGINE" /\ Works
          /\ Answers(k)
       \/ UNCHANGED <<state, flags>> /\ Fails("resume")
    /\ run' = IF run.parts > 1 THEN [run EXCEPT !.parts = 1] ELSE Idle
    /\ burst' = (burst /\ k # "vhf")
    /\ UNCHANGED <<enabled, que, comm, lp0>>

(* Every job reports its end, also when it fails, before the modem is      *)
(* resumed.  A message sent in both modes reports twice.                   *)
JobEnds(k) ==
    /\ run.job = k
    /\ Answers(k)
    /\ \/ state' = "ENGINE" /\ Works
       \/ UNCHANGED state /\ Fails("resume")
    /\ run' = IF run.parts > 1 THEN [run EXCEPT !.parts = 1] ELSE Idle
    /\ burst' = (burst /\ k # "vhf")
    /\ UNCHANGED <<enabled, que, comm, lp0>>

-----------------------------------------------------------------------------
LInit ==
    /\ state = "SETUP" /\ enabled = FALSE /\ que = <<Event("start", 0)>>
    /\ run = Idle /\ burst = FALSE
    /\ comm = [at |-> "start", no |-> 0]
    /\ done = [k \in Scans |-> FALSE] /\ answer = [k \in Scans |-> 0]
    /\ lp0 = FALSE /\ lost = {} /\ budget = LBound

LorawanThread ==
    \/ EngineStart \/ EngineInit \/ Suspend \/ Resume \/ Retaken
    \/ Uplink \/ UplinkSent \/ Leave
    \/ \E k \in Scans \cup {"vhf"} : SkipJob(k) \/ JobStarts(k) \/ JobEnds(k)

CommGoesOn ==
    \/ \E k \in {"gnss", "wifi", "almanac"} : ScanAnswered(k)
    \/ SecondMessage \/ SecondAnswered \/ AlmanacTimeout
    \/ FixStarts \/ FixEnds \/ LorawanUp

CommAsks ==
    \/ \E k \in {"gnss", "wifi", "sband"} : AskScan(k)
    \/ AskAlmanac \/ AskFix \/ AskReset \/ AskBurst
    \/ \E cmd \in {"uplink", "leave"} : Post(cmd)

LNext == LorawanThread \/ CommGoesOn \/ CommAsks \/ Reboot \/ Lp0Asks \/ Lp0GivesBack

LSpec == LInit /\ [][LNext]_lvars

(* Each thread is scheduled, jobs, uplinks and waits of the LoRaWAN thread *)
(* end within a timeout.                                                   *)
LFairSpec == LSpec /\ WF_lvars(LorawanThread) /\ WF_lvars(CommGoesOn) /\ WF_lvars(Lp0GivesBack)

-----------------------------------------------------------------------------
Places == {"idle", "start", "reset", "fix", "gps", "sband2"} \cup Scans

(* The result the communication thread goes on with is the one of the      *)
(* request it waits for, not what an earlier one left in the flag: for the *)
(* scans of communication.c:879 and 960.                                   *)
OwnAnswer ==
    [][\A k \in {"gnss", "wifi"} : At(k) /\ comm'.at = "idle" => answer[k] = comm.no]_lvars

(* With nobody using the radio and nothing left to do the modem is back:   *)
(* every suspension of the communication and of the LP0 thread has been    *)
(* undone, in whatever order theirs came (lorawan.c:804-842), if the chip  *)
(* obeyed and no resume and no restart was purged from a full queue.       *)
ModemBack ==
    (At("idle") /\ ~lp0 /\ que = <<>> /\ run = Idle /\ {"resume", "reset"} \cap lost = {})
        => (enabled /\ state \in {"ENGINE", "INIT"})

(* The events whose loss a wait does not survive.                          *)
Needs(place) ==
    IF place = "fix" THEN {"suspend", "crossed"}
    ELSE IF place = "sband2" THEN {"sband"} ELSE {place}

(* The communication thread, which waits without a timeout, goes on: every *)
(* request is answered on every path of the LoRaWAN thread, except when    *)
(* its event was purged or skipped (communication.c:890, 965, 1132).  And  *)
(* a VHF burst that is asked for is sent or lost in a full queue; the flag *)
(* that keeps the next one out is then taken down (lorawan.c:949).         *)
WaitEnds ==
    /\ \A p \in Places \ {"idle", "start", "reset"} : At(p) ~> (~At(p) \/ Needs(p) \cap lost # {})
    /\ burst ~> (~burst \/ "vhf" \in lost)
=============================================================================
