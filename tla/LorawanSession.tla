--------------------------- MODULE LorawanSession ---------------------------
(***************************************************************************)
(* The LoRaWAN thread of lorawan/lorawan.c: its state machine, its two     *)
(* queues, the join sequence and the activation settings a session is      *)
(* joined with.  Other threads post events and change the settings, the    *)
(* modem calls back while its engine runs, and the device may reboot       *)
(* between any two steps that reach the flash or the radio.                *)
(*                                                                         *)
(* The modem is external.  It keeps its session in its own NVS context, so *)
(* a session outlives a reboot; the record of the settings it was joined   *)
(* with is kept beside it, by this code.  A change of its status and the   *)
(* callback that reports it belong to one run of the engine.               *)
(***************************************************************************)
EXTENDS Integers, Sequences, FiniteSets, Functions

CONSTANTS
    Configs,       \* activation settings: a region, a JoinEUI and an AppKey
    NoConfig,      \* no, or no valid, activation settings
    Factory,       \* the settings the device is delivered with
    EventQueMax,   \* size of event_que
    MsgQueMax,     \* size of msg_que
    JoinAttempts,  \* LORAWAN_JOIN_ATTEMPTS
    Faults,        \* the calls that may fail
    MaxFaults,     \* bound: calls that do
    Commands,      \* the commands and radio jobs other threads post
    MaxMessages,   \* bound: messages posted
    MaxCommands,   \* bound: commands posted
    MaxChanges,    \* bound: changes of the settings
    MaxReboots     \* bound: reboots

ASSUME ConfigAssumption == NoConfig \notin Configs /\ Factory \in Configs
ASSUME SizeAssumption ==
    /\ {EventQueMax, MsgQueMax, JoinAttempts} \subseteq Nat \ {0}
    /\ {MaxMessages, MaxCommands, MaxChanges, MaxReboots, MaxFaults} \subseteq Nat

Calls == {"leave", "delete", "configure", "join", "store", "read", "info", "uplink",
          "suspend", "resume"}
Jobs  == {"scan", "sband", "vhf"}
ASSUME FaultAssumption == Faults \subseteq Calls
ASSUME CommandAssumption == Commands \subseteq Jobs \cup {"leave", "reset", "suspend", "resume"}

VARIABLES
    state,          \* lorawan_state
    enabled,        \* lorawan_enabled
    joining,        \* lorawan_joining
    failed,         \* lorawan_join_failed_counter
    waitTxDone,     \* lorawan_wait_tx_done
    vhfQueued,      \* prv_vhf_burst_queued
    chipSem,        \* lora_chip_suspended_sem
    eventQue,       \* event_que
    msgQue,         \* msg_que
    desired,        \* lorawan_cfg
    changePending,  \* lorawan_activation_change_pending
    attempt,        \* join_attempt_configuration
    joined,         \* joined_configuration
    doing,          \* where the thread is in a handler
    nvs,            \* settings, identity record and modem context
    modem,          \* session, join under way, reset to report
    uplinks,        \* every message handed to the modem, and what came of it
    faulty,         \* the calls that have failed
    made            \* bounds

flags == <<state, enabled, joining, failed, waitTxDone, vhfQueued, chipSem>>
ques  == <<eventQue, msgQue>>
confs == <<desired, changePending, attempt, joined>>
ghost == <<uplinks, made>>
vars  == <<flags, ques, confs, doing, nvs, modem, ghost, faulty>>

-----------------------------------------------------------------------------
(* Messages, settings and queues                                           *)

Message(id, join) == [kind |-> "message", id |-> id, join |-> join]
Post(kind)        == [kind |-> kind, id |-> 0, join |-> FALSE]
NoMessage         == Post("none")

(* A session is fresh until the settings it was joined with are changed,   *)
(* even if they are changed back.                                          *)
Session(cfg, fresh) == [cfg |-> cfg, fresh |-> fresh]
NoSession           == Session(NoConfig, FALSE)
Outdated(s)         == Session(s.cfg, FALSE)

(* A full queue loses its oldest entry.                                    *)
Newest(que, max) == IF Len(que) <= max THEN que ELSE SubSeq(que, Len(que) - max + 1, Len(que))

(* prv_put_event_in_que()                                                  *)
PutEvent(que, e) == Newest(Append(que, e), EventQueMax)

(* prv_put_msg_in_que()                                                    *)
PutMsg(m) == Newest(Append(msgQue, m), MsgQueMax)

(* Faulty variant: the messages stay in msg_que as well.                    *)
RescheduleCopies ==
    /\ eventQue' = Newest(eventQue \o msgQue, EventQueMax)
    /\ UNCHANGED msgQue

(* prv_lorawan_reschedule_messages()                                       *)
RescheduleMessages ==
    /\ eventQue' = Newest(eventQue \o msgQue, EventQueMax)
    /\ msgQue' = <<>>

(* How a call may end.                                                     *)
Ends(call) ==
    IF call \in Faults /\ Cardinality(faulty) < MaxFaults THEN BOOLEAN ELSE {TRUE}
FaultIs(call, ok) == faulty' = IF ok THEN faulty ELSE faulty \cup {call}

-----------------------------------------------------------------------------
(* The modem                                                               *)

IsJoined == modem.session # NoSession

(* smtc_modem_leave_network(): the session ends, a join stops; the context *)
(* in the NVS may still hold the session.                                  *)
Left(ok)     == IF ok THEN [modem EXCEPT !.session = NoSession, !.trying = NoSession] ELSE modem
Contexts(ok) == IF ok THEN {nvs.session, NoSession} ELSE {nvs.session}
Leave(ok) ==
    /\ modem' = Left(ok)
    /\ \E context \in Contexts(ok) : nvs' = [nvs EXCEPT !.session = context]
    /\ FaultIs("leave", ok)

-----------------------------------------------------------------------------
(* Taking events                                                           *)

Idle  == [at |-> "idle", msg |-> NoMessage, params |-> NoSession, latched |-> FALSE]
Start(msg) == [at |-> "delete", msg |-> msg, params |-> NoSession, latched |-> FALSE]

(* The engine runs before every event, and reports the reset of the modem  *)
(* at once.                                                                *)
Runs == state = "ENGINE" /\ doing.at = "idle"
TakesEvents ==
    /\ doing.at = "idle" /\ ~waitTxDone /\ eventQue # <<>>
    /\ state # "INIT"
    /\ ~(state = "ENGINE" /\ modem.resetDue)

Event == Head(eventQue)
Takes(kind) == TakesEvents /\ Event.kind = kind /\ eventQue' = Tail(eventQue)
StoreForLater == msgQue' = PutMsg(Event)

HandleMessageLater ==
    /\ Takes("message") /\ state # "ENGINE"
    /\ StoreForLater
    /\ UNCHANGED <<flags, confs, doing, nvs, modem, ghost, faulty>>

HandleMessageDisabled ==
    /\ Takes("message") /\ state = "ENGINE" /\ ~enabled
    /\ UNCHANGED <<flags, msgQue, confs, doing, nvs, modem, ghost, faulty>>

CanSend == state = "ENGINE" /\ enabled

(* Faulty variant: the session is left, the join left to the next message.  *)
HandleMessageRejoinLater ==
    /\ Takes("message") /\ CanSend /\ changePending /\ (IsJoined \/ joining)
    /\ \E ok \in Ends("leave") : Leave(ok)
    /\ joining' = FALSE /\ attempt' = NoConfig
    /\ StoreForLater
    /\ UNCHANGED <<state, enabled, failed, waitTxDone, vhfQueued, chipSem, desired,
                   changePending, joined, doing, ghost>>

(* The activation settings have changed: leave, and join anew.             *)
HandleMessageRejoin ==
    /\ Takes("message") /\ CanSend /\ changePending /\ (IsJoined \/ joining)
    /\ \E ok \in Ends("leave") :
          /\ Leave(ok)
          /\ IF ok
             THEN /\ joining' = FALSE /\ attempt' = NoConfig
                  /\ doing' = Start(Event)
                  /\ UNCHANGED msgQue
             ELSE StoreForLater /\ UNCHANGED <<joining, attempt, doing>>
    /\ UNCHANGED <<state, enabled, failed, waitTxDone, vhfQueued, chipSem, desired,
                   changePending, joined, ghost>>

HandleMessageJoin ==
    /\ Takes("message") /\ CanSend /\ ~joining /\ ~IsJoined /\ (changePending \/ Event.join)
    /\ doing' = Start(Event)
    /\ UNCHANGED <<flags, msgQue, confs, nvs, modem, ghost, faulty>>

HandleMessageWait ==
    /\ Takes("message") /\ CanSend /\ ~changePending /\ ~IsJoined /\ (joining \/ ~Event.join)
    /\ StoreForLater
    /\ UNCHANGED <<flags, confs, doing, nvs, modem, ghost, faulty>>

(* send_frame(), where an empty uplink takes the place of a message that   *)
(* does not fit the data rate.                                             *)
HandleMessageSend ==
    /\ Takes("message") /\ CanSend /\ ~changePending /\ IsJoined
    /\ uplinks' = Append(uplinks, Event.id)
    /\ \E ok \in Ends("uplink") : waitTxDone' = ok /\ FaultIs("uplink", ok)
    /\ UNCHANGED <<state, enabled, joining, failed, vhfQueued, chipSem, msgQue, confs, doing,
                   nvs, modem, made>>

HandleLeave ==
    /\ Takes("leave")
    /\ \E ok \in Ends("leave") : Leave(ok)
    /\ joining' = FALSE /\ attempt' = NoConfig /\ failed' = 0
    /\ UNCHANGED <<state, enabled, waitTxDone, vhfQueued, chipSem, msgQue, desired,
                   changePending, joined, doing, ghost>>

HandleStart ==
    /\ Takes("start")
    /\ state' = "INIT"
    /\ UNCHANGED <<enabled, joining, failed, waitTxDone, vhfQueued, chipSem, msgQue, confs,
                   doing, nvs, modem, ghost, faulty>>

HandleReset ==
    /\ Takes("reset")
    /\ \E ok \in Ends("leave") : Leave(ok)
    /\ joining' = FALSE /\ attempt' = NoConfig
    /\ state' = "INIT"
    /\ UNCHANGED <<enabled, failed, waitTxDone, vhfQueued, chipSem, msgQue, desired,
                   changePending, joined, doing, ghost>>

(* A scan, an S-band message or a VHF burst: the modem is suspended, the   *)
(* radio used, and the modem resumed.  Only a scan is refused while        *)
(* LoRaWAN is disabled.                                                    *)
StateAfterJob(suspended, resumed) ==
    IF resumed THEN "ENGINE" ELSE IF suspended THEN "SUSPENDED" ELSE state

HandleJob ==
    /\ \E job \in Jobs :
          /\ Takes(job)
          /\ job = "scan" => enabled
          /\ vhfQueued' = IF job = "vhf" THEN FALSE ELSE vhfQueued
    /\ \E suspended \in Ends("suspend"), resumed \in Ends("resume") :
          /\ state' = StateAfterJob(suspended, resumed)
          /\ faulty' = faulty \cup (IF suspended THEN {} ELSE {"suspend"})
                             \cup (IF resumed THEN {} ELSE {"resume"})
    /\ UNCHANGED <<enabled, joining, failed, waitTxDone, chipSem, msgQue, confs, doing, nvs,
                   modem, ghost>>

RefuseScan ==
    /\ Takes("scan") /\ ~enabled
    /\ UNCHANGED <<flags, msgQue, confs, doing, nvs, modem, ghost, faulty>>

(* Whoever asks for the suspension waits for the semaphore, which is given *)
(* only if the engine was running.                                         *)
HandleSuspend ==
    /\ Takes("suspend")
    /\ \E ok \in IF state = "ENGINE" THEN Ends("suspend") ELSE {TRUE} :
          /\ state' = IF state = "ENGINE" /\ ok THEN "SUSPENDED" ELSE state
          /\ enabled' = (enabled /\ ~ok)
          /\ chipSem' = (chipSem \/ (state = "ENGINE" /\ ok))
          /\ FaultIs("suspend", ok)
    /\ UNCHANGED <<joining, failed, waitTxDone, vhfQueued, msgQue, confs, doing, nvs, modem,
                   ghost>>

(* A suspended modem is resumed and the semaphore taken back, or waited    *)
(* for in vain.                                                            *)
HandleResume ==
    /\ Takes("resume")
    /\ \E ok \in IF state = "SUSPENDED" THEN Ends("resume") ELSE {TRUE} :
          /\ state' = IF state = "SUSPENDED" /\ ok THEN "ENGINE" ELSE state
          /\ enabled' = (enabled \/ state' = "ENGINE")
          /\ chipSem' = (chipSem /\ ~(state = "SUSPENDED" /\ ok))
          /\ FaultIs("resume", ok)
    /\ UNCHANGED <<joining, failed, waitTxDone, vhfQueued, msgQue, confs, doing, nvs, modem,
                   ghost>>

HandleEvent ==
    \/ HandleMessageLater \/ HandleMessageDisabled \/ HandleMessageRejoin
    \/ HandleMessageJoin \/ HandleMessageWait \/ HandleMessageSend
    \/ HandleLeave \/ HandleStart \/ HandleReset \/ HandleJob \/ RefuseScan
    \/ HandleSuspend \/ HandleResume

-----------------------------------------------------------------------------
(* prv_start_join(), whose flash and radio accesses let other threads run  *)

(* Faulty variant: the message that called for the join is dropped.         *)
EndStartDropping == doing' = Idle /\ UNCHANGED msgQue

(* The message that called for the join waits for its end.                 *)
EndStart ==
    /\ doing' = Idle
    /\ msgQue' = IF doing.msg = NoMessage THEN msgQue ELSE PutMsg(doing.msg)

(* Faulty variant: the identity of the old session stays until it is        *)
(* overwritten.                                                             *)
DeleteRecordLater ==
    /\ doing.at = "delete"
    /\ joined' = NoConfig
    /\ doing' = [doing EXCEPT !.at = "configure"]
    /\ UNCHANGED <<flags, ques, desired, changePending, attempt, nvs, modem, ghost, faulty>>

(* The identity of the old session goes first.                             *)
DeleteRecord ==
    /\ doing.at = "delete"
    /\ \E ok \in Ends("delete") :
          /\ FaultIs("delete", ok)
          /\ IF ok
             THEN /\ nvs' = [nvs EXCEPT !.record = NoConfig]
                  /\ joined' = NoConfig
                  /\ doing' = [doing EXCEPT !.at = "configure"]
                  /\ UNCHANGED msgQue
             ELSE EndStart /\ UNCHANGED <<nvs, joined>>
    /\ UNCHANGED <<flags, eventQue, desired, changePending, attempt, modem, ghost>>

Configure ==
    /\ doing.at = "configure"
    /\ \E ok \in Ends("configure") :
          /\ FaultIs("configure", ok)
          /\ IF ok
             THEN /\ attempt' = desired
                  /\ changePending' = FALSE
                  /\ doing' = [doing EXCEPT !.at = "join", !.latched = changePending,
                                            !.params = Session(desired, TRUE)]
                  /\ UNCHANGED msgQue
             ELSE EndStart /\ UNCHANGED <<attempt, changePending>>
    /\ UNCHANGED <<flags, eventQue, desired, joined, nvs, modem, ghost>>

JoinNetwork ==
    /\ doing.at = "join"
    /\ EndStart
    /\ \E ok \in Ends("join") :
          /\ FaultIs("join", ok)
          /\ modem' = IF ok THEN [modem EXCEPT !.trying = doing.params] ELSE modem
          /\ joining' = (joining \/ ok)
          /\ attempt' = IF ok THEN attempt ELSE NoConfig
          /\ changePending' = (changePending \/ (~ok /\ doing.latched))
    /\ UNCHANGED <<state, enabled, failed, waitTxDone, vhfQueued, chipSem, eventQue, desired,
                   joined, nvs, ghost>>

-----------------------------------------------------------------------------
(* The main loop and the callbacks of the modem                            *)

(* LORAWAN_INIT: the modem starts anew, and restores what its context holds. *)
InitEngine ==
    /\ state = "INIT"
    /\ state' = "ENGINE" /\ enabled' = TRUE
    /\ joining' = FALSE /\ failed' = 0 /\ attempt' = NoConfig
    /\ \E ok \in Ends("read") :
          /\ joined' = IF ok THEN nvs.record ELSE NoConfig
          /\ FaultIs("read", ok)
    /\ modem' = [session |-> nvs.session, trying |-> NoSession, resetDue |-> TRUE]
    /\ UNCHANGED <<waitTxDone, vhfQueued, chipSem, ques, desired, changePending, doing, nvs,
                   ghost>>

(* on_modem_reset()                                                        *)
ResetReported == [modem EXCEPT !.resetDue = FALSE]

(* The callback gives up at its first call.                                *)
OnResetFails ==
    /\ Runs /\ modem.resetDue
    /\ FALSE \in Ends("info") /\ FaultIs("info", FALSE)
    /\ modem' = ResetReported
    /\ UNCHANGED <<flags, ques, confs, doing, nvs, ghost>>

OnResetNoSession ==
    /\ Runs /\ modem.resetDue /\ ~IsJoined
    /\ failed' = 0
    /\ modem' = ResetReported
    /\ doing' = Start(NoMessage)
    /\ UNCHANGED <<state, enabled, joining, waitTxDone, vhfQueued, chipSem, ques, confs, nvs,
                   ghost, faulty>>

(* Faulty variant: any identity will do.                                    *)
MatchesAny == joined # NoConfig

(* The session was joined with the settings as they are now.               *)
Matches == joined # NoConfig /\ joined = desired

OnResetRestored ==
    /\ Runs /\ modem.resetDue /\ IsJoined /\ Matches
    /\ failed' = 0
    /\ modem' = ResetReported
    /\ RescheduleMessages
    /\ UNCHANGED <<state, enabled, joining, waitTxDone, vhfQueued, chipSem, confs, doing, nvs,
                   ghost, faulty>>

(* A session joined with other settings is left, to join with the next     *)
(* message; one without an identity is left to join at once.               *)
OnResetMismatch ==
    /\ Runs /\ modem.resetDue /\ IsJoined /\ ~Matches
    /\ failed' = 0
    /\ changePending' = TRUE
    /\ \E ok \in Ends("leave") :
          /\ modem' = [Left(ok) EXCEPT !.resetDue = FALSE]
          /\ \E context \in Contexts(ok) : nvs' = [nvs EXCEPT !.session = context]
          /\ FaultIs("leave", ok)
          /\ doing' = IF ok /\ joined = NoConfig THEN Start(NoMessage) ELSE doing
    /\ UNCHANGED <<state, enabled, joining, waitTxDone, vhfQueued, chipSem, ques, desired,
                   attempt, joined, ghost>>

(* The join is accepted, and the modem keeps its session ...               *)
JoinAccepted ==
    /\ Runs /\ ~modem.resetDue /\ modem.trying # NoSession
    /\ modem' = [modem EXCEPT !.session = modem.trying, !.trying = NoSession]
    /\ nvs' = [nvs EXCEPT !.session = modem.trying]
    /\ doing' = [Idle EXCEPT !.at = "joined"]
    /\ UNCHANGED <<flags, ques, confs, ghost, faulty>>

(* ... before on_modem_network_joined() keeps its identity.                *)
OnJoined ==
    /\ doing.at = "joined"
    /\ \E ok \in IF attempt = NoConfig THEN {TRUE} ELSE Ends("store") :
          /\ nvs' = IF attempt # NoConfig /\ ok THEN [nvs EXCEPT !.record = attempt] ELSE nvs
          /\ FaultIs("store", ok)
    /\ joined' = attempt
    /\ joining' = FALSE /\ failed' = 0
    /\ RescheduleMessages
    /\ doing' = Idle
    /\ UNCHANGED <<state, enabled, waitTxDone, vhfQueued, chipSem, desired, changePending,
                   attempt, modem, ghost>>

(* Faulty variant: the last attempt leaves, and joining stays set.          *)
OnJoinFailJoining ==
    /\ Runs /\ ~modem.resetDue /\ modem.trying # NoSession
    /\ IF failed + 1 < JoinAttempts
       THEN /\ failed' = failed + 1
            /\ UNCHANGED <<attempt, nvs, modem, faulty>>
       ELSE /\ \E ok \in Ends("leave") : Leave(ok)
            /\ attempt' = NoConfig /\ failed' = 0
    /\ UNCHANGED <<state, enabled, joining, waitTxDone, vhfQueued, chipSem, ques, desired,
                   changePending, joined, doing, ghost>>

(* on_modem_join_fail(): the last attempt stops joining.                   *)
OnJoinFail ==
    /\ Runs /\ ~modem.resetDue /\ modem.trying # NoSession
    /\ IF failed + 1 < JoinAttempts
       THEN /\ failed' = failed + 1
            /\ UNCHANGED <<joining, attempt, nvs, modem, faulty>>
       ELSE /\ \E ok \in Ends("leave") : Leave(ok)
            /\ joining' = FALSE /\ attempt' = NoConfig /\ failed' = 0
    /\ UNCHANGED <<state, enabled, waitTxDone, vhfQueued, chipSem, ques, desired,
                   changePending, joined, doing, ghost>>

OnTxDone ==
    /\ Runs /\ ~modem.resetDue /\ waitTxDone
    /\ waitTxDone' = FALSE
    /\ UNCHANGED <<state, enabled, joining, failed, vhfQueued, chipSem, ques, confs, doing, nvs,
                   modem, ghost, faulty>>

Thread ==
    \/ HandleEvent \/ DeleteRecord \/ Configure \/ JoinNetwork \/ InitEngine
    \/ OnResetFails \/ OnResetNoSession \/ OnResetRestored \/ OnResetMismatch \/ OnJoined
JoinEnds == JoinAccepted \/ OnJoinFail

-----------------------------------------------------------------------------
(* The other threads                                                       *)

Posts(e) == eventQue' = PutEvent(eventQue, e)

(* init_lr(): the initial settings set no latch.                           *)
InitLr ==
    /\ desired = NoConfig
    /\ desired' = nvs.setting
    /\ Posts(Post("start"))
    /\ nvs' = [nvs EXCEPT !.session = IF @ = NoSession THEN @ ELSE Session(@.cfg, @.cfg = nvs.setting)]
    /\ UNCHANGED <<flags, msgQue, changePending, attempt, joined, doing, modem, ghost, faulty>>

(* lorawan_send_message()                                                  *)
SendMessage ==
    /\ desired # NoConfig /\ made.messages < MaxMessages
    /\ \E join \in BOOLEAN : Posts(Message(made.messages + 1, join))
    /\ made' = [made EXCEPT !.messages = @ + 1]
    /\ UNCHANGED <<flags, msgQue, confs, doing, nvs, modem, uplinks, faulty>>

(* The callers ask for a scan or an S-band message only while enabled and  *)
(* not joining, lorawan_vhf_burst() only while not enabled and joining,    *)
(* and only one at a time.  All but the suspension comes from threads that *)
(* wait for init_lr().                                                     *)
MayPost(kind) ==
    /\ kind \in {"suspend", "resume"} \/ desired # NoConfig
    /\ kind \in {"scan", "sband"} => enabled /\ ~joining
    /\ kind = "vhf" => ~(enabled /\ joining) /\ ~vhfQueued

PostCommand ==
    /\ made.commands < MaxCommands
    /\ \E kind \in Commands :
          /\ MayPost(kind)
          /\ Posts(Post(kind))
          /\ vhfQueued' = (vhfQueued \/ kind = "vhf")
    /\ made' = [made EXCEPT !.commands = @ + 1]
    /\ UNCHANGED <<state, enabled, joining, failed, waitTxDone, chipSem, msgQue, confs, doing,
                   nvs, modem, uplinks, faulty>>

(* A new setting is kept first ...                                         *)
ChangeSetting ==
    /\ made.changes < MaxChanges
    /\ \E c \in Configs \ {nvs.setting} : nvs' = [nvs EXCEPT !.setting = c]
    /\ made' = [made EXCEPT !.changes = @ + 1]
    /\ UNCHANGED <<flags, ques, confs, doing, modem, uplinks, faulty>>

(* ... and then lorawan_set_configuration() is called, which waits for the *)
(* mutex that prv_start_join() holds.                                      *)
SetConfiguration ==
    /\ desired \notin {NoConfig, nvs.setting}
    /\ desired' = nvs.setting
    /\ changePending' = TRUE
    /\ doing' = [doing EXCEPT !.params = Outdated(@)]
    /\ nvs'   = [nvs EXCEPT !.session = Outdated(@)]
    /\ modem' = [modem EXCEPT !.session = Outdated(@), !.trying = Outdated(@)]
    /\ UNCHANGED <<flags, ques, attempt, joined, ghost, faulty>>

Reboot ==
    /\ made.reboots < MaxReboots
    /\ made' = [made EXCEPT !.reboots = @ + 1]
    /\ state' = "SETUP" /\ enabled' = FALSE /\ joining' = FALSE /\ failed' = 0
    /\ waitTxDone' = FALSE /\ vhfQueued' = FALSE /\ chipSem' = FALSE
    /\ eventQue' = <<>> /\ msgQue' = <<>>
    /\ desired' = NoConfig /\ changePending' = FALSE
    /\ attempt' = NoConfig /\ joined' = NoConfig
    /\ doing' = Idle
    /\ modem' = [session |-> NoSession, trying |-> NoSession, resetDue |-> FALSE]
    /\ UNCHANGED <<nvs, uplinks, faulty>>

-----------------------------------------------------------------------------
(* The device has never joined.                                            *)
Init ==
    /\ state = "SETUP" /\ enabled = FALSE /\ joining = FALSE /\ failed = 0
    /\ waitTxDone = FALSE /\ vhfQueued = FALSE /\ chipSem = FALSE
    /\ eventQue = <<>> /\ msgQue = <<>>
    /\ desired = NoConfig /\ changePending = FALSE
    /\ attempt = NoConfig /\ joined = NoConfig
    /\ doing = Idle
    /\ nvs = [setting |-> Factory, record |-> NoConfig, session |-> NoSession]
    /\ modem = [session |-> NoSession, trying |-> NoSession, resetDue |-> FALSE]
    /\ uplinks = <<>> /\ faulty = {}
    /\ made = [messages |-> 0, commands |-> 0, changes |-> 0, reboots |-> 0]

Next ==
    \/ Thread \/ JoinEnds \/ OnTxDone
    \/ InitLr \/ SendMessage \/ PostCommand \/ ChangeSetting \/ SetConfiguration \/ Reboot

Spec == Init /\ [][Next]_vars

(* The thread runs its loop, the modem ends what it is at, and whoever     *)
(* changed the settings applies them.  Nobody is bound to post anything.   *)
FairSpec ==
    /\ Spec
    /\ WF_vars(Thread) /\ WF_vars(JoinEnds) /\ WF_vars(OnTxDone)
    /\ WF_vars(InitLr) /\ WF_vars(SetConfiguration)
-----------------------------------------------------------------------------
(* Properties                                                              *)

Sessions == [cfg : Configs \cup {NoConfig}, fresh : BOOLEAN]
Entries  == [kind : {"message", "start", "leave", "reset", "suspend", "resume", "none"} \cup Jobs,
             id : Nat, join : BOOLEAN]

(* Every variable keeps its shape, the queues their bounds, and the count  *)
(* of failed attempts stays below the limit.                               *)
TypeOK ==
    /\ state \in {"SETUP", "INIT", "ENGINE", "SUSPENDED"}
    /\ {enabled, joining, waitTxDone, vhfQueued, chipSem, changePending} \subseteq BOOLEAN
    /\ failed \in 0 .. JoinAttempts - 1
    /\ eventQue \in Seq(Entries) /\ Len(eventQue) <= EventQueMax
    /\ msgQue \in Seq(Entries) /\ Len(msgQue) <= MsgQueMax
    /\ {desired, attempt, joined} \subseteq Configs \cup {NoConfig}
    /\ doing \in [at : {"idle", "delete", "configure", "join", "joined"}, msg : Entries,
                  params : Sessions, latched : BOOLEAN]
    /\ nvs \in [setting : Configs, record : Configs \cup {NoConfig}, session : Sessions]
    /\ modem \in [session : Sessions, trying : Sessions, resetDue : BOOLEAN]
    /\ uplinks \in Seq(Nat) /\ faulty \subseteq Calls
    /\ made \in [messages : Nat, commands : Nat, changes : Nat, reboots : Nat]

(* Only the settings vouch for a session: in the flash, the identity       *)
(* record never names other settings than those the session was joined     *)
(* with, wherever a join, a leave, a change of settings or a power loss    *)
(* interrupts another.  A wrong record would resume a session of another   *)
(* network, and keep the device from joining the one it was moved to.      *)
RecordMatchesSession ==
    (nvs.record # NoConfig /\ nvs.session # NoSession) => nvs.record = nvs.session.cfg

(* lorawan.h, lorawan_set_configuration(): "The next uplink starts a new   *)
(* join even if the setting is changed back before that uplink."  Since    *)
(* the boot, no uplink uses a session that was joined before the settings  *)
(* changed, unless the modem failed to start.                              *)
UplinkOnFreshSession ==
    [][uplinks' # uplinks => modem.session.fresh \/ "info" \in faulty]_vars

(* lorawan.h, lorawan_joining_status(): "Check if we are in the middle of  *)
(* the joining process."  Scans and bursts are held back by this flag: it  *)
(* is set exactly while the modem joins, unless it refused to leave, or    *)
(* the callback that ends the join is under way.                           *)
JoiningIsKnown ==
    (doing.at # "joined" /\ "leave" \notin faulty) => (joining <=> modem.trying # NoSession)

(* A join ends, well or badly, unless the modem is suspended: a device     *)
(* that believed to be joining forever would neither scan nor burst.       *)
JoinSettles == joining ~> (~joining \/ state = "SUSPENDED")

(* A message leaves the queues only for the modem, into a full queue, or   *)
(* because LoRaWAN is disabled; no failed leave or join loses it.          *)
IdsIn(que) == {m.id : m \in Range(que)} \ {0}
Kept       == IdsIn(eventQue) \cup IdsIn(msgQue) \cup ({doing.msg.id} \ {0})
Handed     == Range(uplinks)
QueueFull  == Len(eventQue) = EventQueMax \/ Len(msgQue) = MsgQueMax

OnlyFullQueuesLose ==
    [][(enabled /\ made'.reboots = made.reboots)
          => \/ Kept \subseteq (Kept \cup Handed)'
             \/ QueueFull']_vars

(* No message is handed to the modem twice, although it may wait in both   *)
(* queues in turn, and across several joins.                               *)
HandedOnce == \A i, j \in DOMAIN uplinks : uplinks[i] = uplinks[j] => i = j

(* A message that meets a pending change starts the join that clears it,   *)
(* unless the modem stops, a call failed, or the queue overflows.          *)
Stopped == state # "ENGINE" \/ ~enabled
Rejoins ==
    (changePending /\ eventQue # <<>> /\ Event.kind = "message")
        ~> (~changePending \/ Stopped \/ faulty # {} \/ Len(eventQue) = EventQueMax)
=============================================================================
