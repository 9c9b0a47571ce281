--------------------------- MODULE Lp0Radio_proofs ---------------------------
(***************************************************************************)
(* Proofs about Lp0Radio for every size of the queues, every length of an  *)
(* offload, and whatever happens from outside.                             *)
(***************************************************************************)
EXTENDS Lp0Radio, SequenceTheorems, TLAPS

-----------------------------------------------------------------------------
(* Queues                                                                  *)

(* Putting an entry keeps a queue typed and within its bound.              *)
LEMMA PutLemma ==
    ASSUME NEW S, NEW que \in Seq(S), NEW e \in S, NEW max \in Nat \ {0}, Len(que) <= max
    PROVE  /\ Newest(Append(que, e), max) \in Seq(S)
           /\ Len(Newest(Append(que, e), max)) <= max
<1> DEFINE q == Append(que, e)
<1>1. q \in Seq(S) /\ Len(q) = Len(que) + 1 /\ Len(que) \in Nat
  BY AppendProperties, LenProperties
<1>2. q # <<>>
  BY <1>1, EmptySeq
<1>3. Tail(q) \in Seq(S) /\ Len(Tail(q)) = Len(q) - 1
  BY <1>1, <1>2, HeadTailProperties
<1> HIDE DEF q
<1> QED BY <1>1, <1>3 DEF Newest

(* Taking one does, too.                                                   *)
LEMMA TakeLemma ==
    ASSUME NEW S, NEW que \in Seq(S), NEW max \in Nat, que # <<>>, Len(que) <= max
    PROVE  /\ Head(que) \in S /\ Tail(que) \in Seq(S) /\ Len(Tail(que)) <= max
BY HeadTailProperties, LenProperties

-----------------------------------------------------------------------------
(* Type correctness                                                        *)

(* The type invariant in parts, for the provers take one at a time.        *)
Lp0Events   == {"message", "discover", "set", "fill"}
LrEvents    == {"suspend", "resume", "job", "uplink"}
FlashEvents == {"store", "getall"}

ModeTyped == mode \in AllModes
Lp0Typed ==
    /\ lp0 \in [at : {"loop", "events", "suspending", "transmit", "window1", "window2",
                     "fill", "transfer", "offload", "station"},
               job : {"none", "message", "ping", "station"}, boot : BOOLEAN,
               suspended : BOOLEAN, offload : 0 .. 2, fill : 0 .. FillCount]
    /\ ping \in BOOLEAN /\ role \in Roles
Lp0QueTyped == lp0Que \in Seq(Lp0Events) /\ Len(lp0Que) <= Lp0QueMax
LrQueTyped == lrQue \in Seq(LrEvents) /\ Len(lrQue) <= LrQueMax
FlashQueTyped == flashQue \in Seq(FlashEvents) /\ Len(flashQue) <= FlashQueMax
RadioTyped ==
    task \in {"IDLE", "TX", "LISTEN", "RX"} /\ air \in BOOLEAN /\ irq \in 0 .. FillCount
SemTyped == sem \in [Semaphores -> {0, 1}]
LrTyped ==
    lr \in [state : {"ENGINE", "SUSPENDED"}, enabled : BOOLEAN, on : BOOLEAN,
           at : {"idle", "retake", "job"}, txWait : BOOLEAN]
FlashTyped ==
    /\ flash \in [at : {"idle", "start", "send", "sent"}, left : 0 .. Payloads]
    /\ paused \in BOOLEAN /\ gps \in {"idle", "wait", "fix"}
UpsetTyped ==
    upset \subseteq {"dropped", "purged", "lost", "open", "fault", "job", "fix",
                     "stale", "mode", "boot", "twice"}
LeftTyped == left \in 0 .. Bound

LEMMA Parts ==
    TypeOK <=> /\ ModeTyped /\ Lp0Typed /\ Lp0QueTyped /\ LrQueTyped
               /\ FlashQueTyped /\ RadioTyped /\ SemTyped /\ LrTyped
               /\ FlashTyped /\ UpsetTyped /\ LeftTyped
BY DEF TypeOK, ModeTyped, Lp0Typed, Lp0QueTyped, LrQueTyped, FlashQueTyped,
       RadioTyped, SemTyped, LrTyped, FlashTyped, UpsetTyped, LeftTyped,
       Lp0Events, LrEvents, FlashEvents

(* The sizes, one by one.                                                  *)
LEMMA Sizes ==
    /\ LrQueMax \in Nat \ {0} /\ Lp0QueMax \in Nat \ {0} /\ FlashQueMax \in Nat \ {0}
    /\ FillCount \in Nat \ {0} /\ Payloads \in Nat /\ Bound \in Nat
    /\ 0 \in 0 .. FillCount /\ FillCount \in 0 .. FillCount
BY SizeAssumption, InputAssumption

LEMMA OksBoolean == Oks \subseteq BOOLEAN
BY DEF Oks

(* A call that fails is paid for.                                          *)
LEMMA SpendsTyped ==
    ASSUME LeftTyped, NEW ok \in Oks, Spends(ok)
    PROVE  LeftTyped'
<1>1. ok = TRUE \/ left > 0
  BY DEF Oks
<1>2. CASE ok = TRUE
  BY <1>2 DEF LeftTyped, Spends
<1>3. CASE left > 0
  BY <1>3, Sizes DEF LeftTyped, Spends
<1> QED BY <1>1, <1>2, <1>3

(* Putting and taking keep each queue typed.                               *)
LEMMA PutLp0Typed ==
    ASSUME Lp0QueTyped, NEW e \in Lp0Events, PutLp0(e)
    PROVE  Lp0QueTyped'
BY PutLemma, SizeAssumption DEF Lp0QueTyped, PutLp0

LEMMA PutLorawanTyped ==
    ASSUME LrQueTyped, NEW e \in LrEvents, PutLorawan(e)
    PROVE  LrQueTyped'
BY PutLemma, SizeAssumption DEF LrQueTyped, PutLorawan

LEMMA PutFlashTyped ==
    ASSUME FlashQueTyped, NEW e \in FlashEvents, PutFlash(e)
    PROVE  FlashQueTyped'
<1>1. FlashQueMax \in Nat \ {0} /\ Len(flashQue) \in Nat
  BY SizeAssumption, LenProperties DEF FlashQueTyped
<1>2. Append(flashQue, e) \in Seq(FlashEvents) /\ Len(Append(flashQue, e)) = Len(flashQue) + 1
  BY AppendProperties DEF FlashQueTyped
<1>3. <<e>> \in Seq(FlashEvents) /\ Len(<<e>>) = 1
  OBVIOUS
<1> QED BY <1>1, <1>2, <1>3 DEF FlashQueTyped, PutFlash

LEMMA HandlesTyped ==
    ASSUME Lp0QueTyped, NEW e, Handles(e)
    PROVE  Lp0QueTyped'
BY TakeLemma, SizeAssumption DEF Lp0QueTyped, Handles

LEMMA TakeEventTyped ==
    ASSUME LrQueTyped, NEW e, TakeEvent(e)
    PROVE  LrQueTyped'
BY TakeLemma, SizeAssumption DEF LrQueTyped, TakeEvent, Ready

LEMMA NextForTyped ==
    ASSUME FlashQueTyped, NEW e, NextFor(e)
    PROVE  FlashQueTyped'
BY TakeLemma, SizeAssumption DEF FlashQueTyped, NextFor

(* The flash thread waits for the end of a payload only after it sent one: *)
(* without this its count of payloads left could fall below zero.          *)
Sending == flash.at = "sent" => flash.left > 0

(* The mode.                                                               *)
LEMMA ModeStep ==
    ASSUME TypeOK, Sending, [Next]_vars
    PROVE  ModeTyped'
<1>0. ModeTyped /\ LeftTyped
  BY Parts
<1>1. ASSUME Acknowledged PROVE ModeTyped'
  BY <1>0, <1>1
  DEF ModeTyped, DeviceReceives, Acknowledged, AllModes
<1>2. ASSUME Boot PROVE ModeTyped'
  BY <1>0, <1>2
  DEF ModeTyped, Boot, AllModes
<1>3. ASSUME Setup PROVE ModeTyped'
  BY <1>0, <1>3
  DEF ModeTyped, Setup, AllModes
<1>4. ASSUME RoleChanged PROVE ModeTyped'
  BY <1>0, <1>4
  DEF ModeTyped, RoleChanged, AllModes
<1>5. ASSUME HandleSetMode PROVE ModeTyped'
  BY <1>0, <1>5, InputAssumption
  DEF ModeTyped, HandleSetMode, AllModes
<1>6. ASSUME FillStored PROVE ModeTyped'
  BY <1>0, <1>6
  DEF ModeTyped, ModeAfterHandler, FillStored, AllModes
<1>7. ASSUME EndUse PROVE ModeTyped'
  BY <1>0, <1>7
  DEF ModeTyped, ModeAfterHandler, EndUse, AllModes
<1>8. ASSUME EndTransfer PROVE ModeTyped'
  BY <1>0, <1>8
  DEF ModeTyped, EndTransfer, AllModes
<1>9. ASSUME SetMode PROVE ModeTyped'
  BY <1>0, <1>9, InputAssumption
  DEF ModeTyped, SetMode, AllModes
<1>10. ASSUME LorawanSuspend \/ LorawanResume \/ LorawanRetake \/ LorawanJob
            \/ LorawanJobEnds \/ LorawanMessage \/ LorawanTxDone \/ TxDone
            \/ RxTimeout \/ RxError \/ StationAnswers \/ StationStores
            \/ ReceivedOther \/ FillReceived \/ IrqStored \/ WaitForEvent
            \/ HandleMessage \/ HandleFill \/ Discover \/ StationDiscovery
            \/ BeginTransmit \/ BeginStation \/ OpenWindow1 \/ OpenWindow2
            \/ BeginTransfer \/ TransferSuspended \/ EndStation \/ FlashStore
            \/ FlashGetAll \/ OffloadStarts \/ FlashSends \/ FlashSent
            \/ OffloadOver \/ GpsStart \/ GpsFix \/ GpsResume \/ Lp0Event
            \/ PingTimer \/ LorawanEvent \/ SetRole \/ Store \/ GateExpires
            \/ UNCHANGED vars
      PROVE  ModeTyped'
  BY <1>0, <1>10
  DEF ModeTyped, LorawanSuspend, LorawanResume, LorawanRetake, LorawanJob,
      LorawanJobEnds, LorawanMessage, LorawanTxDone, TxDone, RxTimeout,
      RxError, StationAnswers, StationStores, ReceivedOther, FillReceived,
      IrqStored, WaitForEvent, HandleMessage, HandleFill, Discover,
      StationDiscovery, BeginTransmit, BeginStation, OpenWindow1, OpenWindow2,
      BeginTransfer, TransferSuspended, EndStation, FlashStore, FlashGetAll,
      OffloadStarts, FlashSends, FlashSent, OffloadOver, GpsStart, GpsFix,
      GpsResume, Lp0Event, PingTimer, LorawanEvent, SetRole, Store,
      GateExpires, vars, lp0vars, radio, lrvars, flashvars
<1> QED
  BY <1>1, <1>2, <1>3, <1>4, <1>5, <1>6, <1>7, <1>8, <1>9, <1>10
  DEF Next, LorawanThread, IrqThread, Lp0Thread, FlashThread, GpsThread,
      Outside

(* The LP0 thread, its timer and its role.                                 *)
LEMMA Lp0Step ==
    ASSUME TypeOK, Sending, [Next]_vars
    PROVE  Lp0Typed'
<1>0. Lp0Typed /\ LeftTyped
  BY Parts
<1>1. ASSUME Acknowledged PROVE Lp0Typed'
  BY <1>0, <1>1
  DEF Lp0Typed, Acknowledged
<1>2. ASSUME IrqStored PROVE Lp0Typed'
  BY <1>0, <1>2
  DEF Lp0Typed, IrqStored
<1>3. ASSUME WaitForEvent PROVE Lp0Typed'
  BY <1>0, <1>3
  DEF Lp0Typed, WaitForEvent
<1>4. ASSUME Boot PROVE Lp0Typed'
  BY <1>0, <1>4
  DEF Lp0Typed, Loop, Boot
<1>5. ASSUME Setup PROVE Lp0Typed'
  BY <1>0, <1>5, RoleAssumption
  DEF Lp0Typed, Setup
<1>6. ASSUME HandleMessage PROVE Lp0Typed'
  BY <1>0, <1>6
  DEF Lp0Typed, AskForRadio, Handles, HandleMessage
<1>7. ASSUME HandleSetMode PROVE Lp0Typed'
  BY <1>0, <1>7
  DEF Lp0Typed, Loop, Handles, HandleSetMode
<1>8. ASSUME HandleFill PROVE Lp0Typed'
  BY <1>0, <1>8, Sizes
  DEF Lp0Typed, Handles, HandleFill
<1>9. ASSUME FillStored PROVE Lp0Typed'
  <2>1. lp0.fill > 1 => lp0.fill - 1 \in 0 .. FillCount
    BY <1>0, Sizes DEF Lp0Typed
  <2>2. CASE lp0.fill > 1
    <3>1. lp0' = [lp0 EXCEPT !.fill = lp0.fill - 1] /\ UNCHANGED <<ping, role>>
      BY <1>9, <2>2 DEF FillStored
    <3> QED BY <1>0, <2>1, <2>2, <3>1 DEF Lp0Typed
  <2>3. CASE ~(lp0.fill > 1)
    <3>1. lp0' = [Loop EXCEPT !.fill = 0] /\ UNCHANGED <<ping, role>>
      BY <1>9, <2>3 DEF FillStored
    <3> QED BY <1>0, <3>1, Sizes DEF Lp0Typed, Loop
  <2> QED BY <2>2, <2>3
<1>10. ASSUME Discover PROVE Lp0Typed'
  BY <1>0, <1>10
  DEF Lp0Typed, AskForRadio, Discover
<1>11. ASSUME StationDiscovery PROVE Lp0Typed'
  BY <1>0, <1>11
  DEF Lp0Typed, AskForRadio, StationDiscovery
<1>12. ASSUME BeginTransmit PROVE Lp0Typed'
  BY <1>0, <1>12
  DEF Lp0Typed, BeginTransmit
<1>13. ASSUME BeginStation PROVE Lp0Typed'
  BY <1>0, <1>13
  DEF Lp0Typed, BeginStation
<1>14. ASSUME OpenWindow1 PROVE Lp0Typed'
  BY <1>0, <1>14
  DEF Lp0Typed, OpenWindow1
<1>15. ASSUME OpenWindow2 PROVE Lp0Typed'
  BY <1>0, <1>15
  DEF Lp0Typed, OpenWindow2
<1>16. ASSUME EndUse PROVE Lp0Typed'
  BY <1>0, <1>16
  DEF Lp0Typed, Loop, EndUse
<1>17. ASSUME BeginTransfer PROVE Lp0Typed'
  BY <1>0, <1>17
  DEF Lp0Typed, BeginTransfer
<1>18. ASSUME TransferSuspended PROVE Lp0Typed'
  BY <1>0, <1>18
  DEF Lp0Typed, TransferSuspended
<1>19. ASSUME EndTransfer PROVE Lp0Typed'
  BY <1>0, <1>19
  DEF Lp0Typed, Loop, EndTransfer
<1>20. ASSUME EndStation PROVE Lp0Typed'
  BY <1>0, <1>20
  DEF Lp0Typed, Loop, EndStation
<1>21. ASSUME PingTimer PROVE Lp0Typed'
  BY <1>0, <1>21
  DEF Lp0Typed, PingTimer
<1>22. ASSUME SetRole PROVE Lp0Typed'
  BY <1>0, <1>22, RoleAssumption
  DEF Lp0Typed, SetRole
<1>23. ASSUME LorawanSuspend \/ LorawanResume \/ LorawanRetake \/ LorawanJob
            \/ LorawanJobEnds \/ LorawanMessage \/ LorawanTxDone \/ TxDone
            \/ RxTimeout \/ RxError \/ StationAnswers \/ StationStores
            \/ ReceivedOther \/ FillReceived \/ RoleChanged \/ FlashStore
            \/ FlashGetAll \/ OffloadStarts \/ FlashSends \/ FlashSent
            \/ OffloadOver \/ GpsStart \/ GpsFix \/ GpsResume \/ Lp0Event
            \/ LorawanEvent \/ SetMode \/ Store \/ GateExpires
            \/ UNCHANGED vars
      PROVE  Lp0Typed'
  BY <1>0, <1>23
  DEF Lp0Typed, LorawanSuspend, LorawanResume, LorawanRetake, LorawanJob,
      LorawanJobEnds, LorawanMessage, LorawanTxDone, TxDone, RxTimeout,
      RxError, StationAnswers, StationStores, ReceivedOther, FillReceived,
      RoleChanged, FlashStore, FlashGetAll, OffloadStarts, FlashSends,
      FlashSent, OffloadOver, GpsStart, GpsFix, GpsResume, Lp0Event,
      LorawanEvent, SetMode, Store, GateExpires, vars, lp0vars, radio, lrvars,
      flashvars
<1> QED
  BY <1>1, <1>2, <1>3, <1>4, <1>5, <1>6, <1>7, <1>8, <1>9, <1>10, <1>11, <1>12, <1>13, <1>14, <1>15, <1>16, <1>17, <1>18, <1>19, <1>20, <1>21, <1>22, <1>23
  DEF Next, LorawanThread, IrqThread, Lp0Thread, FlashThread, GpsThread,
      Outside

(* The events of LP0.                                                      *)
LEMMA Lp0QueStep ==
    ASSUME TypeOK, Sending, [Next]_vars
    PROVE  Lp0QueTyped'
<1>0. Lp0QueTyped /\ LeftTyped
  BY Parts
<1>1. ASSUME HandleMessage PROVE Lp0QueTyped'
  BY <1>0, <1>1, HandlesTyped
  DEF Lp0QueTyped, radio, flashvars, AskForRadio, HandleMessage, Lp0Events,
      LrEvents, FlashEvents
<1>2. ASSUME HandleSetMode PROVE Lp0QueTyped'
  BY <1>0, <1>2, HandlesTyped
  DEF Lp0QueTyped, radio, lrvars, flashvars, HandleSetMode, Lp0Events,
      LrEvents, FlashEvents
<1>3. ASSUME HandleFill PROVE Lp0QueTyped'
  BY <1>0, <1>3, HandlesTyped
  DEF Lp0QueTyped, radio, lrvars, HandleFill, Lp0Events, LrEvents, FlashEvents
<1>4. ASSUME Lp0Event PROVE Lp0QueTyped'
  BY <1>0, <1>4, PutLp0Typed
  DEF Lp0QueTyped, radio, lrvars, flashvars, Lp0Event, Lp0Events, LrEvents,
      FlashEvents
<1>5. ASSUME PingTimer PROVE Lp0QueTyped'
  BY <1>0, <1>5, AppendProperties, LenProperties, Sizes
  DEF Lp0QueTyped, radio, lrvars, flashvars, PingTimer, Lp0Events, LrEvents,
      FlashEvents
<1>6. ASSUME LorawanSuspend \/ LorawanResume \/ LorawanRetake \/ LorawanJob
            \/ LorawanJobEnds \/ LorawanMessage \/ LorawanTxDone \/ TxDone
            \/ RxTimeout \/ RxError \/ StationAnswers \/ StationStores
            \/ Acknowledged \/ ReceivedOther \/ FillReceived \/ IrqStored
            \/ WaitForEvent \/ Boot \/ Setup \/ RoleChanged \/ FillStored
            \/ Discover \/ StationDiscovery \/ BeginTransmit \/ BeginStation
            \/ OpenWindow1 \/ OpenWindow2 \/ EndUse \/ BeginTransfer
            \/ TransferSuspended \/ EndTransfer \/ EndStation \/ FlashStore
            \/ FlashGetAll \/ OffloadStarts \/ FlashSends \/ FlashSent
            \/ OffloadOver \/ GpsStart \/ GpsFix \/ GpsResume \/ LorawanEvent
            \/ SetMode \/ SetRole \/ Store \/ GateExpires \/ UNCHANGED vars
      PROVE  Lp0QueTyped'
  BY <1>0, <1>6
  DEF Lp0QueTyped, LorawanSuspend, LorawanResume, LorawanRetake, LorawanJob,
      LorawanJobEnds, LorawanMessage, LorawanTxDone, TxDone, RxTimeout,
      RxError, StationAnswers, StationStores, Acknowledged, ReceivedOther,
      FillReceived, IrqStored, WaitForEvent, Boot, Setup, RoleChanged,
      FillStored, Discover, StationDiscovery, BeginTransmit, BeginStation,
      OpenWindow1, OpenWindow2, EndUse, BeginTransfer, TransferSuspended,
      EndTransfer, EndStation, FlashStore, FlashGetAll, OffloadStarts,
      FlashSends, FlashSent, OffloadOver, GpsStart, GpsFix, GpsResume,
      LorawanEvent, SetMode, SetRole, Store, GateExpires, vars, lp0vars,
      radio, lrvars, flashvars
<1> QED
  BY <1>1, <1>2, <1>3, <1>4, <1>5, <1>6
  DEF Next, LorawanThread, IrqThread, Lp0Thread, FlashThread, GpsThread,
      Outside

(* The events of the LoRaWAN thread.                                       *)
LEMMA LrQueStep ==
    ASSUME TypeOK, Sending, [Next]_vars
    PROVE  LrQueTyped'
<1>0. LrQueTyped /\ LeftTyped
  BY Parts
<1>1. ASSUME LorawanSuspend PROVE LrQueTyped'
  BY <1>0, <1>1, TakeEventTyped
  DEF LrQueTyped, lp0vars, radio, flashvars, LorawanSuspend, Lp0Events,
      LrEvents, FlashEvents
<1>2. ASSUME LorawanResume PROVE LrQueTyped'
  BY <1>0, <1>2, TakeEventTyped
  DEF LrQueTyped, lp0vars, radio, flashvars, LorawanResume, Lp0Events,
      LrEvents, FlashEvents
<1>3. ASSUME LorawanJob PROVE LrQueTyped'
  BY <1>0, <1>3, TakeEventTyped
  DEF LrQueTyped, lp0vars, radio, flashvars, LorawanJob, Lp0Events, LrEvents,
      FlashEvents
<1>4. ASSUME LorawanMessage PROVE LrQueTyped'
  BY <1>0, <1>4, TakeEventTyped
  DEF LrQueTyped, lp0vars, radio, flashvars, LorawanMessage, Lp0Events,
      LrEvents, FlashEvents
<1>5. ASSUME HandleMessage PROVE LrQueTyped'
  BY <1>0, <1>5, PutLorawanTyped
  DEF LrQueTyped, radio, flashvars, AskForRadio, HandleMessage, Lp0Events,
      LrEvents, FlashEvents
<1>6. ASSUME Discover PROVE LrQueTyped'
  BY <1>0, <1>6, PutLorawanTyped
  DEF LrQueTyped, radio, flashvars, AskForRadio, Discover, Lp0Events,
      LrEvents, FlashEvents
<1>7. ASSUME StationDiscovery PROVE LrQueTyped'
  BY <1>0, <1>7, PutLorawanTyped
  DEF LrQueTyped, radio, flashvars, AskForRadio, StationDiscovery, Lp0Events,
      LrEvents, FlashEvents
<1>8. ASSUME EndUse PROVE LrQueTyped'
  BY <1>0, <1>8, PutLorawanTyped
  DEF LrQueTyped, radio, flashvars, EndUse, Lp0Events, LrEvents, FlashEvents
<1>9. ASSUME BeginTransfer PROVE LrQueTyped'
  BY <1>0, <1>9, PutLorawanTyped
  DEF LrQueTyped, radio, flashvars, BeginTransfer, Lp0Events, LrEvents,
      FlashEvents
<1>10. ASSUME EndTransfer PROVE LrQueTyped'
  BY <1>0, <1>10, PutLorawanTyped
  DEF LrQueTyped, radio, flashvars, EndTransfer, Lp0Events, LrEvents,
      FlashEvents
<1>11. ASSUME EndStation PROVE LrQueTyped'
  BY <1>0, <1>11, PutLorawanTyped
  DEF LrQueTyped, radio, flashvars, EndStation, Lp0Events, LrEvents,
      FlashEvents
<1>12. ASSUME GpsStart PROVE LrQueTyped'
  BY <1>0, <1>12, PutLorawanTyped
  DEF LrQueTyped, lp0vars, radio, flashvars, GpsStart, Lp0Events, LrEvents,
      FlashEvents
<1>13. ASSUME GpsResume PROVE LrQueTyped'
  BY <1>0, <1>13, PutLorawanTyped
  DEF LrQueTyped, lp0vars, radio, flashvars, GpsResume, Lp0Events, LrEvents,
      FlashEvents
<1>14. ASSUME LorawanEvent PROVE LrQueTyped'
  BY <1>0, <1>14, PutLorawanTyped
  DEF LrQueTyped, lp0vars, radio, flashvars, LorawanEvent, Lp0Events,
      LrEvents, FlashEvents
<1>15. ASSUME LorawanRetake \/ LorawanJobEnds \/ LorawanTxDone \/ TxDone
            \/ RxTimeout \/ RxError \/ StationAnswers \/ StationStores
            \/ Acknowledged \/ ReceivedOther \/ FillReceived \/ IrqStored
            \/ WaitForEvent \/ Boot \/ Setup \/ RoleChanged \/ HandleSetMode
            \/ HandleFill \/ FillStored \/ BeginTransmit \/ BeginStation
            \/ OpenWindow1 \/ OpenWindow2 \/ TransferSuspended \/ FlashStore
            \/ FlashGetAll \/ OffloadStarts \/ FlashSends \/ FlashSent
            \/ OffloadOver \/ GpsFix \/ Lp0Event \/ PingTimer \/ SetMode
            \/ SetRole \/ Store \/ GateExpires \/ UNCHANGED vars
      PROVE  LrQueTyped'
  BY <1>0, <1>15
  DEF LrQueTyped, LorawanRetake, LorawanJobEnds, LorawanTxDone, TxDone,
      RxTimeout, RxError, StationAnswers, StationStores, Acknowledged,
      ReceivedOther, FillReceived, IrqStored, WaitForEvent, Boot, Setup,
      RoleChanged, HandleSetMode, HandleFill, FillStored, BeginTransmit,
      BeginStation, OpenWindow1, OpenWindow2, TransferSuspended, FlashStore,
      FlashGetAll, OffloadStarts, FlashSends, FlashSent, OffloadOver, GpsFix,
      Lp0Event, PingTimer, SetMode, SetRole, Store, GateExpires, vars,
      lp0vars, radio, lrvars, flashvars
<1> QED
  BY <1>1, <1>2, <1>3, <1>4, <1>5, <1>6, <1>7, <1>8, <1>9, <1>10, <1>11, <1>12, <1>13, <1>14, <1>15
  DEF Next, LorawanThread, IrqThread, Lp0Thread, FlashThread, GpsThread,
      Outside

(* The messages of the flash thread.                                       *)
LEMMA FlashQueStep ==
    ASSUME TypeOK, Sending, [Next]_vars
    PROVE  FlashQueTyped'
<1>0. FlashQueTyped /\ LeftTyped
  BY Parts
<1>1. ASSUME Acknowledged PROVE FlashQueTyped'
  BY <1>0, <1>1, PutFlashTyped
  DEF FlashQueTyped, lrvars, Interrupt, Receives, DeviceReceives,
      Acknowledged, Lp0Events, LrEvents, FlashEvents
<1>2. ASSUME FillReceived PROVE FlashQueTyped'
  BY <1>0, <1>2, PutFlashTyped
  DEF FlashQueTyped, lp0vars, lrvars, Interrupt, Receives, DeviceReceives,
      FillReceived, Lp0Events, LrEvents, FlashEvents
<1>3. ASSUME IrqStored PROVE FlashQueTyped'
  BY <1>0, <1>3, PutFlashTyped
  DEF FlashQueTyped, lrvars, IrqStored, Lp0Events, LrEvents, FlashEvents
<1>4. ASSUME HandleFill PROVE FlashQueTyped'
  BY <1>0, <1>4, PutFlashTyped
  DEF FlashQueTyped, radio, lrvars, HandleFill, Lp0Events, LrEvents,
      FlashEvents
<1>5. ASSUME FillStored PROVE FlashQueTyped'
  BY <1>0, <1>5, PutFlashTyped
  DEF FlashQueTyped, radio, lrvars, FillStored, Lp0Events, LrEvents,
      FlashEvents
<1>6. ASSUME FlashStore PROVE FlashQueTyped'
  BY <1>0, <1>6, NextForTyped
  DEF FlashQueTyped, lp0vars, radio, lrvars, FlashStore, Lp0Events, LrEvents,
      FlashEvents
<1>7. ASSUME FlashGetAll PROVE FlashQueTyped'
  BY <1>0, <1>7, NextForTyped
  DEF FlashQueTyped, lp0vars, radio, lrvars, FlashGetAll, Lp0Events, LrEvents,
      FlashEvents
<1>8. ASSUME Store PROVE FlashQueTyped'
  BY <1>0, <1>8, PutFlashTyped
  DEF FlashQueTyped, lp0vars, radio, lrvars, Store, Lp0Events, LrEvents,
      FlashEvents
<1>9. ASSUME LorawanSuspend \/ LorawanResume \/ LorawanRetake \/ LorawanJob
            \/ LorawanJobEnds \/ LorawanMessage \/ LorawanTxDone \/ TxDone
            \/ RxTimeout \/ RxError \/ StationAnswers \/ StationStores
            \/ ReceivedOther \/ WaitForEvent \/ Boot \/ Setup \/ RoleChanged
            \/ HandleMessage \/ HandleSetMode \/ Discover \/ StationDiscovery
            \/ BeginTransmit \/ BeginStation \/ OpenWindow1 \/ OpenWindow2
            \/ EndUse \/ BeginTransfer \/ TransferSuspended \/ EndTransfer
            \/ EndStation \/ OffloadStarts \/ FlashSends \/ FlashSent
            \/ OffloadOver \/ GpsStart \/ GpsFix \/ GpsResume \/ Lp0Event
            \/ PingTimer \/ LorawanEvent \/ SetMode \/ SetRole \/ GateExpires
            \/ UNCHANGED vars
      PROVE  FlashQueTyped'
  BY <1>0, <1>9
  DEF FlashQueTyped, LorawanSuspend, LorawanResume, LorawanRetake, LorawanJob,
      LorawanJobEnds, LorawanMessage, LorawanTxDone, TxDone, RxTimeout,
      RxError, StationAnswers, StationStores, ReceivedOther, WaitForEvent,
      Boot, Setup, RoleChanged, HandleMessage, HandleSetMode, Discover,
      StationDiscovery, BeginTransmit, BeginStation, OpenWindow1, OpenWindow2,
      EndUse, BeginTransfer, TransferSuspended, EndTransfer, EndStation,
      OffloadStarts, FlashSends, FlashSent, OffloadOver, GpsStart, GpsFix,
      GpsResume, Lp0Event, PingTimer, LorawanEvent, SetMode, SetRole,
      GateExpires, vars, lp0vars, radio, lrvars, flashvars
<1> QED
  BY <1>1, <1>2, <1>3, <1>4, <1>5, <1>6, <1>7, <1>8, <1>9
  DEF Next, LorawanThread, IrqThread, Lp0Thread, FlashThread, GpsThread,
      Outside

(* The task of the radio.                                                  *)
LEMMA RadioStep ==
    ASSUME TypeOK, Sending, [Next]_vars
    PROVE  RadioTyped'
<1>0. RadioTyped /\ LeftTyped
  BY Parts
<1>1. ASSUME TxDone PROVE RadioTyped'
  BY <1>0, <1>1
  DEF RadioTyped, EndTask, Interrupt, TxDone
<1>2. ASSUME RxTimeout PROVE RadioTyped'
  BY <1>0, <1>2, OksBoolean
  DEF RadioTyped, EndTask, Interrupt, Again, RxTimeout
<1>3. ASSUME RxError PROVE RadioTyped'
  BY <1>0, <1>3
  DEF RadioTyped, EndTask, Interrupt, Receives, DeviceReceives,
      StationReceives, RxError
<1>4. ASSUME StationAnswers PROVE RadioTyped'
  BY <1>0, <1>4
  DEF RadioTyped, Interrupt, Receives, StationReceives, StationAnswers
<1>5. ASSUME StationStores PROVE RadioTyped'
  BY <1>0, <1>5
  DEF RadioTyped, EndTask, Interrupt, Receives, StationReceives, StationStores
<1>6. ASSUME Acknowledged PROVE RadioTyped'
  BY <1>0, <1>6
  DEF RadioTyped, EndTask, Interrupt, Receives, DeviceReceives, Acknowledged
<1>7. ASSUME ReceivedOther PROVE RadioTyped'
  BY <1>0, <1>7
  DEF RadioTyped, EndTask, Interrupt, Receives, DeviceReceives, ReceivedOther
<1>8. ASSUME FillReceived PROVE RadioTyped'
  BY <1>0, <1>8, Sizes
  DEF RadioTyped, EndTask, Interrupt, Receives, DeviceReceives, FillReceived
<1>9. ASSUME IrqStored PROVE RadioTyped'
  BY <1>0, <1>9, Sizes
  DEF RadioTyped, IrqStored
<1>10. ASSUME BeginTransmit PROVE RadioTyped'
  BY <1>0, <1>10, OksBoolean
  DEF RadioTyped, StartTask, BeginTransmit
<1>11. ASSUME BeginStation PROVE RadioTyped'
  BY <1>0, <1>11, OksBoolean
  DEF RadioTyped, StartTask, BeginStation
<1>12. ASSUME OpenWindow1 PROVE RadioTyped'
  BY <1>0, <1>12, OksBoolean
  DEF RadioTyped, StartTask, OpenWindow1
<1>13. ASSUME OpenWindow2 PROVE RadioTyped'
  BY <1>0, <1>13, OksBoolean
  DEF RadioTyped, OpenWindow2
<1>14. ASSUME TransferSuspended PROVE RadioTyped'
  BY <1>0, <1>14
  DEF RadioTyped, TransferSuspended
<1>15. ASSUME FlashSends PROVE RadioTyped'
  BY <1>0, <1>15, OksBoolean
  DEF RadioTyped, StartTask, FlashSends
<1>16. ASSUME LorawanSuspend \/ LorawanResume \/ LorawanRetake \/ LorawanJob
            \/ LorawanJobEnds \/ LorawanMessage \/ LorawanTxDone
            \/ WaitForEvent \/ Boot \/ Setup \/ RoleChanged \/ HandleMessage
            \/ HandleSetMode \/ HandleFill \/ FillStored \/ Discover
            \/ StationDiscovery \/ EndUse \/ BeginTransfer \/ EndTransfer
            \/ EndStation \/ FlashStore \/ FlashGetAll \/ OffloadStarts
            \/ FlashSent \/ OffloadOver \/ GpsStart \/ GpsFix \/ GpsResume
            \/ Lp0Event \/ PingTimer \/ LorawanEvent \/ SetMode \/ SetRole
            \/ Store \/ GateExpires \/ UNCHANGED vars
      PROVE  RadioTyped'
  BY <1>0, <1>16
  DEF RadioTyped, LorawanSuspend, LorawanResume, LorawanRetake, LorawanJob,
      LorawanJobEnds, LorawanMessage, LorawanTxDone, WaitForEvent, Boot,
      Setup, RoleChanged, HandleMessage, HandleSetMode, HandleFill,
      FillStored, Discover, StationDiscovery, EndUse, BeginTransfer,
      EndTransfer, EndStation, FlashStore, FlashGetAll, OffloadStarts,
      FlashSent, OffloadOver, GpsStart, GpsFix, GpsResume, Lp0Event,
      PingTimer, LorawanEvent, SetMode, SetRole, Store, GateExpires, vars,
      lp0vars, radio, lrvars, flashvars
<1> QED
  BY <1>1, <1>2, <1>3, <1>4, <1>5, <1>6, <1>7, <1>8, <1>9, <1>10, <1>11, <1>12, <1>13, <1>14, <1>15, <1>16
  DEF Next, LorawanThread, IrqThread, Lp0Thread, FlashThread, GpsThread,
      Outside

(* The semaphores.                                                         *)
LEMMA SemStep ==
    ASSUME TypeOK, Sending, [Next]_vars
    PROVE  SemTyped'
<1>0. SemTyped /\ LeftTyped
  BY Parts
<1>1. ASSUME LorawanSuspend PROVE SemTyped'
  BY <1>0, <1>1
  DEF SemTyped, Give, LorawanSuspend, Semaphores
<1>2. ASSUME LorawanRetake PROVE SemTyped'
  BY <1>0, <1>2
  DEF SemTyped, Take, LorawanRetake, Semaphores
<1>3. ASSUME TxDone PROVE SemTyped'
  BY <1>0, <1>3
  DEF SemTyped, TxDone, Semaphores
<1>4. ASSUME RxTimeout PROVE SemTyped'
  BY <1>0, <1>4
  DEF SemTyped, Give, RxTimeout, Semaphores
<1>5. ASSUME RxError PROVE SemTyped'
  BY <1>0, <1>5
  DEF SemTyped, Give, RxError, Semaphores
<1>6. ASSUME Acknowledged PROVE SemTyped'
  BY <1>0, <1>6
  DEF SemTyped, Give, Acknowledged, Semaphores
<1>7. ASSUME ReceivedOther PROVE SemTyped'
  BY <1>0, <1>7
  DEF SemTyped, Give, ReceivedOther, Semaphores
<1>8. ASSUME IrqStored PROVE SemTyped'
  BY <1>0, <1>8
  DEF SemTyped, Take, IrqStored, Semaphores
<1>9. ASSUME HandleMessage PROVE SemTyped'
  BY <1>0, <1>9
  DEF SemTyped, Take, AskForRadio, Handles, HandleMessage, Semaphores
<1>10. ASSUME FillStored PROVE SemTyped'
  BY <1>0, <1>10
  DEF SemTyped, Take, FillStored, Semaphores
<1>11. ASSUME Discover PROVE SemTyped'
  BY <1>0, <1>11
  DEF SemTyped, Take, AskForRadio, Discover, Semaphores
<1>12. ASSUME StationDiscovery PROVE SemTyped'
  BY <1>0, <1>12
  DEF SemTyped, Take, AskForRadio, StationDiscovery, Semaphores
<1>13. ASSUME BeginTransmit PROVE SemTyped'
  BY <1>0, <1>13
  DEF SemTyped, BeginTransmit, Semaphores
<1>14. ASSUME BeginStation PROVE SemTyped'
  BY <1>0, <1>14
  DEF SemTyped, Take, BeginStation, Semaphores
<1>15. ASSUME OpenWindow1 PROVE SemTyped'
  BY <1>0, <1>15
  DEF SemTyped, Take, OpenWindow1, Semaphores
<1>16. ASSUME OpenWindow2 PROVE SemTyped'
  BY <1>0, <1>16
  DEF SemTyped, Take, OpenWindow2, Semaphores
<1>17. ASSUME EndUse PROVE SemTyped'
  BY <1>0, <1>17
  DEF SemTyped, EndUse, Semaphores
<1>18. ASSUME BeginTransfer PROVE SemTyped'
  BY <1>0, <1>18
  DEF SemTyped, Give, BeginTransfer, Semaphores
<1>19. ASSUME TransferSuspended PROVE SemTyped'
  BY <1>0, <1>19
  DEF SemTyped, TransferSuspended, Semaphores
<1>20. ASSUME EndTransfer PROVE SemTyped'
  BY <1>0, <1>20
  DEF SemTyped, EndTransfer, Semaphores
<1>21. ASSUME EndStation PROVE SemTyped'
  BY <1>0, <1>21
  DEF SemTyped, EndStation, Semaphores
<1>22. ASSUME FlashStore PROVE SemTyped'
  BY <1>0, <1>22
  DEF SemTyped, Give, NextFor, FlashStore, Semaphores
<1>23. ASSUME OffloadStarts PROVE SemTyped'
  BY <1>0, <1>23
  DEF SemTyped, Take, OffloadStarts, Semaphores
<1>24. ASSUME FlashSends PROVE SemTyped'
  BY <1>0, <1>24
  DEF SemTyped, Take, FlashSends, Semaphores
<1>25. ASSUME FlashSent PROVE SemTyped'
  BY <1>0, <1>25
  DEF SemTyped, Take, FlashSent, Semaphores
<1>26. ASSUME OffloadOver PROVE SemTyped'
  BY <1>0, <1>26
  DEF SemTyped, Give, OffloadOver, Semaphores
<1>27. ASSUME LorawanResume \/ LorawanJob \/ LorawanJobEnds \/ LorawanMessage
            \/ LorawanTxDone \/ StationAnswers \/ StationStores
            \/ FillReceived \/ WaitForEvent \/ Boot \/ Setup \/ RoleChanged
            \/ HandleSetMode \/ HandleFill \/ FlashGetAll \/ GpsStart
            \/ GpsFix \/ GpsResume \/ Lp0Event \/ PingTimer \/ LorawanEvent
            \/ SetMode \/ SetRole \/ Store \/ GateExpires \/ UNCHANGED vars
      PROVE  SemTyped'
  BY <1>0, <1>27
  DEF SemTyped, LorawanResume, LorawanJob, LorawanJobEnds, LorawanMessage,
      LorawanTxDone, StationAnswers, StationStores, FillReceived,
      WaitForEvent, Boot, Setup, RoleChanged, HandleSetMode, HandleFill,
      FlashGetAll, GpsStart, GpsFix, GpsResume, Lp0Event, PingTimer,
      LorawanEvent, SetMode, SetRole, Store, GateExpires, vars, lp0vars,
      radio, lrvars, flashvars
<1> QED
  BY <1>1, <1>2, <1>3, <1>4, <1>5, <1>6, <1>7, <1>8, <1>9, <1>10, <1>11, <1>12, <1>13, <1>14, <1>15, <1>16, <1>17, <1>18, <1>19, <1>20, <1>21, <1>22, <1>23, <1>24, <1>25, <1>26, <1>27
  DEF Next, LorawanThread, IrqThread, Lp0Thread, FlashThread, GpsThread,
      Outside

(* The LoRaWAN thread and its modem.                                       *)
LEMMA LrStep ==
    ASSUME TypeOK, Sending, [Next]_vars
    PROVE  LrTyped'
<1>0. LrTyped /\ LeftTyped
  BY Parts
<1>1. ASSUME LorawanSuspend PROVE LrTyped'
  BY <1>0, <1>1
  DEF LrTyped, Ready, TakeEvent, LorawanSuspend
<1>2. ASSUME LorawanResume PROVE LrTyped'
  BY <1>0, <1>2
  DEF LrTyped, Ready, TakeEvent, LorawanResume
<1>3. ASSUME LorawanRetake PROVE LrTyped'
  BY <1>0, <1>3
  DEF LrTyped, LorawanRetake
<1>4. ASSUME LorawanJob PROVE LrTyped'
  BY <1>0, <1>4
  DEF LrTyped, Ready, TakeEvent, LorawanJob
<1>5. ASSUME LorawanJobEnds PROVE LrTyped'
  BY <1>0, <1>5
  DEF LrTyped, LorawanJobEnds
<1>6. ASSUME LorawanMessage PROVE LrTyped'
  BY <1>0, <1>6
  DEF LrTyped, Ready, TakeEvent, LorawanMessage
<1>7. ASSUME LorawanTxDone PROVE LrTyped'
  BY <1>0, <1>7
  DEF LrTyped, LorawanTxDone
<1>8. ASSUME HandleMessage PROVE LrTyped'
  BY <1>0, <1>8
  DEF LrTyped, AskForRadio, Handles, HandleMessage
<1>9. ASSUME Discover PROVE LrTyped'
  BY <1>0, <1>9
  DEF LrTyped, AskForRadio, Discover
<1>10. ASSUME StationDiscovery PROVE LrTyped'
  BY <1>0, <1>10
  DEF LrTyped, AskForRadio, StationDiscovery
<1>11. ASSUME TxDone \/ RxTimeout \/ RxError \/ StationAnswers
            \/ StationStores \/ Acknowledged \/ ReceivedOther \/ FillReceived
            \/ IrqStored \/ WaitForEvent \/ Boot \/ Setup \/ RoleChanged
            \/ HandleSetMode \/ HandleFill \/ FillStored \/ BeginTransmit
            \/ BeginStation \/ OpenWindow1 \/ OpenWindow2 \/ EndUse
            \/ BeginTransfer \/ TransferSuspended \/ EndTransfer
            \/ EndStation \/ FlashStore \/ FlashGetAll \/ OffloadStarts
            \/ FlashSends \/ FlashSent \/ OffloadOver \/ GpsStart \/ GpsFix
            \/ GpsResume \/ Lp0Event \/ PingTimer \/ LorawanEvent \/ SetMode
            \/ SetRole \/ Store \/ GateExpires \/ UNCHANGED vars
      PROVE  LrTyped'
  BY <1>0, <1>11
  DEF LrTyped, TxDone, RxTimeout, RxError, StationAnswers, StationStores,
      Acknowledged, ReceivedOther, FillReceived, IrqStored, WaitForEvent,
      Boot, Setup, RoleChanged, HandleSetMode, HandleFill, FillStored,
      BeginTransmit, BeginStation, OpenWindow1, OpenWindow2, EndUse,
      BeginTransfer, TransferSuspended, EndTransfer, EndStation, FlashStore,
      FlashGetAll, OffloadStarts, FlashSends, FlashSent, OffloadOver,
      GpsStart, GpsFix, GpsResume, Lp0Event, PingTimer, LorawanEvent, SetMode,
      SetRole, Store, GateExpires, vars, lp0vars, radio, lrvars, flashvars
<1> QED
  BY <1>1, <1>2, <1>3, <1>4, <1>5, <1>6, <1>7, <1>8, <1>9, <1>10, <1>11
  DEF Next, LorawanThread, IrqThread, Lp0Thread, FlashThread, GpsThread,
      Outside

(* The flash thread.                                                       *)
LEMMA FlashStep ==
    ASSUME TypeOK, Sending, [Next]_vars
    PROVE  FlashTyped'
<1>0. FlashTyped /\ LeftTyped
  BY Parts
<1>1. ASSUME FlashGetAll PROVE FlashTyped'
  BY <1>0, <1>1, Sizes
  DEF FlashTyped, FlashAt, NextFor, FlashGetAll
<1>2. ASSUME OffloadStarts PROVE FlashTyped'
  BY <1>0, <1>2, Sizes
  DEF FlashTyped, FlashAt, OffloadStarts
<1>3. ASSUME FlashSends PROVE FlashTyped'
  BY <1>0, <1>3, Sizes
  DEF FlashTyped, FlashAt, FlashSends
<1>4. ASSUME FlashSent PROVE FlashTyped'
  BY <1>0, <1>4, Sizes
  DEF FlashTyped, FlashAt, FlashSent, Sending
<1>5. ASSUME OffloadOver PROVE FlashTyped'
  BY <1>0, <1>5, Sizes
  DEF FlashTyped, FlashAt, OffloadOver
<1>6. ASSUME GpsStart PROVE FlashTyped'
  BY <1>0, <1>6, Sizes
  DEF FlashTyped, flashvars, GpsStart
<1>7. ASSUME GpsFix PROVE FlashTyped'
  BY <1>0, <1>7, Sizes
  DEF FlashTyped, flashvars, GpsFix
<1>8. ASSUME GpsResume PROVE FlashTyped'
  BY <1>0, <1>8, Sizes
  DEF FlashTyped, flashvars, GpsResume
<1>9. ASSUME GateExpires PROVE FlashTyped'
  BY <1>0, <1>9, Sizes
  DEF FlashTyped, GateExpires
<1>10. ASSUME LorawanSuspend \/ LorawanResume \/ LorawanRetake \/ LorawanJob
            \/ LorawanJobEnds \/ LorawanMessage \/ LorawanTxDone \/ TxDone
            \/ RxTimeout \/ RxError \/ StationAnswers \/ StationStores
            \/ Acknowledged \/ ReceivedOther \/ FillReceived \/ IrqStored
            \/ WaitForEvent \/ Boot \/ Setup \/ RoleChanged \/ HandleMessage
            \/ HandleSetMode \/ HandleFill \/ FillStored \/ Discover
            \/ StationDiscovery \/ BeginTransmit \/ BeginStation
            \/ OpenWindow1 \/ OpenWindow2 \/ EndUse \/ BeginTransfer
            \/ TransferSuspended \/ EndTransfer \/ EndStation \/ FlashStore
            \/ Lp0Event \/ PingTimer \/ LorawanEvent \/ SetMode \/ SetRole
            \/ Store \/ UNCHANGED vars
      PROVE  FlashTyped'
  BY <1>0, <1>10
  DEF FlashTyped, LorawanSuspend, LorawanResume, LorawanRetake, LorawanJob,
      LorawanJobEnds, LorawanMessage, LorawanTxDone, TxDone, RxTimeout,
      RxError, StationAnswers, StationStores, Acknowledged, ReceivedOther,
      FillReceived, IrqStored, WaitForEvent, Boot, Setup, RoleChanged,
      HandleMessage, HandleSetMode, HandleFill, FillStored, Discover,
      StationDiscovery, BeginTransmit, BeginStation, OpenWindow1, OpenWindow2,
      EndUse, BeginTransfer, TransferSuspended, EndTransfer, EndStation,
      FlashStore, Lp0Event, PingTimer, LorawanEvent, SetMode, SetRole, Store,
      vars, lp0vars, radio, lrvars, flashvars
<1> QED
  BY <1>1, <1>2, <1>3, <1>4, <1>5, <1>6, <1>7, <1>8, <1>9, <1>10
  DEF Next, LorawanThread, IrqThread, Lp0Thread, FlashThread, GpsThread,
      Outside

(* What has happened.                                                      *)
LEMMA UpsetStep ==
    ASSUME TypeOK, Sending, [Next]_vars
    PROVE  UpsetTyped'
<1>0. UpsetTyped /\ LeftTyped
  BY Parts
<1>1. ASSUME LorawanSuspend PROVE UpsetTyped'
  BY <1>0, <1>1
  DEF UpsetTyped, Upset, LorawanSuspend
<1>2. ASSUME LorawanResume PROVE UpsetTyped'
  BY <1>0, <1>2
  DEF UpsetTyped, Upset, LorawanResume
<1>3. ASSUME LorawanJob PROVE UpsetTyped'
  BY <1>0, <1>3
  DEF UpsetTyped, Upset, LorawanJob
<1>4. ASSUME RxTimeout PROVE UpsetTyped'
  BY <1>0, <1>4
  DEF UpsetTyped, Upset, When, Again, RxTimeout
<1>5. ASSUME StationAnswers PROVE UpsetTyped'
  BY <1>0, <1>5
  DEF UpsetTyped, Upset, StationAnswers
<1>6. ASSUME StationStores PROVE UpsetTyped'
  BY <1>0, <1>6
  DEF UpsetTyped, Upset, StationStores
<1>7. ASSUME Acknowledged PROVE UpsetTyped'
  BY <1>0, <1>7
  DEF UpsetTyped, Upset, When, Purges, Acknowledged
<1>8. ASSUME FillReceived PROVE UpsetTyped'
  BY <1>0, <1>8
  DEF UpsetTyped, Upset, When, Purges, FillReceived
<1>9. ASSUME IrqStored PROVE UpsetTyped'
  BY <1>0, <1>9
  DEF UpsetTyped, Upset, When, Purges, IrqStored
<1>10. ASSUME HandleMessage PROVE UpsetTyped'
  BY <1>0, <1>10
  DEF UpsetTyped, Upset, When, Loses, AskForRadio, HandleMessage
<1>11. ASSUME HandleSetMode PROVE UpsetTyped'
  BY <1>0, <1>11
  DEF UpsetTyped, Upset, HandleSetMode
<1>12. ASSUME HandleFill PROVE UpsetTyped'
  BY <1>0, <1>12
  DEF UpsetTyped, Upset, When, Purges, HandleFill
<1>13. ASSUME FillStored PROVE UpsetTyped'
  BY <1>0, <1>13
  DEF UpsetTyped, Upset, When, Purges, FillStored
<1>14. ASSUME Discover PROVE UpsetTyped'
  BY <1>0, <1>14
  DEF UpsetTyped, Upset, When, Loses, AskForRadio, Discover
<1>15. ASSUME StationDiscovery PROVE UpsetTyped'
  BY <1>0, <1>15
  DEF UpsetTyped, Upset, When, Loses, AskForRadio, StationDiscovery
<1>16. ASSUME BeginTransmit PROVE UpsetTyped'
  BY <1>0, <1>16
  DEF UpsetTyped, Upset, When, BeginTransmit
<1>17. ASSUME BeginStation PROVE UpsetTyped'
  BY <1>0, <1>17
  DEF UpsetTyped, Upset, When, BeginStation
<1>18. ASSUME OpenWindow1 PROVE UpsetTyped'
  BY <1>0, <1>18
  DEF UpsetTyped, Upset, When, OpenWindow1
<1>19. ASSUME OpenWindow2 PROVE UpsetTyped'
  BY <1>0, <1>19
  DEF UpsetTyped, Upset, When, OpenWindow2
<1>20. ASSUME EndUse PROVE UpsetTyped'
  BY <1>0, <1>20
  DEF UpsetTyped, Upset, When, Loses, EndUse
<1>21. ASSUME FlashSends PROVE UpsetTyped'
  BY <1>0, <1>21
  DEF UpsetTyped, Upset, When, FlashSends
<1>22. ASSUME GpsStart PROVE UpsetTyped'
  BY <1>0, <1>22
  DEF UpsetTyped, Upset, When, Loses, GpsStart
<1>23. ASSUME Lp0Event PROVE UpsetTyped'
  BY <1>0, <1>23
  DEF UpsetTyped, Upset, When, Lp0Event
<1>24. ASSUME PingTimer PROVE UpsetTyped'
  BY <1>0, <1>24
  DEF UpsetTyped, Upset, PingTimer
<1>25. ASSUME SetMode PROVE UpsetTyped'
  BY <1>0, <1>25
  DEF UpsetTyped, Upset, SetMode
<1>26. ASSUME Store PROVE UpsetTyped'
  BY <1>0, <1>26
  DEF UpsetTyped, Upset, When, Purges, Store
<1>27. ASSUME LorawanRetake \/ LorawanJobEnds \/ LorawanMessage
            \/ LorawanTxDone \/ TxDone \/ RxError \/ ReceivedOther
            \/ WaitForEvent \/ Boot \/ Setup \/ RoleChanged
            \/ TransferSuspended \/ FlashStore
            \/ FlashGetAll \/ OffloadStarts \/ FlashSent \/ OffloadOver
            \/ GpsFix \/ SetRole \/ GateExpires \/ UNCHANGED vars
      PROVE  UpsetTyped'
  BY <1>0, <1>27
  DEF UpsetTyped, LorawanRetake, LorawanJobEnds, LorawanMessage,
      LorawanTxDone, TxDone, RxError, ReceivedOther, WaitForEvent, Boot,
      Setup, RoleChanged, TransferSuspended, FlashStore, FlashGetAll,
      OffloadStarts, FlashSent, OffloadOver, GpsFix, SetRole, GateExpires,
      vars, lp0vars, radio, lrvars, flashvars
<1>28. ASSUME BeginTransfer \/ EndTransfer \/ EndStation \/ GpsResume \/ LorawanEvent
      PROVE  UpsetTyped'
  BY <1>0, <1>28
  DEF UpsetTyped, Upset, When, Loses, BeginTransfer, EndTransfer, EndStation, GpsResume,
      LorawanEvent
<1> QED
  BY <1>1, <1>2, <1>3, <1>4, <1>5, <1>6, <1>7, <1>8, <1>9, <1>10, <1>11, <1>12, <1>13, <1>14, <1>15, <1>16, <1>17, <1>18, <1>19, <1>20, <1>21, <1>22, <1>23, <1>24, <1>25, <1>26, <1>27, <1>28
  DEF Next, LorawanThread, IrqThread, Lp0Thread, FlashThread, GpsThread,
      Outside

(* The bound.                                                              *)
LEMMA LeftStep ==
    ASSUME TypeOK, Sending, [Next]_vars
    PROVE  LeftTyped'
<1>0. LeftTyped /\ ModeTyped /\ FlashTyped
  BY Parts
<1>1. ASSUME LorawanSuspend PROVE LeftTyped'
  BY <1>0, <1>1, Sizes
  DEF LeftTyped, Uses, LorawanSuspend
<1>2. ASSUME LorawanResume PROVE LeftTyped'
  BY <1>0, <1>2, Sizes
  DEF LeftTyped, Uses, LorawanResume
<1>3. ASSUME RxTimeout PROVE LeftTyped'
  BY <1>0, <1>3, SpendsTyped
  DEF LeftTyped, Again, RxTimeout
<1>4. ASSUME RxError PROVE LeftTyped'
  BY <1>0, <1>4, Sizes
  DEF LeftTyped, Uses, Receives, DeviceReceives, StationReceives, RxError
<1>5. ASSUME StationAnswers PROVE LeftTyped'
  BY <1>0, <1>5, Sizes
  DEF LeftTyped, Uses, Receives, StationReceives, StationAnswers
<1>6. ASSUME StationStores PROVE LeftTyped'
  BY <1>0, <1>6, Sizes
  DEF LeftTyped, Uses, Receives, StationReceives, StationStores
<1>7. ASSUME Acknowledged PROVE LeftTyped'
  BY <1>0, <1>7, Sizes
  DEF LeftTyped, Uses, Receives, DeviceReceives, Acknowledged
<1>8. ASSUME ReceivedOther PROVE LeftTyped'
  BY <1>0, <1>8, Sizes
  DEF LeftTyped, Uses, Receives, DeviceReceives, ReceivedOther
<1>9. ASSUME FillReceived PROVE LeftTyped'
  BY <1>0, <1>9, Sizes
  DEF LeftTyped, Uses, Receives, DeviceReceives, FillReceived
<1>10. ASSUME HandleMessage PROVE LeftTyped'
  BY <1>0, <1>10, Sizes
  DEF LeftTyped, AskForRadio, HandleMessage
<1>11. ASSUME Discover PROVE LeftTyped'
  BY <1>0, <1>11, Sizes
  DEF LeftTyped, AskForRadio, Discover
<1>12. ASSUME StationDiscovery PROVE LeftTyped'
  BY <1>0, <1>12, Sizes
  DEF LeftTyped, AskForRadio, StationDiscovery
<1>13. ASSUME BeginTransmit PROVE LeftTyped'
  BY <1>0, <1>13, SpendsTyped
  DEF LeftTyped, BeginTransmit
<1>14. ASSUME BeginStation PROVE LeftTyped'
  BY <1>0, <1>14, SpendsTyped
  DEF LeftTyped, BeginStation
<1>15. ASSUME OpenWindow1 PROVE LeftTyped'
  BY <1>0, <1>15, SpendsTyped
  DEF LeftTyped, OpenWindow1
<1>16. ASSUME OpenWindow2 PROVE LeftTyped'
  BY <1>0, <1>16, SpendsTyped
  DEF LeftTyped, OpenWindow2
<1>17. ASSUME FlashSends PROVE LeftTyped'
  BY <1>0, <1>17, SpendsTyped
  DEF LeftTyped, FlashSends
<1>18. ASSUME GpsStart PROVE LeftTyped'
  BY <1>0, <1>18, Sizes
  DEF LeftTyped, Uses, GpsStart
<1>19. ASSUME Lp0Event PROVE LeftTyped'
  BY <1>0, <1>19, Sizes
  DEF LeftTyped, Uses, Lp0Event
<1>20. ASSUME LorawanEvent PROVE LeftTyped'
  BY <1>0, <1>20, Sizes
  DEF LeftTyped, Uses, LorawanEvent
<1>21. ASSUME SetMode PROVE LeftTyped'
  BY <1>0, <1>21, Sizes
  DEF LeftTyped, Uses, SetMode
<1>22. ASSUME SetRole PROVE LeftTyped'
  BY <1>0, <1>22, Sizes
  DEF LeftTyped, Uses, SetRole
<1>23. ASSUME Store PROVE LeftTyped'
  BY <1>0, <1>23, Sizes
  DEF LeftTyped, Uses, Store
<1>24. ASSUME LorawanRetake \/ LorawanJob \/ LorawanJobEnds \/ LorawanMessage
            \/ LorawanTxDone \/ TxDone \/ IrqStored \/ WaitForEvent \/ Boot
            \/ Setup \/ RoleChanged \/ HandleSetMode \/ HandleFill
            \/ FillStored \/ EndUse \/ BeginTransfer \/ TransferSuspended
            \/ EndTransfer \/ EndStation \/ FlashStore \/ FlashGetAll
            \/ OffloadStarts \/ FlashSent \/ OffloadOver \/ GpsFix
            \/ GpsResume \/ PingTimer \/ GateExpires \/ UNCHANGED vars
      PROVE  LeftTyped'
  BY <1>0, <1>24
  DEF LeftTyped, LorawanRetake, LorawanJob, LorawanJobEnds, LorawanMessage,
      LorawanTxDone, TxDone, IrqStored, WaitForEvent, Boot, Setup,
      RoleChanged, HandleSetMode, HandleFill, FillStored, EndUse,
      BeginTransfer, TransferSuspended, EndTransfer, EndStation, FlashStore,
      FlashGetAll, OffloadStarts, FlashSent, OffloadOver, GpsFix, GpsResume,
      PingTimer, GateExpires, vars, lp0vars, radio, lrvars, flashvars
<1> QED
  BY <1>1, <1>2, <1>3, <1>4, <1>5, <1>6, <1>7, <1>8, <1>9, <1>10, <1>11, <1>12, <1>13, <1>14, <1>15, <1>16, <1>17, <1>18, <1>19, <1>20, <1>21, <1>22, <1>23, <1>24
  DEF Next, LorawanThread, IrqThread, Lp0Thread, FlashThread, GpsThread,
      Outside

LEMMA TypeInit == Init => TypeOK /\ Sending
<1>1. ASSUME Init PROVE Sending
  BY <1>1 DEF Init, Sending
<1>2. ASSUME Init PROVE SemTyped /\ LrTyped /\ UpsetTyped
  BY <1>2 DEF Init, SemTyped, Semaphores, LrTyped, UpsetTyped
<1>3. ASSUME Init PROVE ModeTyped /\ RadioTyped /\ FlashTyped
  <2>1. mode = "DISABLED" /\ gps = "idle" /\ paused = FALSE /\ irq = 0
    BY <1>3 DEF Init
  <2>2. task = "IDLE" /\ air = FALSE
    BY <1>3 DEF Init
  <2>3. flash = [at |-> "idle", left |-> 0] /\ 0 \in 0 .. Payloads
    BY <1>3, Sizes DEF Init
  <2> QED BY <2>1, <2>2, <2>3, Sizes DEF ModeTyped, AllModes, RadioTyped, FlashTyped
<1>5. ASSUME Init PROVE Lp0Typed /\ LeftTyped
  <2>1. lp0 = [at |-> "loop", job |-> "none", boot |-> FALSE, suspended |-> FALSE,
               offload |-> 0, fill |-> 0]
    BY <1>5 DEF Init
  <2>2. ping = FALSE /\ role \in Roles /\ left = Bound
    BY <1>5 DEF Init
  <2>3. 0 \in 0 .. 2 /\ 0 \in 0 .. FillCount /\ Bound \in 0 .. Bound
    BY Sizes
  <2> QED BY <2>1, <2>2, <2>3 DEF Lp0Typed, LeftTyped
<1>4. ASSUME Init PROVE Lp0QueTyped /\ LrQueTyped /\ FlashQueTyped
  BY <1>4, EmptySeq, Sizes DEF Init, Lp0QueTyped, LrQueTyped, FlashQueTyped
<1> QED BY <1>1, <1>2, <1>3, <1>4, <1>5, Parts

LEMMA TypeStep ==
    ASSUME TypeOK, Sending, [Next]_vars
    PROVE  TypeOK'
<1>1. ModeTyped' /\ Lp0Typed' /\ Lp0QueTyped' /\ LrQueTyped'
  BY ModeStep, Lp0Step, Lp0QueStep, LrQueStep
<1>2. FlashQueTyped' /\ RadioTyped' /\ SemTyped' /\ LrTyped'
  BY FlashQueStep, RadioStep, SemStep, LrStep
<1>3. FlashTyped' /\ UpsetTyped' /\ LeftTyped'
  BY FlashStep, UpsetStep, LeftStep
<1> QED
  BY <1>1, <1>2, <1>3
  DEF TypeOK, ModeTyped, Lp0Typed, Lp0QueTyped, LrQueTyped, FlashQueTyped,
         RadioTyped, SemTyped, LrTyped, FlashTyped, UpsetTyped, LeftTyped,
         Lp0Events, LrEvents, FlashEvents

(* A payload is counted before it is waited for.                           *)
LEMMA SendingStep ==
    ASSUME TypeOK, Sending, [Next]_vars
    PROVE  Sending'
<1>1. ASSUME FlashGetAll PROVE Sending'
  BY <1>1 DEF Sending, FlashGetAll
<1>2. ASSUME OffloadStarts PROVE Sending'
  BY <1>2 DEF Sending, OffloadStarts
<1>3. ASSUME FlashSends PROVE Sending'
  BY <1>3 DEF Sending, FlashSends, FlashAt
<1>4. ASSUME FlashSent PROVE Sending'
  BY <1>4 DEF Sending, FlashSent
<1>5. ASSUME OffloadOver PROVE Sending'
  BY <1>5 DEF Sending, OffloadOver
<1>6. ASSUME LorawanSuspend \/ LorawanResume \/ LorawanRetake \/ LorawanJob
            \/ LorawanJobEnds \/ LorawanMessage \/ LorawanTxDone \/ TxDone
            \/ RxTimeout \/ RxError \/ StationAnswers \/ StationStores
            \/ Acknowledged \/ ReceivedOther \/ FillReceived \/ IrqStored
            \/ WaitForEvent \/ Boot \/ Setup \/ RoleChanged \/ HandleMessage
            \/ HandleSetMode \/ HandleFill \/ FillStored \/ Discover
            \/ StationDiscovery \/ BeginTransmit \/ BeginStation
            \/ OpenWindow1 \/ OpenWindow2 \/ EndUse \/ BeginTransfer
            \/ TransferSuspended \/ EndTransfer \/ EndStation \/ FlashStore
            \/ GpsStart \/ GpsFix \/ GpsResume \/ Lp0Event \/ PingTimer
            \/ LorawanEvent \/ SetMode \/ SetRole \/ Store \/ GateExpires
            \/ UNCHANGED vars
      PROVE  Sending'
  BY <1>6
  DEF Sending, LorawanSuspend, LorawanResume, LorawanRetake, LorawanJob,
      LorawanJobEnds, LorawanMessage, LorawanTxDone, TxDone, RxTimeout,
      RxError, StationAnswers, StationStores, Acknowledged, ReceivedOther,
      FillReceived, IrqStored, WaitForEvent, Boot, Setup, RoleChanged,
      HandleMessage, HandleSetMode, HandleFill, FillStored, Discover,
      StationDiscovery, BeginTransmit, BeginStation, OpenWindow1, OpenWindow2,
      EndUse, BeginTransfer, TransferSuspended, EndTransfer, EndStation,
      FlashStore, GpsStart, GpsFix, GpsResume, Lp0Event, PingTimer,
      LorawanEvent, SetMode, SetRole, Store, GateExpires, vars, lp0vars,
      radio, lrvars, flashvars
<1> QED
  BY <1>1, <1>2, <1>3, <1>4, <1>5, <1>6
  DEF Next, LorawanThread, IrqThread, Lp0Thread, FlashThread, GpsThread,
      Outside

-----------------------------------------------------------------------------
(* The pairing of an offload                                               *)

(* Two semaphores, either given or not.                                    *)
LEMMA Tokens ==
    ASSUME SemTyped
    PROVE  \A s \in Semaphores : sem[s] \in {0, 1}
BY DEF SemTyped

LEMMA PairedStep ==
    ASSUME TypeOK, OffloadPaired, [Next]_vars
    PROVE  OffloadPaired'
<1>0. Lp0Typed /\ SemTyped /\ FlashTyped /\ sem.start \in {0, 1} /\ sem.over \in {0, 1}
  BY Parts, Tokens DEF Semaphores
<1>1. ASSUME LorawanSuspend PROVE OffloadPaired'
  BY <1>0, <1>1
  DEF OffloadPaired, Offloading, Lp0Typed, SemTyped, Semaphores, FlashTyped, lp0vars,
      flashvars, Give, LorawanSuspend
<1>2. ASSUME LorawanRetake PROVE OffloadPaired'
  BY <1>0, <1>2
  DEF OffloadPaired, Offloading, Lp0Typed, SemTyped, Semaphores, FlashTyped, lp0vars,
      flashvars, Take, LorawanRetake
<1>3. ASSUME TxDone PROVE OffloadPaired'
  BY <1>0, <1>3
  DEF OffloadPaired, Offloading, Lp0Typed, SemTyped, Semaphores, FlashTyped, lp0vars,
      flashvars, TxDone
<1>4. ASSUME RxTimeout PROVE OffloadPaired'
  BY <1>0, <1>4
  DEF OffloadPaired, Offloading, Lp0Typed, SemTyped, Semaphores, FlashTyped, lp0vars,
      flashvars, Give, RxTimeout
<1>5. ASSUME RxError PROVE OffloadPaired'
  BY <1>0, <1>5
  DEF OffloadPaired, Offloading, Lp0Typed, SemTyped, Semaphores, FlashTyped, lp0vars,
      flashvars, Give, RxError
<1>6. ASSUME Acknowledged PROVE OffloadPaired'
  BY <1>0, <1>6
  DEF OffloadPaired, Offloading, Lp0Typed, SemTyped, Semaphores, FlashTyped, Give,
      Acknowledged
<1>7. ASSUME ReceivedOther PROVE OffloadPaired'
  BY <1>0, <1>7
  DEF OffloadPaired, Offloading, Lp0Typed, SemTyped, Semaphores, FlashTyped, lp0vars,
      flashvars, Give, ReceivedOther
<1>8. ASSUME IrqStored PROVE OffloadPaired'
  BY <1>0, <1>8
  DEF OffloadPaired, Offloading, Lp0Typed, SemTyped, Semaphores, FlashTyped, Take,
      IrqStored
<1>9. ASSUME WaitForEvent PROVE OffloadPaired'
  BY <1>0, <1>9
  DEF OffloadPaired, Offloading, Lp0Typed, SemTyped, Semaphores, FlashTyped, flashvars,
      At, WaitForEvent
<1>10. ASSUME Boot PROVE OffloadPaired'
  BY <1>0, <1>10
  DEF OffloadPaired, Offloading, Lp0Typed, SemTyped, Semaphores, FlashTyped, flashvars,
      At, Loop, Boot
<1>11. ASSUME Setup PROVE OffloadPaired'
  BY <1>0, <1>11
  DEF OffloadPaired, Offloading, Lp0Typed, SemTyped, Semaphores, FlashTyped, flashvars,
      At, Setup
<1>12. ASSUME HandleMessage PROVE OffloadPaired'
  BY <1>0, <1>12
  DEF OffloadPaired, Offloading, Lp0Typed, SemTyped, Semaphores, FlashTyped, flashvars,
      Take, At, Handles, AskForRadio, HandleMessage
<1>13. ASSUME HandleSetMode PROVE OffloadPaired'
  BY <1>0, <1>13
  DEF OffloadPaired, Offloading, Lp0Typed, SemTyped, Semaphores, FlashTyped, flashvars,
      At, Handles, Loop, HandleSetMode
<1>14. ASSUME HandleFill PROVE OffloadPaired'
  BY <1>0, <1>14
  DEF OffloadPaired, Offloading, Lp0Typed, SemTyped, Semaphores, FlashTyped, At, Handles,
      HandleFill
<1>15. ASSUME FillStored PROVE OffloadPaired'
  BY <1>0, <1>15
  DEF OffloadPaired, Offloading, Lp0Typed, SemTyped, Semaphores, FlashTyped, Take, At,
      Loop, ModeAfterHandler, FillStored
<1>16. ASSUME Discover PROVE OffloadPaired'
  BY <1>0, <1>16
  DEF OffloadPaired, Offloading, Lp0Typed, SemTyped, Semaphores, FlashTyped, flashvars,
      Take, At, Handles, AskForRadio, Discover
<1>17. ASSUME StationDiscovery PROVE OffloadPaired'
  BY <1>0, <1>17
  DEF OffloadPaired, Offloading, Lp0Typed, SemTyped, Semaphores, FlashTyped, flashvars,
      Take, At, AskForRadio, StationDiscovery
<1>18. ASSUME BeginTransmit PROVE OffloadPaired'
  BY <1>0, <1>18
  DEF OffloadPaired, Offloading, Lp0Typed, SemTyped, Semaphores, FlashTyped, flashvars,
      At, BeginTransmit
<1>19. ASSUME BeginStation PROVE OffloadPaired'
  BY <1>0, <1>19
  DEF OffloadPaired, Offloading, Lp0Typed, SemTyped, Semaphores, FlashTyped, flashvars,
      Take, At, BeginStation
<1>20. ASSUME OpenWindow1 PROVE OffloadPaired'
  BY <1>0, <1>20
  DEF OffloadPaired, Offloading, Lp0Typed, SemTyped, Semaphores, FlashTyped, flashvars,
      Take, At, OpenWindow1
<1>21. ASSUME OpenWindow2 PROVE OffloadPaired'
  BY <1>0, <1>21
  DEF OffloadPaired, Offloading, Lp0Typed, SemTyped, Semaphores, FlashTyped, flashvars,
      Take, At, OpenWindow2
<1>22. ASSUME EndUse PROVE OffloadPaired'
  BY <1>0, <1>22
  DEF OffloadPaired, Offloading, Lp0Typed, SemTyped, Semaphores, FlashTyped, flashvars,
      At, Loop, ModeAfterHandler, EndUse
<1>23. ASSUME BeginTransfer PROVE OffloadPaired'
  <2>1. lp0.at # "offload" /\ sem.start = 0 /\ sem.over = 0 /\ ~Offloading
    BY <1>23, <1>0 DEF At, BeginTransfer, OffloadPaired
  <2>2. CASE lp0.suspended
    <3>1. sem' = Give("start") /\ lp0' = [lp0 EXCEPT !.at = "offload"] /\ flash' = flash
      BY <1>23, <2>2 DEF BeginTransfer, flashvars
    <3>2. sem'.start = 1 /\ sem'.over = 0 /\ lp0'.at = "offload"
      BY <1>0, <2>1, <3>1 DEF Give, SemTyped, Semaphores, Lp0Typed
    <3> QED BY <2>1, <3>1, <3>2 DEF OffloadPaired, Offloading
  <2>3. CASE ~lp0.suspended
    <3>1. sem' = sem /\ lp0'.at = "transfer" /\ flash' = flash
      BY <1>0, <1>23, <2>3 DEF BeginTransfer, flashvars, Lp0Typed
    <3> QED BY <2>1, <3>1 DEF OffloadPaired, Offloading
  <2> QED BY <2>2, <2>3
<1>24. ASSUME TransferSuspended PROVE OffloadPaired'
  BY <1>0, <1>24
  DEF OffloadPaired, Offloading, Lp0Typed, SemTyped, Semaphores, FlashTyped, flashvars,
      At, TransferSuspended
<1>25. ASSUME EndTransfer PROVE OffloadPaired'
  BY <1>0, <1>25
  DEF OffloadPaired, Offloading, Lp0Typed, SemTyped, Semaphores, FlashTyped, flashvars,
      At, Loop, EndTransfer
<1>26. ASSUME EndStation PROVE OffloadPaired'
  BY <1>0, <1>26
  DEF OffloadPaired, Offloading, Lp0Typed, SemTyped, Semaphores, FlashTyped, flashvars,
      At, Loop, EndStation
<1>27. ASSUME FlashStore PROVE OffloadPaired'
  BY <1>0, <1>27
  DEF OffloadPaired, Offloading, Lp0Typed, SemTyped, Semaphores, FlashTyped, lp0vars,
      Give, FlashAt, FlashStore
<1>28. ASSUME FlashGetAll PROVE OffloadPaired'
  BY <1>0, <1>28
  DEF OffloadPaired, Offloading, Lp0Typed, SemTyped, Semaphores, FlashTyped, lp0vars,
      FlashAt, NextFor, FlashGetAll
<1>29. ASSUME OffloadStarts PROVE OffloadPaired'
  BY <1>0, <1>29
  DEF OffloadPaired, Offloading, Lp0Typed, SemTyped, Semaphores, FlashTyped, lp0vars,
      Take, FlashAt, OffloadStarts
<1>30. ASSUME FlashSends PROVE OffloadPaired'
  BY <1>0, <1>30
  DEF OffloadPaired, Offloading, Lp0Typed, SemTyped, Semaphores, FlashTyped, lp0vars,
      Take, FlashAt, FlashSends
<1>31. ASSUME FlashSent PROVE OffloadPaired'
  BY <1>0, <1>31
  DEF OffloadPaired, Offloading, Lp0Typed, SemTyped, Semaphores, FlashTyped, lp0vars,
      Take, FlashAt, FlashSent
<1>32. ASSUME OffloadOver PROVE OffloadPaired'
  BY <1>0, <1>32
  DEF OffloadPaired, Offloading, Lp0Typed, SemTyped, Semaphores, FlashTyped, lp0vars,
      Give, FlashAt, OffloadOver
<1>33. ASSUME LorawanResume \/ LorawanJob \/ LorawanJobEnds \/ LorawanMessage
            \/ LorawanTxDone \/ StationAnswers \/ StationStores
            \/ FillReceived \/ RoleChanged \/ GpsStart \/ GpsFix \/ GpsResume
            \/ Lp0Event \/ PingTimer \/ LorawanEvent \/ SetMode \/ SetRole
            \/ Store \/ GateExpires \/ UNCHANGED vars
      PROVE  OffloadPaired'
  BY <1>33, OffloadPaired
  DEF OffloadPaired, Offloading, LorawanResume, LorawanJob, LorawanJobEnds,
      LorawanMessage, LorawanTxDone, StationAnswers, StationStores,
      FillReceived, RoleChanged, GpsStart, GpsFix, GpsResume, Lp0Event,
      PingTimer, LorawanEvent, SetMode, SetRole, Store, GateExpires, vars,
      lp0vars, radio, lrvars, flashvars
<1> QED
  BY <1>1, <1>2, <1>3, <1>4, <1>5, <1>6, <1>7, <1>8, <1>9, <1>10, <1>11, <1>12, <1>13, <1>14, <1>15, <1>16, <1>17, <1>18, <1>19, <1>20, <1>21, <1>22, <1>23, <1>24, <1>25, <1>26, <1>27, <1>28, <1>29, <1>30, <1>31, <1>32, <1>33
  DEF Next, LorawanThread, IrqThread, Lp0Thread, FlashThread, GpsThread,
      Outside

LEMMA PairedInit == Init => OffloadPaired
BY DEF Init, Semaphores, OffloadPaired, Offloading

-----------------------------------------------------------------------------
(* The pings of a tracker                                                  *)

(* What waits in a queue still waits when something else is taken from it  *)
(* or put behind it.                                                       *)
LEMMA QueuedTail ==
    ASSUME NEW S, NEW que \in Seq(S), que # <<>>, NEW e, Queued(e, que), Head(que) # e
    PROVE  Queued(e, Tail(que))
<1>1. PICK i \in DOMAIN que : que[i] = e
  BY DEF Queued
<1>2. DOMAIN que = 1 .. Len(que) /\ Len(que) \in Nat /\ que[1] = Head(que)
  BY LenProperties, HeadTailProperties
<1>3. i - 1 \in 1 .. Len(que) - 1
  BY <1>1, <1>2
<1>4. /\ Tail(que) \in Seq(S) /\ Len(Tail(que)) = Len(que) - 1
      /\ \A j \in 1 .. Len(Tail(que)) : Tail(que)[j] = que[j + 1]
  BY HeadTailProperties
<1>5. i - 1 \in DOMAIN Tail(que) /\ Tail(que)[i - 1] = que[(i - 1) + 1]
  BY <1>3, <1>4, LenProperties
<1> QED BY <1>1, <1>2, <1>3, <1>5 DEF Queued

LEMMA QueuedAppend ==
    ASSUME NEW S, NEW que \in Seq(S), NEW f \in S, NEW e, Queued(e, que) \/ e = f
    PROVE  Queued(e, Append(que, f))
<1>1. /\ Append(que, f) \in Seq(S) /\ Len(Append(que, f)) = Len(que) + 1 /\ Len(que) \in Nat
      /\ \A i \in 1 .. Len(que) : Append(que, f)[i] = que[i]
      /\ Append(que, f)[Len(que) + 1] = f
  BY AppendProperties, LenProperties
<1>2. DOMAIN que = 1 .. Len(que) /\ DOMAIN Append(que, f) = 1 .. Len(que) + 1
  BY <1>1, LenProperties
<1> QED BY <1>1, <1>2 DEF Queued

(* What has happened stays on record.                                      *)
LEMMA UpsetGrows ==
    ASSUME [Next]_vars
    PROVE  upset \subseteq upset'
<1>1. CASE LorawanThread
  BY <1>1
  DEF LorawanThread, LorawanSuspend, LorawanResume, LorawanRetake, LorawanJob, LorawanJobEnds,
      LorawanMessage, LorawanTxDone, Upset
<1>2. CASE IrqThread
  BY <1>2
  DEF IrqThread, TxDone, RxTimeout, RxError, StationAnswers, StationStores, Acknowledged,
      ReceivedOther, FillReceived, IrqStored, Again, Upset
<1>3. CASE WaitForEvent \/ Boot \/ Setup \/ RoleChanged \/ HandleMessage \/ HandleSetMode
           \/ HandleFill \/ FillStored \/ Discover \/ StationDiscovery
  BY <1>3
  DEF WaitForEvent, Boot, Setup, RoleChanged, HandleMessage, HandleSetMode, HandleFill,
      FillStored, Discover, StationDiscovery, AskForRadio, Upset
<1>4. CASE BeginTransmit \/ BeginStation \/ OpenWindow1 \/ OpenWindow2 \/ EndUse
           \/ BeginTransfer \/ TransferSuspended \/ EndTransfer \/ EndStation
  BY <1>4
  DEF BeginTransmit, BeginStation, OpenWindow1, OpenWindow2, EndUse, BeginTransfer,
      TransferSuspended, EndTransfer, EndStation, Upset
<1>5. CASE FlashThread \/ GpsThread \/ GateExpires
  BY <1>5
  DEF FlashThread, FlashStore, FlashGetAll, OffloadStarts, FlashSends, FlashSent, OffloadOver,
      GpsThread, GpsStart, GpsFix, GpsResume, GateExpires, Upset
<1>6. CASE Outside \/ UNCHANGED vars
  BY <1>6
  DEF Outside, Lp0Event, PingTimer, LorawanEvent, SetMode, SetRole, Store, Upset, vars
<1> QED
  BY <1>1, <1>2, <1>3, <1>4, <1>5, <1>6 DEF Next, Lp0Thread

LEMMA PingsStep ==
    ASSUME TypeOK, PingsGoOn, [Next]_vars
    PROVE  PingsGoOn'
<1>0. Lp0Typed /\ ModeTyped /\ lp0Que \in Seq(Lp0Events) /\ Len(lp0Que) <= Lp0QueMax
  BY Parts DEF Lp0QueTyped
<1>1. ASSUME Acknowledged PROVE PingsGoOn'
  BY <1>1 DEF Acknowledged, PingsGoOn
<1>2. ASSUME IrqStored PROVE PingsGoOn'
  <2>1. lp0'.offload = lp0.offload /\ UNCHANGED <<mode, lp0Que, ping>>
    BY <1>0, <1>2 DEF IrqStored, Lp0Typed
  <2>2. upset \subseteq upset'
    BY UpsetGrows
  <2> QED BY <2>1, <2>2 DEF PingsGoOn, Excused
<1>3. ASSUME WaitForEvent PROVE PingsGoOn'
  <2>1. lp0'.offload = lp0.offload /\ UNCHANGED <<mode, lp0Que, ping>>
    BY <1>0, <1>3 DEF WaitForEvent, Lp0Typed
  <2>2. upset \subseteq upset'
    BY UpsetGrows
  <2> QED BY <2>1, <2>2 DEF PingsGoOn, Excused
<1>4. ASSUME Boot PROVE PingsGoOn'
  BY <1>4 DEF Boot, PingsGoOn
<1>5. ASSUME Setup PROVE PingsGoOn'
  <2>1. lp0'.offload = role /\ (role = 1 => ping')
    BY <1>0, <1>5 DEF Setup, Lp0Typed
  <2> QED BY <2>1 DEF PingsGoOn
<1>6. ASSUME RoleChanged PROVE PingsGoOn'
  BY <1>6 DEF RoleChanged, PingsGoOn
<1>7. ASSUME HandleMessage PROVE PingsGoOn'
  <2>1. lp0Que # <<>> /\ Head(lp0Que) = "message" /\ lp0Que' = Tail(lp0Que)
    BY <1>7 DEF HandleMessage, Handles
  <2>2. Queued("discover", lp0Que) => Queued("discover", lp0Que')
    BY <1>0, <2>1, QueuedTail
  <2>3. UNCHANGED <<mode, ping>> /\ lp0'.offload = lp0.offload /\ upset \subseteq upset'
    BY <1>0, <1>7, UpsetGrows DEF HandleMessage, AskForRadio, Lp0Typed
  <2> QED BY <2>2, <2>3 DEF PingsGoOn, Excused
<1>8. ASSUME HandleSetMode PROVE PingsGoOn'
  <2>1. CASE mode' \in {"SETUP", "DISCOVERY"}
    BY <2>1 DEF PingsGoOn
  <2>2. CASE "mode" \in upset'
    BY <2>2 DEF PingsGoOn, Excused
  <2> QED BY <1>8, <2>1, <2>2 DEF HandleSetMode, Upset
<1>9. ASSUME HandleFill PROVE PingsGoOn'
  <2>1. lp0Que # <<>> /\ Head(lp0Que) = "fill" /\ lp0Que' = Tail(lp0Que)
    BY <1>9 DEF HandleFill, Handles
  <2>2. Queued("discover", lp0Que) => Queued("discover", lp0Que')
    BY <1>0, <2>1, QueuedTail
  <2>3. UNCHANGED <<mode, ping>> /\ lp0'.offload = lp0.offload /\ upset \subseteq upset'
    BY <1>0, <1>9 DEF HandleFill, Upset, Lp0Typed
  <2> QED BY <2>2, <2>3 DEF PingsGoOn, Excused
<1>10. ASSUME FillStored PROVE PingsGoOn'
  <2>1. lp0'.offload = lp0.offload /\ UNCHANGED <<lp0Que, ping>>
    BY <1>0, <1>10 DEF FillStored, Loop, Lp0Typed
  <2>2. mode' = "SETUP" \/ mode' = mode
    BY <1>10 DEF FillStored, ModeAfterHandler
  <2>3. upset \subseteq upset'
    BY UpsetGrows
  <2> QED BY <2>1, <2>2, <2>3 DEF PingsGoOn, Excused
<1>11. ASSUME Discover PROVE PingsGoOn'
  <2>1. lp0'.offload = lp0.offload /\ UNCHANGED <<mode, lp0Que, ping>>
    BY <1>0, <1>11 DEF AskForRadio, Discover, Lp0Typed
  <2>2. upset \subseteq upset'
    BY UpsetGrows
  <2> QED BY <2>1, <2>2 DEF PingsGoOn, Excused
<1>12. ASSUME StationDiscovery PROVE PingsGoOn'
  <2>1. lp0'.offload = lp0.offload /\ UNCHANGED <<mode, lp0Que, ping>>
    BY <1>0, <1>12 DEF AskForRadio, StationDiscovery, Lp0Typed
  <2>2. upset \subseteq upset'
    BY UpsetGrows
  <2> QED BY <2>1, <2>2 DEF PingsGoOn, Excused
<1>13. ASSUME BeginTransmit PROVE PingsGoOn'
  <2>1. lp0'.offload = lp0.offload /\ UNCHANGED <<mode, lp0Que, ping>>
    BY <1>0, <1>13 DEF BeginTransmit, Lp0Typed
  <2>2. upset \subseteq upset'
    BY UpsetGrows
  <2> QED BY <2>1, <2>2 DEF PingsGoOn, Excused
<1>14. ASSUME BeginStation PROVE PingsGoOn'
  <2>1. lp0'.offload = lp0.offload /\ UNCHANGED <<mode, lp0Que, ping>>
    BY <1>0, <1>14 DEF BeginStation, Lp0Typed
  <2>2. upset \subseteq upset'
    BY UpsetGrows
  <2> QED BY <2>1, <2>2 DEF PingsGoOn, Excused
<1>15. ASSUME OpenWindow1 PROVE PingsGoOn'
  <2>1. lp0'.offload = lp0.offload /\ UNCHANGED <<mode, lp0Que, ping>>
    BY <1>0, <1>15 DEF OpenWindow1, Lp0Typed
  <2>2. upset \subseteq upset'
    BY UpsetGrows
  <2> QED BY <2>1, <2>2 DEF PingsGoOn, Excused
<1>16. ASSUME OpenWindow2 PROVE PingsGoOn'
  <2>1. lp0'.offload = lp0.offload /\ UNCHANGED <<mode, lp0Que, ping>>
    BY <1>0, <1>16 DEF OpenWindow2, Lp0Typed
  <2>2. upset \subseteq upset'
    BY UpsetGrows
  <2> QED BY <2>1, <2>2 DEF PingsGoOn, Excused
<1>17. ASSUME EndUse PROVE PingsGoOn'
  <2>1. lp0'.offload = lp0.offload /\ lp0Que' = lp0Que /\ upset \subseteq upset'
    BY <1>0, <1>17 DEF EndUse, Loop, Upset, Lp0Typed
  <2>2. CASE lp0.job = "ping" /\ mode = "DISCOVERY"
    BY <1>17, <2>2 DEF EndUse, PingsGoOn
  <2>3. CASE ~(lp0.job = "ping" /\ mode = "DISCOVERY")
    <3>1. mode' = ModeAfterHandler /\ (ping => ping')
      BY <1>17, <2>3 DEF EndUse
    <3>2. mode' = "SETUP" \/ mode' = mode
      BY <3>1 DEF ModeAfterHandler
    <3> QED BY <2>1, <3>1, <3>2 DEF PingsGoOn, Excused
  <2> QED BY <2>2, <2>3
<1>18. ASSUME BeginTransfer PROVE PingsGoOn'
  <2>1. lp0'.offload = lp0.offload /\ UNCHANGED <<mode, lp0Que, ping>>
    BY <1>0, <1>18 DEF BeginTransfer, Lp0Typed
  <2>2. upset \subseteq upset'
    BY UpsetGrows
  <2> QED BY <2>1, <2>2 DEF PingsGoOn, Excused
<1>19. ASSUME TransferSuspended PROVE PingsGoOn'
  <2>1. lp0'.offload = lp0.offload /\ UNCHANGED <<mode, lp0Que, ping>>
    BY <1>0, <1>19 DEF TransferSuspended, Lp0Typed
  <2>2. upset \subseteq upset'
    BY UpsetGrows
  <2> QED BY <2>1, <2>2 DEF PingsGoOn, Excused
<1>20. ASSUME EndTransfer PROVE PingsGoOn'
  BY <1>20 DEF EndTransfer, PingsGoOn
<1>21. ASSUME EndStation PROVE PingsGoOn'
  <2>1. lp0'.offload = lp0.offload /\ UNCHANGED <<mode, lp0Que, ping>>
    BY <1>0, <1>21 DEF Loop, EndStation, Lp0Typed
  <2>2. upset \subseteq upset'
    BY UpsetGrows
  <2> QED BY <2>1, <2>2 DEF PingsGoOn, Excused
<1>22. ASSUME Lp0Event PROVE PingsGoOn'
  <2>1. PICK e \in Lp0Events : PutLp0(e)
    BY <1>22 DEF Lp0Event, Lp0Events
  <2>2. UNCHANGED <<mode, lp0, ping>> /\ upset \subseteq upset'
    BY <1>22 DEF Lp0Event, Upset
  <2>3. CASE Len(lp0Que) = Lp0QueMax
    <3>1. "dropped" \in upset'
      BY <1>22, <2>3 DEF Lp0Event, Upset, When
    <3> QED BY <3>1 DEF PingsGoOn, Excused
  <2>4. CASE Len(lp0Que) # Lp0QueMax
    <3>1. Len(Append(lp0Que, e)) <= Lp0QueMax
      BY <1>0, <2>4, AppendProperties, LenProperties, Sizes
    <3>2. Queued("discover", lp0Que) => Queued("discover", lp0Que')
      BY <1>0, <2>1, <3>1, QueuedAppend DEF PutLp0, Newest
    <3> QED BY <2>2, <3>2 DEF PingsGoOn, Excused
  <2> QED BY <2>3, <2>4
<1>23. ASSUME PingTimer PROVE PingsGoOn'
  <2>1. UNCHANGED <<mode, lp0>>
    BY <1>23 DEF PingTimer
  <2>2. Queued("discover", lp0Que') \/ "dropped" \in upset'
    <3>1. "discover" \in Lp0Events
      BY DEF Lp0Events
    <3> QED BY <1>0, <1>23, <3>1, QueuedAppend DEF PingTimer, Upset
  <2> QED BY <2>1, <2>2 DEF PingsGoOn, Excused
<1>24. ASSUME SetMode PROVE PingsGoOn'
  <2>1. "mode" \in upset'
    BY <1>24 DEF SetMode, Upset
  <2> QED BY <2>1 DEF PingsGoOn, Excused
<1>25. ASSUME LorawanSuspend \/ LorawanResume \/ LorawanRetake \/ LorawanJob
            \/ LorawanJobEnds \/ LorawanMessage \/ LorawanTxDone \/ TxDone
            \/ RxTimeout \/ RxError \/ StationAnswers \/ StationStores
            \/ ReceivedOther \/ FillReceived \/ FlashStore \/ FlashGetAll
            \/ OffloadStarts \/ FlashSends \/ FlashSent \/ OffloadOver
            \/ GpsStart \/ GpsFix \/ GpsResume \/ LorawanEvent \/ SetRole
            \/ Store \/ GateExpires \/ UNCHANGED vars
      PROVE  PingsGoOn'
  <2>1. UNCHANGED <<mode, lp0, ping, lp0Que>>
    BY <1>25
    DEF LorawanSuspend, LorawanResume, LorawanRetake, LorawanJob,
        LorawanJobEnds, LorawanMessage, LorawanTxDone, TxDone, RxTimeout,
        RxError, StationAnswers, StationStores, ReceivedOther, FillReceived,
        FlashStore, FlashGetAll, OffloadStarts, FlashSends, FlashSent,
        OffloadOver, GpsStart, GpsFix, GpsResume, LorawanEvent, SetRole,
        Store, GateExpires, vars, lp0vars, radio, lrvars, flashvars
  <2>2. upset \subseteq upset'
    BY UpsetGrows
  <2> QED BY <2>1, <2>2 DEF PingsGoOn, Excused
<1> QED
  BY <1>1, <1>2, <1>3, <1>4, <1>5, <1>6, <1>7, <1>8, <1>9, <1>10, <1>11, <1>12, <1>13, <1>14, <1>15, <1>16, <1>17, <1>18, <1>19, <1>20, <1>21, <1>22, <1>23, <1>24, <1>25
  DEF Next, LorawanThread, IrqThread, Lp0Thread, FlashThread, GpsThread,
      Outside

LEMMA PingsInit == Init => PingsGoOn
BY DEF Init, PingsGoOn

-----------------------------------------------------------------------------
(* Who has the radio                                                       *)

(* What LoRaWAN is still to be told: no command, or one.                   *)
Orders == {"suspend", "resume"}
NonePending(que) == \A i \in 1 .. Len(que) : que[i] \notin Orders
OnePending(que, e) ==
    \E k \in 1 .. Len(que) : /\ que[k] = e
                             /\ \A i \in 1 .. Len(que) : que[i] \in Orders => i = k

(* A queue that is not full takes one more entry behind the others.        *)
LEMMA PendingPut ==
    ASSUME NEW que \in Seq(LrEvents), NEW f \in LrEvents, NEW max \in Nat,
           Len(que) <= max, Len(que) # max
    PROVE  LET put == Newest(Append(que, f), max)
           IN  /\ NonePending(que) /\ f \notin Orders => NonePending(put)
               /\ NonePending(que) /\ f \in Orders => OnePending(put, f)
               /\ \A e : OnePending(que, e) /\ f \notin Orders => OnePending(put, e)
<1> DEFINE q == Append(que, f)
           n == Len(que)
<1>1. /\ q \in Seq(LrEvents) /\ Len(q) = n + 1 /\ n \in Nat
      /\ \A i \in 1 .. n : q[i] = que[i]
      /\ q[n + 1] = f
  BY AppendProperties, LenProperties
<1>2. n = Len(que)
  OBVIOUS
<1> HIDE DEF q, n
<1>3. Newest(q, max) = q
  BY <1>1, <1>2 DEF Newest
<1>4. \A i \in 1 .. n + 1 : i \in 1 .. n \/ i = n + 1
  BY <1>1
<1>5. (\A i \in 1 .. n : i \in 1 .. n + 1) /\ n + 1 \in 1 .. n + 1
  BY <1>1
<1>6. NonePending(que) /\ f \notin Orders => NonePending(q)
  BY <1>1, <1>2, <1>4 DEF NonePending
<1>7. NonePending(que) /\ f \in Orders => OnePending(q, f)
  BY <1>1, <1>2, <1>4, <1>5 DEF NonePending, OnePending
<1>8. ASSUME NEW e, OnePending(que, e), f \notin Orders
      PROVE  OnePending(q, e)
  <2>1. PICK k \in 1 .. n : que[k] = e /\ \A i \in 1 .. n : que[i] \in Orders => i = k
    BY <1>2, <1>8 DEF OnePending
  <2>2. k \in 1 .. n + 1 /\ q[k] = e
    BY <1>1, <1>5, <2>1
  <2>3. \A i \in 1 .. n + 1 : q[i] \in Orders => i = k
    BY <1>1, <1>4, <1>8, <2>1
  <2> QED BY <1>1, <2>2, <2>3 DEF OnePending
<1> QED BY <1>3, <1>6, <1>7, <1>8 DEF q

LEMMA PendingTake ==
    ASSUME NEW que \in Seq(LrEvents), que # <<>>
    PROVE  /\ NonePending(que) => NonePending(Tail(que)) /\ Head(que) \notin Orders
           /\ \A e : OnePending(que, e) =>
                 /\ Head(que) \in Orders => Head(que) = e /\ NonePending(Tail(que))
                 /\ Head(que) \notin Orders => OnePending(Tail(que), e) \/ e \notin Orders
<1> DEFINE q == Tail(que)
           n == Len(que)
<1>1. /\ q \in Seq(LrEvents) /\ Len(q) = n - 1
      /\ \A i \in 1 .. Len(q) : q[i] = que[i + 1]
      /\ Head(que) = que[1]
  BY HeadTailProperties
<1>2. n \in Nat /\ n # 0 /\ n = Len(que)
  BY LenProperties, EmptySeq
<1> HIDE DEF q, n
<1>3. /\ 1 \in 1 .. n
      /\ \A i \in 1 .. n - 1 : i + 1 \in 1 .. n /\ i + 1 # 1
      /\ \A i \in 1 .. n : i = 1 \/ (i - 1 \in 1 .. n - 1 /\ (i - 1) + 1 = i)
  BY <1>2
<1>4. \A i \in 1 .. n - 1 : i + 1 \in 1 .. n /\ i + 1 # 1 /\ q[i] = que[i + 1]
  BY <1>1, <1>3
<1>5. NonePending(que) => NonePending(q) /\ Head(que) \notin Orders
  BY <1>1, <1>2, <1>3, <1>4 DEF NonePending
<1>6. ASSUME NEW e, OnePending(que, e)
      PROVE  /\ Head(que) \in Orders => Head(que) = e /\ NonePending(q)
             /\ Head(que) \notin Orders => OnePending(q, e) \/ e \notin Orders
  <2>1. PICK k \in 1 .. n : que[k] = e /\ \A i \in 1 .. n : que[i] \in Orders => i = k
    BY <1>2, <1>6 DEF OnePending
  <2>2. CASE Head(que) \in Orders
    <3>1. k = 1 /\ Head(que) = e
      BY <1>1, <1>3, <2>1, <2>2
    <3>2. NonePending(q)
      BY <1>1, <1>4, <2>1, <3>1 DEF NonePending
    <3> QED BY <2>2, <3>1, <3>2
  <2>3. CASE Head(que) \notin Orders /\ e \in Orders
    <3>1. k # 1
      BY <1>1, <2>1, <2>3
    <3> DEFINE j == k - 1
    <3>2. j \in 1 .. n - 1 /\ j + 1 = k
      BY <1>3, <3>1
    <3>3. \A i \in 1 .. n - 1 : i + 1 = k => i = j
      BY <1>2, <3>2
    <3> HIDE DEF j
    <3>4. q[j] = e /\ \A i \in 1 .. n - 1 : q[i] \in Orders => i = j
      BY <1>4, <2>1, <3>2, <3>3
    <3>5. OnePending(q, e)
      BY <1>1, <3>2, <3>4 DEF OnePending
    <3> QED BY <2>3, <3>5
  <2> QED BY <2>2, <2>3
<1> QED BY <1>5, <1>6 DEF q

LEMMA PendingEmpty == \A e : ~OnePending(<<>>, e)
<1>1. 1 .. Len(<<>>) = {}
  BY EmptySeq
<1> QED BY <1>1 DEF OnePending

(* The places of the LP0 thread: it has no use for the radio, asks for it, *)
(* or has it.                                                              *)
Free    == {"loop", "events", "fill"}
Asking  == {"suspending", "transfer"}
Holding == {"transmit", "window1", "window2", "station", "offload"}

(* The modem runs, or it is suspended and nothing keeps the LoRaWAN thread *)
(* from taking its next event.                                             *)
Running   == lr.state = "ENGINE" /\ lr.on
Suspended == lr.state = "SUSPENDED" /\ ~lr.on /\ lr.at = "idle" /\ ~lr.txWait

(* The six stages of a use of the radio.                                   *)
LorawanHas == Running /\ lr.at = "idle" /\ NonePending(lrQue) /\ sem.chip = 0
Requested  == Running /\ lr.at = "idle" /\ OnePending(lrQue, "suspend") /\ sem.chip = 0
Granted    == Suspended /\ NonePending(lrQue) /\ sem.chip = 1
Lp0Has     == Suspended /\ NonePending(lrQue) /\ sem.chip = 0
Returned   == Suspended /\ OnePending(lrQue, "resume") /\ sem.chip = 1
Retaking   == Running /\ lr.at = "retake" /\ NonePending(lrQue) /\ sem.chip = 1

Handover ==
    /\ gps = "idle" /\ lr.at # "job"
    /\ lp0.suspended => lp0.at \in {"transfer", "offload"}
    /\ lp0.at \in Free => LorawanHas \/ Returned \/ Retaking
    /\ lp0.at \in Asking => Requested \/ Granted
    /\ lp0.at \in Holding => Lp0Has

(* Without a use of the radio no task is recorded, and none outlasts it.   *)
Tasks ==
    /\ air => task # "IDLE"
    /\ lp0.at \in Free \cup Asking => task = "IDLE" /\ irq = 0
    /\ lp0.at = "transmit" => irq = 0 /\ task \in {"IDLE", "TX"}
    /\ lp0.at = "station" =>
          (sem.done = 1 => task = "IDLE" /\ irq = 0) /\ (irq > 0 => task = "IDLE")
    /\ lp0.at = "offload" =>
          irq = 0 /\ (task # "IDLE" => task = "TX" /\ flash.at = "sent" /\ sem.send = 0)

(* The handover is upset for good by what the code cannot make good.       *)
Spoilt == Excused({"fix", "job", "fault", "open", "stale", "lost"})

(* What a step must leave alone for the stages to remain.                  *)
LEMMA HandoverKept ==
    ASSUME Handover, UNCHANGED <<lr, lrQue, gps>>, sem'.chip = sem.chip,
           lp0'.suspended => lp0'.at \in {"transfer", "offload"},
           \/ lp0'.at = lp0.at
           \/ lp0.at \in Free /\ lp0'.at \in Free
           \/ lp0.at \in Holding /\ lp0'.at \in Holding
    PROVE  Handover'
<1>1. /\ LorawanHas' <=> LorawanHas
      /\ Requested' <=> Requested
      /\ Granted' <=> Granted
      /\ Lp0Has' <=> Lp0Has
      /\ Returned' <=> Returned
      /\ Retaking' <=> Retaking
  BY DEF LorawanHas, Requested, Granted, Lp0Has, Returned, Retaking, Running, Suspended
<1> QED BY <1>1 DEF Handover, Free, Asking, Holding

(* The LP0 thread is in one of three kinds of places.                      *)
LEMMA Places ==
    ASSUME Lp0Typed
    PROVE  /\ lp0.at \in Free \/ lp0.at \in Asking \/ lp0.at \in Holding
           /\ Free \cap Asking = {} /\ Free \cap Holding = {} /\ Asking \cap Holding = {}
BY DEF Lp0Typed, Free, Asking, Holding

(* An event is taken by a thread that rests: no stage but three is left.   *)
LEMMA PendingEvent ==
    ASSUME LrQueTyped, NEW e, TakeEvent(e)
    PROVE  /\ lr.at = "idle" /\ ~lr.txWait
           /\ NonePending(lrQue) => NonePending(lrQue') /\ e \notin Orders
           /\ \A f : OnePending(lrQue, f) =>
                 /\ e \in Orders => e = f /\ NonePending(lrQue')
                 /\ e \notin Orders => OnePending(lrQue', f) \/ f \notin Orders
<1>1. lrQue # <<>> /\ Head(lrQue) = e /\ lrQue' = Tail(lrQue) /\ lr.at = "idle" /\ ~lr.txWait
  BY DEF TakeEvent, Ready, Runs
<1>2. lrQue \in Seq(LrEvents)
  BY DEF LrQueTyped
<1> QED BY <1>1, <1>2, PendingTake

(* A step of the LoRaWAN thread takes the handover one stage further, or   *)
(* leaves it where it is.                                                  *)
LEMMA LorawanHands ==
    ASSUME TypeOK, Handover, LorawanThread, ~Spoilt'
    PROVE  Handover'
<1>0. LrTyped /\ SemTyped /\ Lp0Typed /\ LrQueTyped
  BY Parts
<1>1. lp0' = lp0 /\ gps' = gps
  BY DEF LorawanThread, LorawanSuspend, LorawanResume, LorawanRetake, LorawanJob,
     LorawanJobEnds, LorawanMessage, LorawanTxDone, lp0vars
<1>2. "suspend" \in Orders /\ "resume" \in Orders /\ "uplink" \notin Orders
  BY DEF Orders
<1>3. \/ lp0.at \in Free /\ (LorawanHas \/ Returned \/ Retaking)
      \/ lp0.at \in Asking /\ (Requested \/ Granted)
      \/ lp0.at \in Holding /\ Lp0Has
  BY <1>0, Places DEF Handover
<1>4. ASSUME lr'.at # "job",
             \/ lp0.at \in Free /\ (LorawanHas \/ Returned \/ Retaking)'
             \/ lp0.at \in Asking /\ (Requested \/ Granted)'
             \/ lp0.at \in Holding /\ Lp0Has'
      PROVE  Handover'
  BY <1>0, <1>1, <1>4, Places DEF Handover
<1>5. CASE LorawanSuspend
  <2>1. TakeEvent("suspend") /\ "fault" \notin upset'
    BY <1>5 DEF LorawanSuspend, Spoilt, Excused
  <2>2. lr.at = "idle" /\ ~lr.txWait /\ lp0.at \in Asking /\ Requested /\ NonePending(lrQue')
    BY <1>0, <1>2, <1>3, <2>1, PendingEvent
    DEF LorawanHas, Requested, Granted, Lp0Has, Returned, Retaking
  <2>3. /\ lr' = [lr EXCEPT !.state = "SUSPENDED", !.enabled = FALSE, !.on = FALSE]
        /\ sem' = Give("chip")
    BY <1>5, <2>1, <2>2 DEF LorawanSuspend, Requested, Running, Upset
  <2>4. Suspended' /\ sem'.chip = 1 /\ lr'.at = "idle"
    BY <1>0, <2>2, <2>3 DEF Suspended, LrTyped, SemTyped, Semaphores, Give
  <2> QED BY <1>4, <2>2, <2>4 DEF Granted
<1>6. CASE LorawanResume
  <2>1. TakeEvent("resume") /\ "fault" \notin upset'
    BY <1>6 DEF LorawanResume, Spoilt, Excused
  <2>2. lr.at = "idle" /\ ~lr.txWait /\ lp0.at \in Free /\ Returned /\ NonePending(lrQue')
    BY <1>0, <1>2, <1>3, <2>1, PendingEvent
    DEF LorawanHas, Requested, Granted, Lp0Has, Returned, Retaking
  <2>3. /\ lr' = [lr EXCEPT !.state = "ENGINE", !.enabled = TRUE, !.on = TRUE, !.at = "retake"]
        /\ sem' = sem
    BY <1>6, <2>1, <2>2 DEF LorawanResume, Returned, Suspended, Upset
  <2>4. Running' /\ lr'.at = "retake" /\ sem'.chip = 1
    BY <1>0, <2>2, <2>3 DEF Running, Returned, LrTyped
  <2> QED BY <1>4, <2>2, <2>4 DEF Retaking
<1>7. CASE LorawanRetake
  <2>1. lr.at = "retake"
    BY <1>7 DEF LorawanRetake, Retakes, RetakeTimesOut
  <2>2. lp0.at \in Free /\ Retaking
    BY <1>3, <2>1 DEF LorawanHas, Requested, Granted, Lp0Has, Returned, Suspended
  <2>3. sem' = Take("chip") /\ lr' = [lr EXCEPT !.at = "idle"] /\ lrQue' = lrQue
    BY <1>7, <2>2 DEF LorawanRetake, RetakeTimesOut, Retaking
  <2>4. Running' /\ lr'.at = "idle" /\ sem'.chip = 0
    BY <1>0, <2>2, <2>3 DEF Running, Retaking, LrTyped, SemTyped, Semaphores, Take
  <2> QED BY <1>4, <2>2, <2>3, <2>4 DEF LorawanHas, Retaking
<1>8. CASE LorawanJob
  BY <1>8 DEF LorawanJob, Upset, Spoilt, Excused
<1>9. CASE LorawanJobEnds
  BY <1>9 DEF LorawanJobEnds, Handover
<1>10. CASE LorawanMessage
  <2>1. TakeEvent("uplink") /\ sem' = sem
    BY <1>10 DEF LorawanMessage
  <2>2. lr' = [lr EXCEPT !.txWait = (lr.state = "ENGINE" /\ lr.enabled)]
    BY <1>10 DEF LorawanMessage
  <2>3. lr'.at = "idle" /\ (Running' <=> Running) /\ (Suspended => Suspended')
    BY <1>0, <2>1, <2>2, PendingEvent DEF Running, Suspended, LrTyped
  <2>4. /\ NonePending(lrQue) => NonePending(lrQue')
        /\ OnePending(lrQue, "suspend") => OnePending(lrQue', "suspend")
        /\ OnePending(lrQue, "resume") => OnePending(lrQue', "resume")
    BY <1>0, <1>2, <2>1, PendingEvent
  <2>5. ~Retaking
    BY <1>0, <2>1, PendingEvent DEF Retaking
  <2> QED
    BY <1>3, <1>4, <2>1, <2>3, <2>4, <2>5
    DEF LorawanHas, Requested, Granted, Lp0Has, Returned
<1>11. CASE LorawanTxDone
  <2>1. lr.txWait /\ lr.at = "idle" /\ lr' = [lr EXCEPT !.txWait = FALSE] /\ UNCHANGED <<sem, lrQue>>
    BY <1>11 DEF LorawanTxDone
  <2>2. ~Suspended /\ lr'.at = "idle" /\ (Running' <=> Running)
    BY <1>0, <2>1 DEF Suspended, Running, LrTyped
  <2>3. ~Retaking
    BY <2>1 DEF Retaking
  <2> QED
    BY <1>3, <1>4, <2>1, <2>2, <2>3
    DEF LorawanHas, Requested, Granted, Lp0Has, Returned
<1> QED BY <1>5, <1>6, <1>7, <1>8, <1>9, <1>10, <1>11 DEF LorawanThread

(* An entry put on event_que is behind all others, or one was lost.        *)
LEMMA OrderPut ==
    ASSUME TypeOK, NEW e \in LrEvents, PutLorawan(e), Loses \subseteq upset', ~Spoilt'
    PROVE  /\ NonePending(lrQue) /\ e \notin Orders => NonePending(lrQue')
           /\ NonePending(lrQue) /\ e \in Orders => OnePending(lrQue', e)
           /\ \A f : OnePending(lrQue, f) /\ e \notin Orders => OnePending(lrQue', f)
<1>1. lrQue \in Seq(LrEvents) /\ Len(lrQue) <= LrQueMax /\ LrQueMax \in Nat
  BY Parts, Sizes DEF LrQueTyped
<1>2. Len(lrQue) # LrQueMax
  BY DEF Loses, When, Spoilt, Excused
<1>3. lrQue' = Newest(Append(lrQue, e), LrQueMax)
  BY DEF PutLorawan
<1> QED BY <1>1, <1>2, <1>3, PendingPut

(* A step of the LP0 thread does, too: it asks for the radio, finds it     *)
(* granted, or gives it back.                                              *)
LEMMA Lp0Hands ==
    ASSUME TypeOK, Handover, Lp0Thread, ~Spoilt'
    PROVE  Handover'
<1>0. LrTyped /\ SemTyped /\ Lp0Typed /\ LrQueTyped
  BY Parts
<1>1. Yield
  BY DEF Lp0Thread, WaitForEvent, Boot, Setup, RoleChanged, HandleMessage, HandleSetMode,
     HandleFill, FillStored, Discover, StationDiscovery, BeginTransmit, BeginStation,
     OpenWindow1, OpenWindow2, EndUse, BeginTransfer, TransferSuspended, EndTransfer,
     EndStation, Handles, At
<1>2. gps' = gps /\ lr' = lr
  BY DEF Lp0Thread, WaitForEvent, Boot, Setup, RoleChanged, HandleMessage, HandleSetMode,
     HandleFill, FillStored, Discover, StationDiscovery, BeginTransmit, BeginStation,
     OpenWindow1, OpenWindow2, EndUse, BeginTransfer, TransferSuspended, EndTransfer,
     EndStation, AskForRadio, lrvars
<1>3. gps' = "idle" /\ lr'.at # "job" /\ (Running' <=> Running) /\ (Suspended' <=> Suspended)
  BY <1>2 DEF Handover, Running, Suspended
<1>4. "suspend" \in Orders /\ "resume" \in Orders /\ "suspend" \in LrEvents /\ "resume" \in LrEvents
  BY DEF Orders, LrEvents
<1>5. lp0.at \in Free => LorawanHas /\ ~lp0.suspended
  <2>1. ~Returned
    BY <1>1, PendingEmpty DEF Yield, Ready, Runs, Returned, Suspended
  <2>2. ASSUME lp0.at \in Free, Retaking PROVE FALSE
    BY <1>1, <2>2 DEF Yield, Retakes, Owed, Retaking, Free
  <2> QED BY <2>1, <2>2 DEF Handover, Free
<1>6. lp0.at \in Asking /\ WaitEnds => Granted
  BY PendingEmpty DEF Handover, WaitEnds, Settled, Requested
<1>7. ASSUME lp0'.at \in Free, ~lp0'.suspended, LorawanHas' \/ Returned' PROVE Handover'
  BY <1>3, <1>7 DEF Handover, Free, Asking, Holding
<1>8. ASSUME lp0'.at \in Asking, lp0'.suspended => lp0'.at = "transfer", Requested' PROVE Handover'
  BY <1>3, <1>8 DEF Handover, Free, Asking, Holding
<1>9. ASSUME lp0'.at \in Holding, lp0'.suspended => lp0'.at = "offload", Lp0Has' PROVE Handover'
  BY <1>3, <1>9 DEF Handover, Free, Asking, Holding
<1>10. CASE WaitForEvent \/ Boot \/ Setup \/ RoleChanged \/ HandleSetMode \/ HandleFill \/ FillStored
  <2>1. lp0.at \in Free /\ lp0'.at \in Free /\ lp0'.suspended = lp0.suspended
    BY <1>0, <1>10
    DEF WaitForEvent, Boot, Setup, RoleChanged, HandleSetMode, HandleFill, FillStored, Handles,
        At, Loop, Lp0Typed, Free, lp0vars
  <2>2. lrQue' = lrQue /\ sem'.chip = sem.chip
    BY <1>0, <1>10
    DEF WaitForEvent, Boot, Setup, RoleChanged, HandleSetMode, HandleFill, FillStored, lrvars,
        Take, SemTyped, Semaphores
  <2> QED BY <1>2, <1>3, <1>5, <1>7, <2>1, <2>2 DEF LorawanHas
<1>11. CASE HandleMessage \/ Discover \/ StationDiscovery
  <2>1. PICK job \in {"message", "ping", "station"} : AskForRadio(job) /\ lp0.at \in Free
    BY <1>11 DEF HandleMessage, Discover, StationDiscovery, Handles, At, Free
  <2>2. lp0'.at = "suspending" /\ lp0'.suspended = lp0.suspended /\ sem'.chip = 0
    BY <1>0, <2>1 DEF AskForRadio, Lp0Typed, Take, SemTyped, Semaphores
  <2>3. PutLorawan("suspend") /\ Loses \subseteq upset'
    BY <2>1 DEF AskForRadio, Upset
  <2>4. OnePending(lrQue', "suspend")
    BY <1>4, <1>5, <2>1, <2>3, OrderPut DEF LorawanHas
  <2>5. Requested'
    BY <1>2, <1>3, <1>5, <2>1, <2>2, <2>4 DEF LorawanHas, Requested
  <2> QED BY <1>5, <1>8, <2>1, <2>2, <2>5 DEF Asking
<1>12. CASE BeginTransfer
  <2>1. lp0.at \in Free
    BY <1>12 DEF BeginTransfer, At, Free
  <2>2. /\ lp0' = [lp0 EXCEPT !.at = "transfer", !.suspended = TRUE]
        /\ PutLorawan("suspend") /\ Loses \subseteq upset' /\ sem' = sem
    BY <1>5, <1>12, <2>1 DEF BeginTransfer, Upset
  <2>3. OnePending(lrQue', "suspend")
    BY <1>4, <1>5, <2>1, <2>2, OrderPut DEF LorawanHas
  <2>4. Requested' /\ lp0'.at = "transfer"
    BY <1>0, <1>2, <1>3, <1>5, <2>1, <2>2, <2>3 DEF LorawanHas, Requested, Lp0Typed
  <2> QED BY <1>8, <2>4 DEF Asking
<1>13. CASE BeginTransmit \/ BeginStation \/ TransferSuspended
  <2>1. lp0.at \in Asking /\ WaitEnds /\ lrQue' = lrQue
    BY <1>13 DEF BeginTransmit, BeginStation, TransferSuspended, At, WaitEnds, Asking, lrvars
  <2>2. sem'.chip = 0
    BY <1>0, <1>13
    DEF BeginTransmit, BeginStation, TransferSuspended, Take, SemTyped, Semaphores
  <2>3. lp0'.at \in Holding /\ (lp0'.suspended => lp0'.at = "offload")
    BY <1>0, <1>13
    DEF BeginTransmit, BeginStation, TransferSuspended, At, Lp0Typed, Holding, Handover
  <2> QED BY <1>3, <1>6, <1>9, <2>1, <2>2, <2>3 DEF Granted, Lp0Has
<1>14. CASE OpenWindow1 \/ OpenWindow2
  <2>1. lp0.at \in Holding /\ lp0'.at \in Holding /\ ~lp0'.suspended
    BY <1>0, <1>14 DEF OpenWindow1, OpenWindow2, At, Lp0Typed, Holding, Handover
  <2>2. lrQue' = lrQue /\ sem'.chip = sem.chip
    BY <1>0, <1>14 DEF OpenWindow1, OpenWindow2, lrvars, Take, SemTyped, Semaphores
  <2> QED BY <1>3, <1>9, <2>1, <2>2 DEF Handover, Lp0Has
<1>15. CASE EndUse \/ EndTransfer \/ EndStation
  <2>1. lp0.at \in Holding
    BY <1>15 DEF EndUse, EndTransfer, EndStation, At, Holding
  <2>2. lp0'.at \in Free /\ ~lp0'.suspended
    BY <1>0, <1>15 DEF EndUse, EndTransfer, EndStation, At, Loop, Lp0Typed, Free, Handover
  <2>3. PutLorawan("resume") /\ Loses \subseteq upset'
    BY <1>15 DEF EndUse, EndTransfer, EndStation, Upset
  <2>4. OnePending(lrQue', "resume")
    BY <1>4, <2>1, <2>3, OrderPut DEF Handover, Lp0Has
  <2>5. sem'.chip = 1
    BY <1>0, <1>15 DEF EndUse, EndTransfer, EndStation, SemTyped, Semaphores
  <2> QED BY <1>3, <1>7, <2>1, <2>2, <2>4, <2>5 DEF Handover, Lp0Has, Returned
<1> QED
  BY <1>10, <1>11, <1>12, <1>13, <1>14, <1>15 DEF Lp0Thread

(* Nobody else touches the handover but a fix and a radio job.             *)
LEMMA OthersHand ==
    ASSUME TypeOK, Handover, ~Spoilt',
           IrqThread \/ FlashThread \/ GpsThread \/ GateExpires \/ Outside \/ UNCHANGED vars
    PROVE  Handover'
<1>0. SemTyped /\ Lp0Typed
  BY Parts
<1>1. CASE IrqThread
  <2>1. UNCHANGED <<lr, lrQue, gps>>
    BY <1>1
    DEF IrqThread, TxDone, RxTimeout, RxError, StationAnswers, StationStores, Acknowledged,
        ReceivedOther, FillReceived, IrqStored, lrvars
  <2>2. sem'.chip = sem.chip
    BY <1>0, <1>1
    DEF IrqThread, TxDone, RxTimeout, RxError, StationAnswers, StationStores, Acknowledged,
        ReceivedOther, FillReceived, IrqStored, Give, Take, SemTyped, Semaphores
  <2>3. lp0'.at = lp0.at /\ (lp0'.suspended => lp0.suspended)
    BY <1>0, <1>1
    DEF IrqThread, TxDone, RxTimeout, RxError, StationAnswers, StationStores, Acknowledged,
        ReceivedOther, FillReceived, IrqStored, Lp0Typed, lp0vars
  <2> QED BY <2>1, <2>2, <2>3, HandoverKept DEF Handover
<1>2. CASE FlashThread
  <2>1. UNCHANGED <<lr, lrQue, gps, lp0>>
    BY <1>2
    DEF FlashThread, FlashStore, FlashGetAll, OffloadStarts, FlashSends, FlashSent, OffloadOver,
        lrvars, lp0vars
  <2>2. sem'.chip = sem.chip
    BY <1>0, <1>2
    DEF FlashThread, FlashStore, FlashGetAll, OffloadStarts, FlashSends, FlashSent, OffloadOver,
        Give, Take, SemTyped, Semaphores
  <2> QED BY <2>1, <2>2, HandoverKept DEF Handover
<1>3. CASE GpsThread
  BY <1>3 DEF GpsThread, GpsStart, GpsFix, GpsResume, Handover, Upset, Spoilt, Excused
<1>4. CASE LorawanEvent
  <2>1. PICK e \in LrEvents : PutLorawan(e) /\ e \notin Orders
    BY <1>4 DEF LorawanEvent, LrEvents, Orders
  <2>2. UNCHANGED <<lr, gps, lp0, sem>> /\ Loses \subseteq upset'
    BY <1>4 DEF LorawanEvent, Upset, lp0vars
  <2>3. /\ NonePending(lrQue) => NonePending(lrQue')
        /\ \A f : OnePending(lrQue, f) => OnePending(lrQue', f)
    BY <2>1, <2>2, OrderPut
  <2>4. (Running' <=> Running) /\ (Suspended' <=> Suspended)
    BY <2>2 DEF Running, Suspended
  <2>5. /\ LorawanHas => LorawanHas'
        /\ Requested => Requested'
        /\ Granted => Granted'
        /\ Lp0Has => Lp0Has'
        /\ Returned => Returned'
        /\ Retaking => Retaking'
    BY <2>2, <2>3, <2>4 DEF LorawanHas, Requested, Granted, Lp0Has, Returned, Retaking
  <2> QED BY <2>2, <2>5 DEF Handover
<1>5. CASE GateExpires \/ Lp0Event \/ PingTimer \/ SetMode \/ SetRole \/ Store \/ UNCHANGED vars
  <2>1. UNCHANGED <<lr, lrQue, gps, lp0, sem>>
    BY <1>5
    DEF GateExpires, Lp0Event, PingTimer, SetMode, SetRole, Store, vars, lrvars, lp0vars
  <2> QED BY <2>1, HandoverKept DEF Handover
<1> QED BY <1>1, <1>2, <1>3, <1>4, <1>5 DEF Outside

LEMMA HandoverStep ==
    ASSUME TypeOK, Handover, [Next]_vars, ~Spoilt'
    PROVE  Handover'
BY LorawanHands, Lp0Hands, OthersHand DEF Next

(* What the steps that start or end a task leave alone.                    *)
Quiet == UNCHANGED <<task, air, irq>> /\ sem'.done = sem.done /\ sem'.send = sem.send

LEMMA TasksStep ==
    ASSUME TypeOK, OffloadPaired, Handover, Tasks, [Next]_vars, ~Spoilt'
    PROVE  Tasks'
<1>0. SemTyped /\ Lp0Typed /\ RadioTyped /\ FlashTyped
  BY Parts
<1>1. "fault" \notin upset' /\ "open" \notin upset' /\ "stale" \notin upset'
  BY DEF Spoilt, Excused
<1>2. ASSUME Quiet, flash' = flash, lp0'.at = lp0.at \/ lp0'.at \in Free \cup Asking,
             lp0'.at \in Free \cup Asking => task = "IDLE" /\ irq = 0
      PROVE  Tasks'
  BY <1>2 DEF Tasks, Quiet, Free, Asking
<1>3. CASE LorawanThread
  <2>1. Quiet /\ UNCHANGED <<flash, lp0>>
    BY <1>0, <1>3
    DEF LorawanThread, LorawanSuspend, LorawanResume, LorawanRetake, LorawanJob, LorawanJobEnds,
        LorawanMessage, LorawanTxDone, Quiet, radio, lp0vars, flashvars, Give, Take, SemTyped,
        Semaphores
  <2> QED BY <1>2, <2>1 DEF Tasks
<1>4. CASE TxDone \/ RxTimeout \/ RxError \/ StationAnswers \/ StationStores \/ Acknowledged
           \/ ReceivedOther \/ FillReceived
  <2>1. Interrupt /\ flash' = flash /\ lp0'.at = lp0.at
    BY <1>0, <1>4
    DEF TxDone, RxTimeout, RxError, StationAnswers, StationStores, Acknowledged, ReceivedOther,
        FillReceived, Receives, DeviceReceives, StationReceives, lp0vars, flashvars, Lp0Typed
  <2>2. irq = 0 /\ task # "IDLE" /\ lp0.at \notin Free \cup Asking
    BY <2>1 DEF Interrupt, Tasks
  <2>3. CASE TxDone
    <3>1. task' = "IDLE" /\ air' = FALSE /\ irq' = irq
      BY <2>3 DEF TxDone, EndTask
    <3> QED BY <2>1, <2>2, <3>1 DEF Tasks
  <2>4. CASE ~TxDone
    <3>1. task \in {"RX", "LISTEN"}
      BY <1>4, <2>4
      DEF RxTimeout, RxError, StationAnswers, StationStores, Acknowledged, ReceivedOther,
          FillReceived, Receives, DeviceReceives, StationReceives
    <3>2. lp0.at \notin {"transmit", "offload"} /\ (lp0.at = "station" => sem.done # 1)
      BY <2>2, <3>1 DEF Tasks
    <3>3. \/ task' = "IDLE" /\ air' = FALSE /\ irq' = irq
          \/ task' # "IDLE" /\ irq' = irq /\ sem' = sem
          \/ task' = "IDLE" /\ air' = FALSE /\ sem' = sem
      BY <1>4, <2>4
      DEF RxTimeout, RxError, StationAnswers, StationStores, Acknowledged, ReceivedOther,
          FillReceived, Receives, DeviceReceives, StationReceives, EndTask, Again
    <3> QED BY <2>1, <2>2, <3>2, <3>3 DEF Tasks
  <2> QED BY <2>3, <2>4
<1>5. CASE IrqStored
  <2>1. irq \in Nat /\ irq > 0 /\ irq' = irq - 1 /\ UNCHANGED <<task, air, flash>> /\ lp0'.at = lp0.at
    BY <1>0, <1>5 DEF IrqStored, Lp0Typed, RadioTyped
  <2>2. lp0.at \notin Free \cup Asking /\ lp0.at \notin {"transmit", "offload"}
    BY <2>1 DEF Tasks
  <2>3. lp0.at = "station" => task = "IDLE"
    BY <2>1 DEF Tasks
  <2>4. sem'.done = sem.done \/ irq' = 0
    BY <1>0, <1>5, <2>1 DEF IrqStored, Take, SemTyped, Semaphores
  <2> QED BY <2>1, <2>2, <2>3, <2>4 DEF Tasks
<1>6. CASE WaitForEvent \/ Boot \/ Setup \/ RoleChanged \/ HandleMessage \/ HandleSetMode
           \/ HandleFill \/ FillStored \/ Discover \/ StationDiscovery
  <2>1. lp0.at \in Free /\ lp0'.at \in Free \cup Asking /\ flash' = flash
    BY <1>0, <1>6
    DEF WaitForEvent, Boot, Setup, RoleChanged, HandleMessage, HandleSetMode, HandleFill,
        FillStored, Discover, StationDiscovery, AskForRadio, Handles, At, Loop, Free, Asking,
        Lp0Typed, lp0vars, flashvars
  <2>2. Quiet
    BY <1>0, <1>6
    DEF WaitForEvent, Boot, Setup, RoleChanged, HandleMessage, HandleSetMode, HandleFill,
        FillStored, Discover, StationDiscovery, AskForRadio, Quiet, radio, Take, SemTyped,
        Semaphores
  <2> QED BY <1>2, <2>1, <2>2 DEF Tasks
<1>7. CASE BeginTransmit
  <2>1. lp0.at \in Asking /\ lp0'.at = "transmit" /\ irq' = irq
    BY <1>0, <1>7 DEF BeginTransmit, At, Lp0Typed, Asking
  <2>2. task = "IDLE" /\ irq = 0
    BY <2>1 DEF Tasks
  <2>3. task' = "TX"
    BY <1>7, <2>2 DEF BeginTransmit, StartTask
  <2> QED BY <2>1, <2>2, <2>3 DEF Tasks, Free, Asking
<1>8. CASE BeginStation
  <2>1. lp0.at \in Asking /\ lp0'.at = "station" /\ irq' = irq
    BY <1>0, <1>8 DEF BeginStation, At, Lp0Typed, Asking
  <2>2. task = "IDLE" /\ irq = 0
    BY <2>1 DEF Tasks
  <2>3. task' = "LISTEN" /\ sem.done # 1
    BY <1>1, <1>8, <2>2 DEF BeginStation, StartTask, Upset, When
  <2>4. sem'.done = sem.done
    BY <1>0, <1>8 DEF BeginStation, Take, SemTyped, Semaphores
  <2> QED BY <2>1, <2>2, <2>3, <2>4 DEF Tasks, Free, Asking
<1>9. CASE OpenWindow1 \/ OpenWindow2
  <2>1. lp0'.at \in {"window1", "window2"}
    BY <1>0, <1>9 DEF OpenWindow1, OpenWindow2, Lp0Typed
  <2>2. air' => task' # "IDLE"
    BY <1>9 DEF OpenWindow1, OpenWindow2, StartTask, Tasks
  <2> QED BY <2>1, <2>2 DEF Tasks, Free, Asking
<1>10. CASE EndUse
  <2>1. lp0'.at = "loop" /\ UNCHANGED <<task, air, irq>>
    BY <1>0, <1>10 DEF EndUse, Loop, Lp0Typed, radio
  <2>2. task = "IDLE" /\ irq = 0
    BY <1>0, <1>1, <1>10 DEF EndUse, Upset, When, RadioTyped
  <2> QED BY <2>1, <2>2 DEF Tasks, Free, Asking
<1>11. CASE BeginTransfer
  <2>1. lp0.at = "loop" /\ ~lp0.suspended
    BY <1>11 DEF BeginTransfer, At, Handover
  <2>2. lp0'.at = "transfer" /\ Quiet /\ flash' = flash
    BY <1>0, <1>11, <2>1 DEF BeginTransfer, Lp0Typed, Quiet, radio, flashvars
  <2> QED BY <1>2, <2>1, <2>2 DEF Tasks, Free, Asking
<1>12. CASE TransferSuspended
  <2>1. lp0.at = "transfer" /\ lp0'.at = "offload" /\ air' = FALSE /\ UNCHANGED <<task, irq>>
    BY <1>0, <1>12 DEF TransferSuspended, At, Lp0Typed
  <2> QED BY <2>1 DEF Tasks, Free, Asking
<1>13. CASE EndTransfer
  <2>1. lp0.at = "offload" /\ sem.over = 1 /\ lp0'.at = "loop" /\ UNCHANGED <<task, air, irq>>
    BY <1>0, <1>13 DEF EndTransfer, At, Loop, Lp0Typed, radio
  <2>2. flash.at # "sent"
    <3>1. sem.start \in {0, 1} /\ sem.over \in {0, 1}
      BY <1>0, Tokens DEF Semaphores
    <3> QED BY <2>1, <3>1 DEF OffloadPaired, Offloading
  <2> QED BY <2>1, <2>2 DEF Tasks, Free, Asking
<1>14. CASE EndStation
  <2>1. lp0.at = "station" /\ sem.done = 1 /\ lp0'.at = "loop" /\ UNCHANGED <<task, air, irq>>
    BY <1>0, <1>14 DEF EndStation, At, Loop, Lp0Typed, radio
  <2> QED BY <2>1 DEF Tasks, Free, Asking
<1>15. CASE FlashSends
  <2>1. lp0.at = "offload" /\ flash.at = "send" /\ lp0' = lp0 /\ irq' = irq
    BY <1>15 DEF FlashSends, FlashAt, OffloadPaired, Offloading, lp0vars
  <2>2. task = "IDLE" /\ irq = 0
    BY <2>1 DEF Tasks
  <2>3. task' = "TX" /\ flash'.at = "sent" /\ sem'.send = 0
    BY <1>0, <1>15, <2>2
    DEF FlashSends, StartTask, FlashTyped, Take, SemTyped, Semaphores
  <2> QED BY <2>1, <2>2, <2>3 DEF Tasks, Free, Asking
<1>16. CASE FlashStore \/ FlashGetAll \/ OffloadStarts \/ FlashSent \/ OffloadOver
  <2>1. UNCHANGED <<lp0, task, air, irq>> /\ sem'.done = sem.done
    BY <1>0, <1>16
    DEF FlashStore, FlashGetAll, OffloadStarts, FlashSent, OffloadOver, lp0vars, radio, Give,
        Take, SemTyped, Semaphores
  <2>2. flash.at = "sent" => (flash' = flash /\ sem'.send = sem.send) \/ sem.send = 1
    BY <1>0, <1>16
    DEF FlashStore, FlashGetAll, OffloadStarts, FlashSent, OffloadOver, FlashAt, NextFor, Give,
        SemTyped, Semaphores
  <2> QED BY <2>1, <2>2 DEF Tasks
<1>17. CASE GpsThread \/ GateExpires \/ Outside \/ UNCHANGED vars
  <2>1. Quiet /\ UNCHANGED <<flash, lp0>>
    BY <1>17
    DEF GpsThread, GpsStart, GpsFix, GpsResume, GateExpires, Outside, Lp0Event, PingTimer,
        LorawanEvent, SetMode, SetRole, Store, vars, Quiet, radio, lp0vars, flashvars
  <2> QED BY <1>2, <2>1 DEF Tasks
<1> QED
  BY <1>3, <1>4, <1>5, <1>6, <1>7, <1>8, <1>9, <1>10, <1>11, <1>12, <1>13, <1>14, <1>15, <1>16, <1>17
  DEF Next, IrqThread, Lp0Thread, FlashThread

(* The inductive invariant of the radio.                                   *)
RInv == Spoilt \/ (Handover /\ Tasks)

LEMMA RadioInit == Init => RInv
<1> SUFFICES ASSUME Init PROVE Handover /\ Tasks
  BY DEF RInv
<1>1. NonePending(lrQue)
  BY EmptySeq DEF Init, NonePending
<1>2. LorawanHas
  BY <1>1 DEF Init, LorawanHas, Running, Semaphores
<1> QED BY <1>2 DEF Init, Handover, Tasks, Free, Asking, Holding

LEMMA RadioHeldStep ==
    ASSUME TypeOK, OffloadPaired, RInv, [Next]_vars
    PROVE  RInv'
<1>1. Spoilt => Spoilt'
  BY UpsetGrows DEF Spoilt, Excused
<1> QED BY <1>1, HandoverStep, TasksStep DEF RInv

LEMMA RadioSafe == RInv /\ TypeOK => RadioExclusive
<1>1. TypeOK => lp0.at \in Free \/ lp0.at \in Asking \/ lp0.at \in Holding
  BY Parts, Places
<1> QED
  BY <1>1
  DEF RInv, Spoilt, RadioExclusive, LorawanUsesRadio, Handover, Tasks, Lp0Has, Suspended

-----------------------------------------------------------------------------
(* Offloads are served                                                     *)

(* What the LP0 thread relies on the mode for, where it is, while nobody   *)
(* sets the mode from outside.                                             *)
ModeFits ==
    /\ lp0.boot => mode = "DISABLED" \/ (mode = "TRANSFER" /\ "boot" \in upset)
    /\ lp0.at = "events" /\ ~lp0.boot => mode = "DEFAULT" \/ "open" \in upset
    /\ lp0.at \in {"transfer", "offload"} => mode = "TRANSFER"
    /\ lp0.at = "station" \/ (lp0.at = "suspending" /\ lp0.job = "station") => mode = "STATION"

(* In a device nothing is on the air that LP0 does not wait for, but what  *)
(* the flash thread sends.                                                 *)
Silent == lp0.at \in Free \cup Asking \cup {"offload"}
Air ==
    /\ air => task # "IDLE"
    /\ Silent /\ air /\ mode # "STATION" =>
          \/ "open" \in upset
          \/ lp0.at = "offload" /\ flash.at = "sent" /\ sem.send = 0 /\ task = "TX"

(* An offload is asked for once, in the mode that lets it go on, and not   *)
(* before the end of the one before has been taken note of.                *)
Single(que) == \A i, j \in DOMAIN que : que[i] = "getall" /\ que[j] = "getall" => i = j
Waits == Queued("getall", flashQue)
Unforeseen == "boot" \in upset \/ "twice" \in upset \/ "open" \in upset
Requests ==
    /\ Single(flashQue) \/ "twice" \in upset
    /\ flash.at # "idle" /\ Waits => "twice" \in upset
    /\ flash.at = "start" \/ Waits => (mode = "TRANSFER" /\ sem.over = 0) \/ Unforeseen
    /\ mode = "TRANSFER" => flash.at # "idle" \/ Waits \/ sem.over = 1 \/ "purged" \in upset

OInv == "mode" \in upset \/ (ModeFits /\ Air /\ Requests)

(* What flash_que holds after a put: a full queue is purged.               *)
LEMMA FlashPut ==
    ASSUME FlashQueTyped, NEW f \in FlashEvents, PutFlash(f), Purges \subseteq upset'
    PROVE  /\ Waits' => Waits \/ f = "getall"
           /\ f = "getall" => Waits'
           /\ Waits => Waits' \/ "purged" \in upset'
           /\ Single(flashQue) /\ (f = "store" \/ ~Waits) => Single(flashQue')
<1> DEFINE n == Len(flashQue)
<1>1. flashQue \in Seq(FlashEvents) /\ n \in Nat /\ DOMAIN flashQue = 1 .. n
  BY LenProperties DEF FlashQueTyped
<1>2. CASE n < FlashQueMax
  <2> DEFINE q == Append(flashQue, f)
  <2>1. flashQue' = q
    BY <1>2 DEF PutFlash
  <2>2. /\ q \in Seq(FlashEvents) /\ Len(q) = n + 1
        /\ \A i \in 1 .. n : q[i] = flashQue[i]
        /\ q[n + 1] = f
    BY <1>1, AppendProperties
  <2>3. DOMAIN q = 1 .. n + 1
    BY <2>2, LenProperties
  <2> HIDE DEF q, n
  <2>4. (\A i \in 1 .. n + 1 : i \in 1 .. n \/ i = n + 1) /\ (\A i \in 1 .. n : i \in 1 .. n + 1)
        /\ n + 1 \in 1 .. n + 1
    BY <1>1
  <2>5. Queued("getall", q) <=> Queued("getall", flashQue) \/ f = "getall"
    BY <1>1, <2>2, <2>3, <2>4 DEF Queued
  <2>6. Single(flashQue) /\ (f = "store" \/ ~Queued("getall", flashQue)) => Single(q)
    BY <1>1, <2>2, <2>3, <2>4 DEF Single, Queued
  <2> QED BY <2>1, <2>5, <2>6 DEF Waits
<1>3. CASE ~(n < FlashQueMax)
  <2>1. flashQue' = <<f>>
    BY <1>3 DEF PutFlash
  <2>2. DOMAIN <<f>> = {1} /\ <<f>>[1] = f
    OBVIOUS
  <2>3. n = FlashQueMax
    <3>1. n \in Nat /\ FlashQueMax \in Nat /\ n <= FlashQueMax
      BY <1>1, Sizes DEF FlashQueTyped
    <3> HIDE DEF n
    <3> QED BY <1>3, <3>1
  <2>4. "purged" \in upset'
    BY <2>3 DEF Purges, When
  <2>5. (Queued("getall", <<f>>) <=> f = "getall") /\ Single(<<f>>)
    BY <2>2 DEF Queued, Single
  <2> QED BY <2>1, <2>4, <2>5 DEF Waits
<1> QED BY <1>2, <1>3

(* And after its first entry was taken.                                    *)
LEMMA FlashTake ==
    ASSUME FlashQueTyped, NEW e, NextFor(e)
    PROVE  /\ Waits' => Waits
           /\ e = "getall" => Waits /\ (Single(flashQue) => ~Waits')
           /\ e # "getall" /\ Waits => Waits'
           /\ Single(flashQue) => Single(flashQue')
<1> DEFINE q == Tail(flashQue)
           n == Len(flashQue)
<1>1. flashQue \in Seq(FlashEvents) /\ flashQue # <<>> /\ Head(flashQue) = e /\ flashQue' = q
  BY DEF FlashQueTyped, NextFor
<1>2. n \in Nat /\ DOMAIN flashQue = 1 .. n
  BY <1>1, LenProperties
<1>3. /\ q \in Seq(FlashEvents) /\ Len(q) = n - 1 /\ flashQue[1] = e
      /\ \A i \in 1 .. Len(q) : q[i] = flashQue[i + 1]
  BY <1>1, HeadTailProperties
<1>4. DOMAIN q = 1 .. n - 1
  BY <1>3, LenProperties
<1>5. n # 0
  BY <1>1, EmptySeq
<1> HIDE DEF q, n
<1>6. /\ 1 \in 1 .. n
      /\ \A i \in 1 .. n - 1 : i + 1 \in 1 .. n /\ i + 1 # 1
      /\ \A i \in 1 .. n : i = 1 \/ (i - 1 \in 1 .. n - 1 /\ (i - 1) + 1 = i)
      /\ \A i, j \in 1 .. n - 1 : i + 1 = j + 1 => i = j
  BY <1>2, <1>5
<1>7. \A i \in 1 .. n - 1 : q[i] = flashQue[i + 1]
  BY <1>3
<1>8. Queued("getall", q) => Queued("getall", flashQue)
  BY <1>2, <1>4, <1>6, <1>7 DEF Queued
<1>9. e = "getall" => Queued("getall", flashQue)
  BY <1>2, <1>3, <1>6 DEF Queued
<1>10. e = "getall" /\ Single(flashQue) => ~Queued("getall", q)
  BY <1>2, <1>3, <1>4, <1>6, <1>7 DEF Queued, Single
<1>11. e # "getall" /\ Queued("getall", flashQue) => Queued("getall", q)
  BY <1>1, QueuedTail DEF q
<1>12. ASSUME Single(flashQue)
       PROVE  Single(q)
  <2>1. SUFFICES ASSUME NEW i \in 1 .. n - 1, NEW j \in 1 .. n - 1,
                        q[i] = "getall", q[j] = "getall"
                 PROVE  i = j
    BY <1>4 DEF Single
  <2>2. /\ i + 1 \in 1 .. n /\ flashQue[i + 1] = "getall"
        /\ j + 1 \in 1 .. n /\ flashQue[j + 1] = "getall"
    BY <1>6, <1>7, <2>1
  <2>3. i + 1 = j + 1
    BY <1>2, <1>12, <2>2 DEF Single
  <2> QED BY <1>6, <2>3
<1> QED BY <1>1, <1>8, <1>9, <1>10, <1>11, <1>12 DEF Waits

(* Steps that leave the LP0 thread where it is and the mode as it is.      *)
Elsewhere == LorawanThread \/ FlashThread \/ GpsThread \/ GateExpires
                \/ Lp0Event \/ PingTimer \/ LorawanEvent \/ SetRole \/ Store \/ UNCHANGED vars
Received == TxDone \/ RxTimeout \/ RxError \/ StationAnswers \/ StationStores
                \/ ReceivedOther \/ FillReceived \/ IrqStored
(* Of those no one touches the task, the requests or their end.            *)
LEMMA SamePlace ==
    ASSUME TypeOK, Elsewhere \/ Received
    PROVE  mode' = mode /\ lp0'.at = lp0.at /\ lp0'.boot = lp0.boot /\ lp0'.job = lp0.job
<1>0. Lp0Typed
  BY Parts
<1>1. CASE Elsewhere
  BY <1>1
  DEF Elsewhere, LorawanThread, LorawanSuspend, LorawanResume, LorawanRetake, LorawanJob,
      LorawanJobEnds, LorawanMessage, LorawanTxDone, FlashThread, FlashStore, FlashGetAll,
      OffloadStarts, FlashSends, FlashSent, OffloadOver, GpsThread, GpsStart, GpsFix, GpsResume,
      GateExpires, Lp0Event, PingTimer, LorawanEvent, SetRole, Store, vars, lp0vars
<1>2. CASE Received
  BY <1>0, <1>2
  DEF Received, TxDone, RxTimeout, RxError, StationAnswers, StationStores, ReceivedOther,
      FillReceived, IrqStored, lp0vars, Lp0Typed
<1> QED BY <1>1, <1>2

(* What an acknowledgement finds and does.                                 *)
LEMMA AckFacts ==
    ASSUME TypeOK, Acknowledged
    PROVE  /\ air /\ task \in {"RX", "LISTEN"} /\ mode # "STATION" /\ mode' = "TRANSFER"
           /\ air' = FALSE /\ task' = "IDLE" /\ PutFlash("getall") /\ Purges \subseteq upset'
           /\ lp0.boot => "boot" \in upset'
           /\ flash.at # "idle" \/ Waits => "twice" \in upset'
           /\ lp0'.at = lp0.at /\ lp0'.boot = lp0.boot /\ lp0'.job = lp0.job
           /\ flash' = flash /\ sem'.over = sem.over /\ sem'.send = sem.send
<1>0. Lp0Typed /\ SemTyped
  BY Parts
<1>1. Upset(Purges \cup When(lp0.boot, "boot") \cup When(flash.at # "idle" \/ Waits, "twice"))
  <2>1. Waits <=> "getall" \in {flashQue[i] : i \in DOMAIN flashQue}
    BY DEF Waits, Queued
  <2> QED BY <2>1 DEF Acknowledged, When
<1> QED
  BY <1>0, <1>1
  DEF Acknowledged, DeviceReceives, Receives, Interrupt, EndTask, Upset, When, Lp0Typed, SemTyped,
      Semaphores, Give

(* A turn of the loop that ends with the mode a handler leaves behind.     *)
LEMMA StartUp ==
    ASSUME ModeFits
    PROVE  ModeAfterHandler # mode => lp0.boot /\ ModeAfterHandler = "SETUP"
BY DEF ModeAfterHandler

LEMMA ModesStep ==
    ASSUME TypeOK, ModeFits, Air, [Next]_vars, "mode" \notin upset'
    PROVE  ModeFits'
<1>0. Lp0Typed /\ upset \subseteq upset'
  BY Parts, UpsetGrows
<1>1. ASSUME lp0'.at = "loop", lp0'.boot = FALSE
      PROVE  ModeFits'
  BY <1>1 DEF ModeFits
<1>2. CASE Elsewhere \/ Received
  BY <1>0, <1>2, SamePlace DEF ModeFits
<1>3. CASE Acknowledged
  BY <1>0, <1>3, AckFacts DEF ModeFits, Air, Silent, Free
<1>4. CASE WaitForEvent
  <2>1. /\ lp0'.at = "events" /\ mode' = mode /\ mode \in {"DISABLED", "DEFAULT"}
        /\ lp0'.boot = (mode = "DISABLED")
    BY <1>0, <1>4 DEF WaitForEvent, Lp0Typed
  <2> QED BY <2>1 DEF ModeFits
<1>5. CASE Boot \/ HandleSetMode \/ EndUse \/ EndTransfer \/ EndStation
  BY <1>0, <1>1, <1>5
  DEF Boot, HandleSetMode, EndUse, EndTransfer, EndStation, Loop, Lp0Typed
<1>6. CASE Setup \/ RoleChanged
  <2>1. lp0.at = "loop" /\ lp0'.at = "loop" /\ lp0'.boot = lp0.boot /\ mode \in {"SETUP", "DEFAULT"}
    BY <1>0, <1>6 DEF Setup, RoleChanged, At, Lp0Typed, lp0vars
  <2> QED BY <2>1 DEF ModeFits
<1>7. CASE FillStored
  <2>1. \/ lp0'.at = "loop" /\ lp0'.boot = FALSE
        \/ lp0'.at = "fill" /\ lp0'.boot = lp0.boot /\ mode' = mode
    BY <1>0, <1>7 DEF FillStored, At, Loop, Lp0Typed
  <2> QED BY <1>0, <1>1, <2>1 DEF ModeFits
<1>8. CASE HandleMessage \/ HandleFill \/ Discover \/ BeginTransmit \/ BeginStation
           \/ OpenWindow1 \/ OpenWindow2 \/ TransferSuspended
  <2>1. mode' = mode /\ lp0'.boot = lp0.boot
    BY <1>0, <1>8
    DEF HandleMessage, HandleFill, Discover, BeginTransmit, BeginStation, OpenWindow1, OpenWindow2,
        TransferSuspended, AskForRadio, Lp0Typed
  <2>2. \/ lp0'.at \in {"suspending", "fill", "transmit", "window1", "window2"}
           /\ (lp0'.at = "suspending" => lp0'.job # "station")
        \/ lp0.at = "suspending" /\ lp0.job = "station" /\ lp0'.at = "station"
        \/ lp0.at = "transfer" /\ lp0'.at = "offload"
    BY <1>0, <1>8
    DEF HandleMessage, HandleFill, Discover, BeginTransmit, BeginStation, OpenWindow1, OpenWindow2,
        TransferSuspended, AskForRadio, At, Lp0Typed
  <2> QED BY <1>0, <2>1, <2>2 DEF ModeFits
<1>9. CASE StationDiscovery \/ BeginTransfer
  <2>1. mode' = mode /\ lp0'.boot = lp0.boot
    BY <1>0, <1>9 DEF StationDiscovery, BeginTransfer, AskForRadio, Lp0Typed
  <2>2. \/ mode = "STATION" /\ lp0'.at = "suspending"
        \/ mode = "TRANSFER" /\ lp0'.at \in {"transfer", "offload"}
    BY <1>0, <1>9 DEF StationDiscovery, BeginTransfer, AskForRadio, Lp0Typed
  <2> QED BY <1>0, <2>1, <2>2 DEF ModeFits
<1>10. CASE SetMode
  BY <1>10 DEF SetMode, Upset
<1> QED
  BY <1>2, <1>3, <1>4, <1>5, <1>6, <1>7, <1>8, <1>9, <1>10
  DEF Next, Elsewhere, Received, IrqThread, Lp0Thread, Outside

(* The handlers of LP0 leave a station a station, and a transfer only at   *)
(* the start, when an acknowledgement came too early.                      *)
Handlers == WaitForEvent \/ Boot \/ Setup \/ RoleChanged \/ HandleMessage \/ HandleSetMode
               \/ HandleFill \/ FillStored \/ Discover \/ StationDiscovery

LEMMA HandlersMode ==
    ASSUME Lp0Typed, ModeFits, Handlers, "mode" \notin upset'
    PROVE  /\ lp0.at \in Free
           /\ mode = "STATION" => mode' = mode \/ "open" \in upset
           /\ mode = "TRANSFER" => mode' = mode \/ "boot" \in upset \/ "open" \in upset
           /\ mode' = "TRANSFER" => mode = mode'
<1>1. lp0.at \in Free
  BY DEF Handlers, WaitForEvent, Boot, Setup, RoleChanged, HandleMessage, HandleSetMode,
     HandleFill, FillStored, Discover, StationDiscovery, Handles, At, Free
<1>2. CASE WaitForEvent \/ HandleMessage \/ HandleFill \/ Discover \/ StationDiscovery
  BY <1>1, <1>2 DEF WaitForEvent, HandleMessage, HandleFill, Discover, StationDiscovery
<1>3. CASE Boot \/ FillStored
  <2>1. mode' = mode \/ (lp0.boot /\ mode' = "SETUP")
    BY <1>3 DEF Boot, FillStored, ModeAfterHandler
  <2> QED BY <1>1, <2>1 DEF ModeFits
<1>4. CASE Setup \/ RoleChanged
  BY <1>1, <1>4 DEF Setup, RoleChanged
<1>5. CASE HandleSetMode
  <2>1. lp0.at = "events" /\ mode' \in {"SETUP", "DISCOVERY"} /\ (lp0.boot => mode' = "SETUP")
    BY <1>5 DEF HandleSetMode, Handles, At, Upset
  <2> QED BY <1>1, <2>1 DEF ModeFits
<1> QED BY <1>2, <1>3, <1>4, <1>5 DEF Handlers

LEMMA AirStep ==
    ASSUME TypeOK, OffloadPaired, ModeFits, Air, [Next]_vars, "mode" \notin upset'
    PROVE  Air'
<1>0. Lp0Typed /\ FlashTyped /\ SemTyped /\ upset \subseteq upset'
  BY Parts, UpsetGrows
<1>1. CASE \/ LorawanThread \/ GpsThread \/ GateExpires \/ Lp0Event \/ PingTimer \/ LorawanEvent
           \/ SetRole \/ Store \/ UNCHANGED vars
  <2>1. UNCHANGED <<mode, lp0, task, air, flash>> /\ sem'.send = sem.send
    BY <1>0, <1>1
    DEF LorawanThread, LorawanSuspend, LorawanResume, LorawanRetake, LorawanJob, LorawanJobEnds,
        LorawanMessage, LorawanTxDone, GpsThread, GpsStart, GpsFix, GpsResume, GateExpires,
        Lp0Event, PingTimer, LorawanEvent, SetRole, Store, vars, radio, lp0vars, flashvars, Give,
        Take, SemTyped, Semaphores
  <2> QED BY <1>0, <2>1 DEF Air, Silent
<1>2. CASE Received
  <2>1. mode' = mode /\ lp0'.at = lp0.at
    BY <1>2, SamePlace
  <2>2. \/ air' = FALSE
        \/ mode = "STATION" /\ task' # "IDLE"
        \/ UNCHANGED <<task, air, flash>> /\ sem'.send = sem.send
    BY <1>0, <1>2
    DEF Received, TxDone, RxTimeout, RxError, StationAnswers, StationStores, ReceivedOther,
        FillReceived, IrqStored, DeviceReceives, StationReceives, EndTask, Again, Take, SemTyped,
        Semaphores, flashvars
  <2> QED BY <1>0, <2>1, <2>2 DEF Air, Silent
<1>3. CASE Acknowledged
  BY <1>3, AckFacts DEF Air
<1>4. CASE Handlers
  <2>1. UNCHANGED <<task, air>>
    BY <1>4
    DEF Handlers, WaitForEvent, Boot, Setup, RoleChanged, HandleMessage, HandleSetMode,
        HandleFill, FillStored, Discover, StationDiscovery, radio
  <2>2. lp0.at \in Free /\ (mode = "STATION" => mode' = mode \/ "open" \in upset)
    BY <1>0, <1>4, HandlersMode
  <2> QED BY <1>0, <2>1, <2>2 DEF Air, Silent, Free
<1>5. CASE BeginTransmit \/ BeginStation \/ OpenWindow1 \/ OpenWindow2
  <2>1. lp0'.at \in {"transmit", "station", "window1", "window2"}
    BY <1>0, <1>5 DEF BeginTransmit, BeginStation, OpenWindow1, OpenWindow2, Lp0Typed
  <2>2. air' => task' # "IDLE"
    BY <1>5 DEF BeginTransmit, BeginStation, OpenWindow1, OpenWindow2, StartTask, Air
  <2> QED BY <2>1, <2>2 DEF Air, Silent, Free, Asking
<1>6. CASE EndUse
  <2>1. UNCHANGED <<task, air>> /\ (task # "IDLE" => "open" \in upset')
    BY <1>6 DEF EndUse, radio, Upset, When
  <2> QED BY <2>1 DEF Air
<1>7. CASE BeginTransfer
  <2>1. lp0.at = "loop" /\ mode = "TRANSFER" /\ UNCHANGED <<task, air>>
    BY <1>7 DEF BeginTransfer, At, radio
  <2> QED BY <1>0, <2>1 DEF Air, Silent, Free
<1>8. CASE TransferSuspended
  BY <1>8 DEF TransferSuspended, Air
<1>9. CASE EndTransfer
  <2>1. lp0.at = "offload" /\ sem.over = 1 /\ UNCHANGED <<task, air>>
    BY <1>9 DEF EndTransfer, At, radio
  <2>2. sem.start \in {0, 1}
    BY <1>0, Tokens DEF Semaphores
  <2>3. flash.at # "sent" /\ mode = "TRANSFER"
    BY <2>1, <2>2 DEF OffloadPaired, Offloading, ModeFits
  <2> QED BY <1>0, <2>1, <2>3 DEF Air, Silent
<1>10. CASE EndStation
  <2>1. lp0.at = "station" /\ mode' = mode /\ UNCHANGED <<task, air>>
    BY <1>10 DEF EndStation, At, radio
  <2> QED BY <2>1 DEF Air, ModeFits
<1>11. CASE FlashSends
  <2>1. /\ flash.at = "send" /\ flash'.at = "sent" /\ UNCHANGED <<mode, lp0>> /\ sem'.send = 0
        /\ \E ok \in Oks : StartTask("TX", FALSE, ok)
    BY <1>0, <1>11 DEF FlashSends, FlashAt, FlashTyped, lp0vars, Take, SemTyped, Semaphores
  <2>2. lp0.at = "offload"
    BY <2>1 DEF OffloadPaired, Offloading
  <2>3. CASE task = "IDLE"
    BY <2>1, <2>2, <2>3 DEF Air, StartTask
  <2>4. CASE task # "IDLE"
    BY <1>0, <2>1, <2>2, <2>4 DEF Air, StartTask, Silent
  <2> QED BY <2>3, <2>4
<1>12. CASE FlashStore \/ FlashGetAll \/ OffloadStarts \/ FlashSent \/ OffloadOver
  <2>1. UNCHANGED <<mode, lp0, task, air>>
    BY <1>12 DEF FlashStore, FlashGetAll, OffloadStarts, FlashSent, OffloadOver, lp0vars, radio
  <2>2. flash.at = "sent" => (flash' = flash /\ sem'.send = sem.send) \/ sem.send = 1
    BY <1>0, <1>12
    DEF FlashStore, FlashGetAll, OffloadStarts, FlashSent, OffloadOver, FlashAt, NextFor, Give,
        SemTyped, Semaphores
  <2> QED BY <1>0, <2>1, <2>2 DEF Air, Silent
<1>13. CASE SetMode
  BY <1>13 DEF SetMode, Upset
<1> QED
  BY <1>1, <1>2, <1>3, <1>4, <1>5, <1>6, <1>7, <1>8, <1>9, <1>10, <1>11, <1>12, <1>13
  DEF Next, Received, Handlers, IrqThread, Lp0Thread, FlashThread, Outside

(* A step that leaves the requests alone, and the mode as it was.          *)
Untouched == flashQue' = flashQue /\ flash'.at = flash.at /\ sem'.over = sem.over
SameMode  == /\ mode = "TRANSFER" => mode' = mode \/ "boot" \in upset' \/ "open" \in upset'
             /\ mode' = "TRANSFER" => mode = mode'

LEMMA RequestsStep ==
    ASSUME TypeOK, OffloadPaired, ModeFits, Air, Requests, [Next]_vars, "mode" \notin upset'
    PROVE  Requests'
<1>0. /\ Lp0Typed /\ FlashTyped /\ SemTyped /\ FlashQueTyped /\ upset \subseteq upset'
      /\ sem.start \in {0, 1} /\ sem.over \in {0, 1}
  BY Parts, UpsetGrows, Tokens DEF Semaphores
<1>1. ASSUME Untouched, SameMode PROVE Requests'
  BY <1>0, <1>1 DEF Requests, Untouched, SameMode, Waits, Unforeseen
<1>2. ASSUME flash'.at = flash.at, sem'.over = sem.over, mode' = mode,
             PutFlash("store"), Purges \subseteq upset'
      PROVE  Requests'
  <2>1. /\ Waits' => Waits
        /\ Waits => Waits' \/ "purged" \in upset'
        /\ Single(flashQue) => Single(flashQue')
    BY <1>0, <1>2, FlashPut DEF FlashEvents
  <2> QED BY <1>0, <1>2, <2>1 DEF Requests, Unforeseen
<1>3. CASE \/ LorawanThread \/ GpsThread \/ GateExpires \/ Lp0Event \/ PingTimer \/ LorawanEvent
           \/ SetRole \/ UNCHANGED vars
  <2>1. UNCHANGED <<mode, flash, flashQue>> /\ sem'.over = sem.over
    BY <1>0, <1>3
    DEF LorawanThread, LorawanSuspend, LorawanResume, LorawanRetake, LorawanJob, LorawanJobEnds,
        LorawanMessage, LorawanTxDone, GpsThread, GpsStart, GpsFix, GpsResume, GateExpires,
        Lp0Event, PingTimer, LorawanEvent, SetRole, vars, flashvars, Give, Take, SemTyped,
        Semaphores
  <2> QED BY <1>1, <2>1 DEF Untouched, SameMode
<1>4. CASE TxDone \/ RxTimeout \/ RxError \/ StationAnswers \/ StationStores \/ ReceivedOther
  <2>1. UNCHANGED <<mode, flash, flashQue>> /\ sem'.over = sem.over
    BY <1>0, <1>4
    DEF TxDone, RxTimeout, RxError, StationAnswers, StationStores, ReceivedOther, flashvars, Give,
        SemTyped, Semaphores
  <2> QED BY <1>1, <2>1 DEF Untouched, SameMode
<1>5. CASE FillReceived \/ IrqStored \/ Store \/ HandleFill
  <2>1. mode' = mode /\ flash'.at = flash.at /\ sem'.over = sem.over
    BY <1>0, <1>5
    DEF FillReceived, IrqStored, Store, HandleFill, flashvars, Take, SemTyped, Semaphores
  <2>2. flashQue' = flashQue \/ (PutFlash("store") /\ Purges \subseteq upset')
    BY <1>5 DEF FillReceived, IrqStored, Store, HandleFill, Upset
  <2> QED BY <1>1, <1>2, <2>1, <2>2 DEF Untouched, SameMode
<1>6. CASE FillStored
  <2>1. flash'.at = flash.at /\ sem'.over = sem.over
    BY <1>0, <1>6 DEF FillStored, Take, SemTyped, Semaphores
  <2>2. flashQue' = flashQue \/ (mode' = mode /\ PutFlash("store") /\ Purges \subseteq upset')
    BY <1>6 DEF FillStored, Upset
  <2>3. SameMode
    BY <1>0, <1>6, HandlersMode DEF Handlers, SameMode
  <2> QED BY <1>1, <1>2, <2>1, <2>2, <2>3 DEF Untouched
<1>7. CASE Handlers /\ ~FillStored /\ ~HandleFill
  <2>1. UNCHANGED <<flash, flashQue>> /\ sem'.over = sem.over
    BY <1>0, <1>7
    DEF Handlers, WaitForEvent, Boot, Setup, RoleChanged, HandleMessage, HandleSetMode, Discover,
        StationDiscovery, AskForRadio, flashvars, Take, SemTyped, Semaphores
  <2>2. SameMode
    BY <1>0, <1>7, HandlersMode DEF SameMode
  <2> QED BY <1>1, <2>1, <2>2 DEF Untouched
<1>8. CASE BeginTransmit \/ BeginStation \/ OpenWindow1 \/ OpenWindow2 \/ BeginTransfer
           \/ TransferSuspended \/ EndStation
  <2>1. UNCHANGED <<mode, flash, flashQue>> /\ sem'.over = sem.over
    BY <1>0, <1>8
    DEF BeginTransmit, BeginStation, OpenWindow1, OpenWindow2, BeginTransfer, TransferSuspended,
        EndStation, flashvars, Give, Take, SemTyped, Semaphores
  <2> QED BY <1>1, <2>1 DEF Untouched, SameMode
<1>9. CASE EndUse
  <2>1. UNCHANGED <<flash, flashQue>> /\ sem'.over = sem.over
    BY <1>0, <1>9 DEF EndUse, flashvars, SemTyped, Semaphores
  <2>2. \/ mode = "DISCOVERY" /\ mode' = "DEFAULT"
        \/ mode' = mode \/ (lp0.boot /\ mode' = "SETUP")
    BY <1>9 DEF EndUse, ModeAfterHandler
  <2>3. SameMode
    BY <1>0, <2>2 DEF SameMode, ModeFits
  <2> QED BY <1>1, <2>1, <2>3 DEF Untouched
<1>10. CASE EndTransfer
  <2>1. UNCHANGED <<flash, flashQue>> /\ mode' = "DEFAULT" /\ sem.over = 1
    BY <1>10 DEF EndTransfer, flashvars
  <2> QED BY <1>0, <2>1 DEF Requests, Waits, Unforeseen
<1>11. CASE Acknowledged
  <2>1. /\ air /\ task \in {"RX", "LISTEN"} /\ mode # "STATION" /\ mode' = "TRANSFER"
        /\ flash.at # "idle" \/ Waits => "twice" \in upset'
        /\ flash' = flash /\ sem'.over = sem.over
    BY <1>11, AckFacts
  <2>2. Waits' /\ (Single(flashQue) /\ ~Waits => Single(flashQue'))
    BY <1>0, <1>11, AckFacts, FlashPut DEF FlashEvents
  <2>3. sem.over = 1 => "open" \in upset'
    <3>1. sem.over = 1 => lp0.at = "offload"
      BY DEF OffloadPaired
    <3> QED BY <1>0, <2>1, <3>1 DEF Air, Silent
  <2> QED BY <1>0, <2>1, <2>2, <2>3 DEF Requests, Unforeseen
<1>12. CASE FlashStore
  <2>1. UNCHANGED <<mode, flash>> /\ sem'.over = sem.over /\ NextFor("store")
    BY <1>0, <1>12 DEF FlashStore, Give, SemTyped, Semaphores
  <2>2. (Waits' <=> Waits) /\ (Single(flashQue) => Single(flashQue'))
    BY <1>0, <2>1, FlashTake
  <2> QED BY <1>0, <2>1, <2>2 DEF Requests, Unforeseen
<1>13. CASE FlashGetAll
  <2>1. UNCHANGED <<mode, sem>> /\ flash'.at = "start" /\ NextFor("getall")
    BY <1>13 DEF FlashGetAll
  <2>2. Waits /\ (Single(flashQue) => ~Waits' /\ Single(flashQue'))
    BY <1>0, <2>1, FlashTake
  <2> QED BY <1>0, <2>1, <2>2 DEF Requests, Unforeseen
<1>14. CASE OffloadStarts \/ FlashSends \/ FlashSent
  <2>1. UNCHANGED <<mode, flashQue>> /\ sem'.over = sem.over
    BY <1>0, <1>14 DEF OffloadStarts, FlashSends, FlashSent, Take, SemTyped, Semaphores
  <2>2. flash.at # "idle" /\ flash'.at \in {"send", "sent"}
    <3>1. OffloadStarts => flash.at = "start" /\ flash'.at = "send"
      BY DEF OffloadStarts, FlashAt
    <3>2. FlashSends => flash.at = "send" /\ flash'.at = "sent"
      BY <1>0 DEF FlashSends, FlashAt, FlashTyped
    <3>3. FlashSent => flash.at = "sent" /\ flash'.at = "send"
      BY DEF FlashSent, FlashAt
    <3> QED BY <1>14, <3>1, <3>2, <3>3
  <2> QED BY <1>0, <2>1, <2>2 DEF Requests, Waits, Unforeseen
<1>15. CASE OffloadOver
  <2>1. /\ UNCHANGED <<mode, flashQue>> /\ flash.at = "send" /\ flash'.at = "idle"
        /\ sem'.over = 1
    BY <1>0, <1>15 DEF OffloadOver, FlashAt, FlashTyped, Give, SemTyped, Semaphores
  <2> QED BY <1>0, <2>1 DEF Requests, Waits, Unforeseen
<1>16. CASE SetMode
  BY <1>16 DEF SetMode, Upset
<1> QED
  BY <1>3, <1>4, <1>5, <1>6, <1>7, <1>8, <1>9, <1>10, <1>11, <1>12, <1>13, <1>14, <1>15, <1>16
  DEF Next, Handlers, IrqThread, Lp0Thread, FlashThread, Outside

LEMMA ServedInit == Init => OInv
<1> SUFFICES ASSUME Init PROVE ModeFits /\ Air /\ Requests
  BY DEF OInv
<1>1. ~Waits /\ Single(flashQue)
  BY EmptySeq DEF Init, Waits, Queued, Single
<1> QED BY <1>1 DEF Init, ModeFits, Air, Requests

LEMMA ServedStep ==
    ASSUME TypeOK, OffloadPaired, OInv, [Next]_vars
    PROVE  OInv'
BY UpsetGrows, ModesStep, AirStep, RequestsStep DEF OInv

LEMMA ServedSafe == OInv => OffloadServed
BY DEF OInv, OffloadServed, Excused, ModeFits, Requests, Waits, Unforeseen

-----------------------------------------------------------------------------
(* Theorems                                                                *)

IInv == TypeOK /\ Sending /\ OffloadPaired /\ PingsGoOn /\ RInv /\ OInv

LEMMA IInvHolds == Spec => []IInv
<1>1. Init => IInv
  BY TypeInit, PairedInit, PingsInit, RadioInit, ServedInit DEF IInv
<1>2. IInv /\ [Next]_vars => IInv'
  BY TypeStep, SendingStep, PairedStep, PingsStep, RadioHeldStep, ServedStep DEF IInv
<1> QED BY <1>1, <1>2, PTL DEF Spec

(* Every value has its type: no semaphore is given twice over, no queue    *)
(* exceeds its size, and the flash thread never counts below zero.         *)
THEOREM TypeCorrect == Spec => []TypeOK
<1>1. IInv => TypeOK
  BY DEF IInv
<1> QED BY <1>1, IInvHolds, PTL

(* The LP0 thread waits in LP0_MODE_DEVICE_DATA_TRANSFER for the end of an *)
(* offload exactly while the flash thread has the go-ahead, is at work or  *)
(* has reported its end: never for a report that was already taken, and no *)
(* offload runs that nobody waits for (lp0.c:628-673, flash_interface.c).  *)
THEOREM Paired == Spec => []OffloadPaired
<1>1. IInv => OffloadPaired
  BY DEF IInv
<1> QED BY <1>1, IInvHolds, PTL

(* A tracker in its default mode has the next discovery timed or queued,   *)
(* whatever it received and however an offload ended, unless a full queue  *)
(* lost it or a command set the mode (lp0.c:134-147, 611-625, 654-673).    *)
THEOREM PingsTimed == Spec => []PingsGoOn
<1>1. IInv => PingsGoOn
  BY DEF IInv
<1> QED BY <1>1, IInvHolds, PTL

(* LP0 and the LoRaWAN engine never use the radio at once: no timeout, no  *)
(* late answer and no second request gets between the suspension of the    *)
(* modem and the moment LP0 gives it back, but for the cases the property  *)
(* names (lp0.c:379-479, 628-657, 952-965, lorawan.c:804-845).             *)
THEOREM OneUser == Spec => []RadioExclusive
<1>1. IInv => RadioExclusive
  BY RadioSafe DEF IInv
<1> QED BY <1>1, IInvHolds, PTL

(* A flash thread told to send everything finds LP0 in the mode in which   *)
(* it gives the go-ahead, and an LP0 thread that waits for the end of an   *)
(* offload is waited for: neither waits for the other without end, but for *)
(* the cases the property names (lp0.c:628-673, lp0_offload.c:470-520).    *)
THEOREM NobodyForgotten == Spec => []OffloadServed
<1>1. IInv => OffloadServed
  BY ServedSafe DEF IInv
<1> QED BY <1>1, IInvHolds, PTL
=============================================================================
