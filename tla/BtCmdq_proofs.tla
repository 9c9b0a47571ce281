---------------------------- MODULE BtCmdq_proofs ----------------------------
(***************************************************************************)
(* Proofs about BtCmdq for buffers and messages of every size and any      *)
(* number of inputs and faults.                                            *)
(***************************************************************************)
EXTENDS BtCmdq, SequenceTheorems, FiniteSetTheorems, TLAPS

Notes     == {"givenUp", "unstopped", "forced", "refused", "overlap"}
Histories == [notes : SUBSET Notes, saved : Nat, sent : Seq(Nat)]
Items     == {"start", "stop"}
BleStates ==
    [at : {"idle", "single", "leftover", "copy", "assign"}, n : Nat, keep : Nat, i : Nat]

ControlType ==
    /\ set \in BOOLEAN /\ on \in BOOLEAN /\ comm \in {"idle", "check"}
    /\ scanTimer \in BOOLEAN /\ stopTimer \in BOOLEAN
    /\ work \in Seq(Items) /\ at \in {"idle", "link", "scan", "timer", "adv", "gaveUp"}
    /\ scanning \in {"none", "cmdq", "single"} /\ rx \in {"idle", "match", "save"}
    /\ linked \in BOOLEAN /\ bleAdv \in BOOLEAN /\ adv \in BOOLEAN /\ left \in Nat
StoreType ==
    /\ buf \in [1 .. BufLen -> Nat] /\ count \in 0 .. BufLen
    /\ ble \in BleStates /\ hist \in Histories

TypeOK == ControlType /\ StoreType

(* Someone will still start the advertisement that a scan has stopped.     *)
StopWaits == \E i \in DOMAIN work : work[i] = "stop"
AdvFollows ==
    \/ adv = bleAdv \/ Noted("refused") \/ Noted("forced")
    \/ at # "idle" \/ stopTimer \/ StopWaits

(* Results not yet sent are at the places up to Front and from Rear on;    *)
(* what is between them has been sent or copied.                           *)
Front ==
    IF ble.at = "copy" THEN ble.i - 1 ELSE IF ble.at = "assign" THEN ble.keep ELSE 0
Rear ==
    IF ble.at = "copy" THEN ble.i + count - ble.keep
    ELSE IF ble.at = "assign" THEN count + 1
    ELSE IF ble.at = "leftover" THEN ble.n + 1 ELSE 1
Live == {k \in 1 .. count : k <= Front \/ Rear <= k}

Phases ==
    /\ ble.at = "leftover" => ble.n <= count
    /\ ble.at = "copy" => ble.keep <= count /\ 1 <= ble.i /\ ble.i <= ble.keep + 1
    /\ ble.at = "assign" => ble.keep <= count

(* Results are sent, and wait, in the order in which they were saved.      *)
InOrder ==
    /\ \A i, j \in DOMAIN hist.sent : i < j => hist.sent[i] < hist.sent[j]
    /\ \A i \in DOMAIN hist.sent : hist.sent[i] <= hist.saved
    /\ \A k, l \in Live : k < l => buf[k] < buf[l]
    /\ \A k \in Live : buf[k] <= hist.saved
    /\ \A k \in Live, i \in DOMAIN hist.sent : hist.sent[i] < buf[k]

(* As long as none came while others were removed, none is missing.        *)
Complete ==
    ~Noted("overlap") =>
        /\ \A i \in DOMAIN hist.sent : hist.sent[i] = i
        /\ \A k \in Live : buf[k] = Len(hist.sent) + (IF k <= Front THEN k ELSE k - Rear + 1 + Front)
        /\ Len(hist.sent) + Front + count - Rear + 1 = hist.saved

Store == Phases /\ InOrder /\ Complete
IInv  == TypeOK /\ AdvFollows /\ Store

-----------------------------------------------------------------------------
(* The work queue and the notes                                            *)

LEMMA Submits ==
    ASSUME work \in Seq(Items), NEW item \in Items, Submit(item)
    PROVE  /\ work' \in Seq(Items)
           /\ StopWaits => StopWaits'
           /\ item = "stop" => StopWaits'
<1>1. CASE work' = work
  BY <1>1 DEF Submit, StopWaits
<1>2. CASE work' = Append(work, item)
  <2>1. /\ Len(work) \in Nat /\ DOMAIN work = 1 .. Len(work)
        /\ work' \in Seq(Items) /\ Len(work') = Len(work) + 1
        /\ \A i \in 1 .. Len(work) : work'[i] = work[i]
        /\ work'[Len(work) + 1] = item
    BY <1>2, AppendProperties, LenProperties
  <2>2. DOMAIN work' = 1 .. Len(work) + 1
    BY <2>1, LenProperties
  <2>3. Len(work) + 1 \in DOMAIN work' /\ \A i \in DOMAIN work : i \in DOMAIN work'
    BY <2>1, <2>2
  <2> QED BY <2>1, <2>3 DEF StopWaits
<1> QED BY <1>1, <1>2 DEF Submit

LEMMA Taken ==
    ASSUME work \in Seq(Items), NEW item \in Items, Takes(item)
    PROVE  /\ work' \in Seq(Items)
           /\ item = "start" /\ StopWaits => StopWaits'
<1>1. /\ work # <<>> /\ Head(work) = item /\ work' = Tail(work)
  BY DEF Takes
<1>2. /\ Len(work) \in Nat /\ DOMAIN work = 1 .. Len(work)
      /\ work' \in Seq(Items) /\ Len(work') = Len(work) - 1
      /\ \A i \in 1 .. Len(work) - 1 : work'[i] = work[i + 1]
      /\ work[1] = item
  BY <1>1, HeadTailProperties, LenProperties, EmptySeq
<1>3. DOMAIN work' = 1 .. Len(work) - 1
  BY <1>2, LenProperties
<1>4. ASSUME item = "start", StopWaits PROVE StopWaits'
  <2>1. PICK i \in 1 .. Len(work) : work[i] = "stop"
    BY <1>2, <1>4 DEF StopWaits
  <2>2. i # 1
    BY <1>2, <1>4, <2>1
  <2>3. i - 1 \in 1 .. Len(work) - 1 /\ (i - 1) + 1 = i
    BY <1>2, <2>2
  <2>4. work'[i - 1] = "stop"
    BY <1>2, <2>1, <2>3
  <2> QED BY <1>3, <2>3, <2>4 DEF StopWaits
<1> QED BY <1>2, <1>4

(* Notes of faults touch neither the results nor the note of an overlap.   *)
SameStory ==
    /\ hist' \in Histories /\ hist'.saved = hist.saved /\ hist'.sent = hist.sent
    /\ Noted("overlap")' <=> Noted("overlap")

Unblamed ==
    SameStory /\ (Noted("refused")' <=> Noted("refused")) /\ (Noted("forced")' <=> Noted("forced"))

LEMMA Noting ==
    ASSUME hist \in Histories, NEW what \in Notes \ {"overlap"},
           Note(what) \/ Forget(what) \/ hist' = hist
    PROVE  /\ SameStory
           /\ what \notin {"refused", "forced"} => Unblamed
           /\ Note(what) => Noted(what)'
<1>1. CASE Note(what)
  BY <1>1 DEF Note, Noted, Histories, Notes, SameStory, Unblamed
<1>2. CASE Forget(what) /\ ~Note(what)
  BY <1>2 DEF Forget, Noted, Histories, Notes, SameStory, Unblamed
<1>3. CASE hist' = hist /\ ~Note(what)
  BY <1>3 DEF Noted, SameStory, Unblamed
<1> QED BY <1>1, <1>2, <1>3

-----------------------------------------------------------------------------
(* Everything but the results                                              *)

Other == UNCHANGED results /\ SameStory /\ (ble' = ble \/ (ble' \in BleStates
             /\ ble.at \in {"idle", "single"} /\ ble'.at \in {"idle", "single"}))

Steady == ControlType' /\ AdvFollows'

LEMMA Handles ==
    ASSUME hist \in Histories, Handler, scanTimer \in BOOLEAN, on \in BOOLEAN
    PROVE  scanTimer' \in BOOLEAN /\ Unblamed
<1>1. Forget("givenUp") \/ hist' = hist
  BY DEF Handler
<1>2. "givenUp" \in Notes \ {"overlap"} /\ "givenUp" \notin {"refused", "forced"}
  BY DEF Notes
<1> QED BY <1>1, <1>2, Noting DEF Handler

LEMMA Plain == "givenUp" \in Notes \ {"overlap", "refused", "forced"}
               /\ "unstopped" \in Notes \ {"overlap", "refused", "forced"}
BY DEF Notes

LEMMA CommStep ==
    ASSUME TypeOK, AdvFollows, SetCmdq \/ CommThread
    PROVE  Steady /\ Other
<1>1. ControlType /\ hist \in Histories
  BY DEF TypeOK, StoreType
<1>2. Unblamed
  BY <1>1, Noting, Plain
     DEF SetCmdq, CommThread, StartOperation, FirstScan, NoBluetooth, StopOperation
<1>3. CASE SetCmdq
  BY <1>1, <1>2, <1>3
     DEF SetCmdq, Uses, Steady, Other, ControlType, AdvFollows, Unblamed, StopWaits,
         search, timers, queue, radio, results
<1>4. CASE StartOperation
  BY <1>1, <1>2, <1>4
     DEF StartOperation, Steady, Other, ControlType, AdvFollows, Unblamed, StopWaits,
         timers, queue, radio, results
<1>5. CASE FirstScan
  BY <1>1, <1>2, <1>5
     DEF FirstScan, Steady, Other, ControlType, AdvFollows, Unblamed, StopWaits, queue, radio, results
<1>6. CASE NoBluetooth
  BY <1>1, <1>2, <1>6
     DEF NoBluetooth, Uses, Steady, Other, ControlType, AdvFollows, Unblamed, StopWaits,
         timers, queue, radio, results
<1>7. CASE StopOperation
  <2>1. work' \in Seq(Items) /\ (StopWaits \/ stopTimer => StopWaits')
    <3>1. CASE stopTimer
      BY <1>1, <1>7, <3>1, Submits DEF StopOperation, ControlType, Items
    <3>2. CASE ~stopTimer
      BY <1>1, <1>7, <3>2 DEF StopOperation, ControlType, StopWaits
    <3> QED BY <3>1, <3>2
  <2> QED BY <1>1, <1>2, <1>7, <2>1
          DEF StopOperation, Steady, Other, ControlType, AdvFollows, Unblamed, radio, results
<1> QED BY <1>3, <1>4, <1>5, <1>6, <1>7 DEF CommThread

LEMMA TimerStep ==
    ASSUME TypeOK, AdvFollows, ScanTimerFires \/ StopTimerFires \/ Heard \/ Match
    PROVE  Steady /\ Other
<1>1. /\ ControlType /\ hist \in Histories /\ work \in Seq(Items)
      /\ scanTimer \in BOOLEAN /\ stopTimer \in BOOLEAN /\ on \in BOOLEAN
  BY DEF TypeOK, StoreType, ControlType
<1>2. scanTimer' \in BOOLEAN /\ Unblamed
  <2>1. CASE Handler
    BY <1>1, <2>1, Handles
  <2>2. CASE UNCHANGED hist /\ scanTimer' \in BOOLEAN
    BY <1>1, <2>2, Noting, Plain
  <2> QED BY <1>1, <2>1, <2>2 DEF ScanTimerFires, StopTimerFires, Heard, Match
<1>3. /\ work' \in Seq(Items) /\ (StopWaits => StopWaits')
      /\ stopTimer /\ ~stopTimer' => StopWaits'
  <2>1. CASE work' = work /\ (stopTimer' = stopTimer \/ (Match /\ ~stopTimer))
    BY <1>1, <2>1 DEF StopWaits
  <2>2. CASE Submit("start") /\ stopTimer' = stopTimer
    BY <1>1, <2>2, Submits DEF Items
  <2>3. CASE Submit("stop")
    BY <1>1, <2>3, Submits DEF Items
  <2> QED BY <2>1, <2>2, <2>3 DEF ScanTimerFires, StopTimerFires, Heard, Match, queue
<1>4. left' \in Nat
  BY <1>1 DEF ScanTimerFires, StopTimerFires, Heard, Match, Uses, ControlType
<1>5. /\ UNCHANGED <<set, search, at, radio, bleAdv, ble, results>>
      /\ stopTimer' \in BOOLEAN /\ rx' \in {"idle", "match", "save"}
  BY <1>1 DEF ScanTimerFires, StopTimerFires, Heard, Match, queue, ControlType
<1> QED BY <1>1, <1>2, <1>3, <1>4, <1>5
        DEF Steady, Other, ControlType, AdvFollows, Unblamed, search, radio

LEMMA WorkStep ==
    ASSUME TypeOK, AdvFollows, WorkQueue
    PROVE  Steady /\ Other
<1>1. /\ ControlType /\ hist \in Histories /\ work \in Seq(Items)
  BY DEF TypeOK, StoreType, ControlType
<1>2. left' \in Nat
  BY <1>1 DEF WorkQueue, WorkStart, AdvStaysOn, AskToLeave, LinkStays, ScanStarts, ScanRefused,
              StopTimerStarts, WorkStop, ScanStays, AdvAgain, AdvRefused, Uses, ControlType
<1>3. CASE WorkStart \/ AdvStaysOn
  <2>1. Unblamed
    BY <1>1, <1>3, Noting, Plain DEF WorkStart, AdvStaysOn
  <2>2. work' \in Seq(Items) /\ (StopWaits => StopWaits')
    BY <1>1, <1>3, Taken DEF WorkStart, AdvStaysOn, Items
  <2>3. /\ UNCHANGED <<set, on, comm, scanTimer, stopTimer, rx, scanning, linked, bleAdv, ble, results>>
        /\ (adv' = FALSE /\ at' = "link") \/ UNCHANGED <<adv, at>>
    BY <1>3 DEF WorkStart, AdvStaysOn, AdvStopped, search, timers, radio
  <2>4. adv' \in BOOLEAN /\ at' \in {"idle", "link", "scan", "timer", "adv", "gaveUp"}
    BY <1>1, <2>3 DEF ControlType
  <2>6. ControlType'
    BY <1>1, <1>2, <2>2, <2>3, <2>4 DEF ControlType
  <2>7. Other
    BY <2>1, <2>3 DEF Other, Unblamed
  <2>5. AdvFollows'
    BY <2>1, <2>2, <2>3 DEF AdvFollows, Unblamed
  <2> QED BY <2>5, <2>6, <2>7 DEF Steady
<1>4. CASE AskToLeave \/ LinkStays \/ ScanStarts \/ ScanRefused \/ StopTimerStarts
  <2>1. Unblamed
    BY <1>1, <1>4, Noting, Plain DEF AskToLeave, LinkStays, ScanStarts, ScanRefused, StopTimerStarts
  <2>2. /\ UNCHANGED <<set, search, scanTimer, work, rx, linked, adv, bleAdv, ble, results>>
        /\ at' \in {"scan", "gaveUp", "timer", "idle"} /\ (at' = "idle" => stopTimer')
        /\ stopTimer' \in BOOLEAN /\ scanning' \in {"none", "cmdq", "single"}
    BY <1>1, <1>4 DEF AskToLeave, LinkStays, ScanStarts, ScanRefused, StopTimerStarts, ControlType,
                      timers, radio
  <2> QED BY <1>1, <1>2, <2>1, <2>2
          DEF Steady, Other, ControlType, AdvFollows, Unblamed, search
<1>5. CASE WorkStop \/ ScanStays
  <2>1. Unblamed
    BY <1>1, <1>5, Noting, Plain DEF WorkStop, ScanStays
  <2>2. work' \in Seq(Items) /\ at' = "adv"
    BY <1>1, <1>5, Taken DEF WorkStop, ScanStays, Items
  <2> QED BY <1>1, <1>2, <1>5, <2>1, <2>2
          DEF WorkStop, ScanStays, Steady, Other, ControlType, AdvFollows, Unblamed,
              search, timers, radio, results
<1>6. CASE AdvAgain \/ AdvRefused
  <2>1. /\ SameStory /\ adv' \in BOOLEAN
        /\ (adv' = bleAdv \/ Noted("forced")' \/ Noted("refused")')
    <3>1. {"forced", "refused"} \subseteq Notes \ {"overlap"}
      BY DEF Notes
    <3>2. CASE AdvAgain
      BY <1>1, <3>1, <3>2, Noting DEF AdvAgain, AdvStarted, ControlType
    <3>3. CASE AdvRefused
      BY <1>1, <3>1, <3>3, Noting DEF AdvRefused, ControlType, radio
    <3> QED BY <1>6, <3>2, <3>3
  <2>2. /\ UNCHANGED <<set, search, timers, work, rx, scanning, linked, bleAdv, ble, results>>
        /\ at' = "idle"
    BY <1>6 DEF AdvAgain, AdvRefused, radio
  <2> QED BY <1>1, <1>2, <2>1, <2>2
          DEF Steady, Other, ControlType, AdvFollows, search, timers
<1> QED BY <1>3, <1>4, <1>5, <1>6 DEF WorkQueue

LEMMA ModuleStep ==
    ASSUME TypeOK, AdvFollows,
           SingleScan \/ SingleEnds \/ SetAdv \/ SetInterval \/ Connects \/ Disconnects
    PROVE  Steady /\ Other
<1>1. /\ ControlType /\ hist \in Histories /\ ble \in BleStates
  BY DEF TypeOK, StoreType
<1>2. left' \in Nat /\ UNCHANGED <<set, search, timers, queue, rx, results>>
  BY <1>1 DEF SingleScan, SingleEnds, SetAdv, SetInterval, Connects, Disconnects, Uses, ControlType
<1>3. CASE SingleScan \/ SingleEnds \/ Connects \/ Disconnects
  <2>1. UNCHANGED <<adv, bleAdv, hist>>
    BY <1>3 DEF SingleScan, SingleEnds, Connects, Disconnects
  <2>2. Unblamed
    BY <1>1, <2>1, Noting, Plain
  <2>3. \/ ble' = ble
        \/ /\ ble' \in BleStates /\ ble.at \in {"idle", "single"} /\ ble'.at \in {"idle", "single"}
    BY <1>1, <1>3 DEF SingleScan, SingleEnds, Connects, Disconnects, Goes, BleStates
  <2>4. scanning' \in {"none", "cmdq", "single"} /\ linked' \in BOOLEAN
    BY <1>1, <1>3 DEF SingleScan, SingleEnds, Connects, Disconnects, ControlType
  <2> QED BY <1>1, <1>2, <2>1, <2>2, <2>3, <2>4
          DEF Steady, Other, ControlType, AdvFollows, Unblamed, StopWaits, search, timers, queue
<1>4. CASE SetAdv
  <2>1. SameStory
    BY <1>1, <1>4 DEF SetAdv, SameStory, Histories, Notes, Noted
  <2> QED BY <1>1, <1>2, <1>4, <2>1
          DEF SetAdv, Steady, Other, ControlType, AdvFollows, search, timers, queue
<1>5. CASE SetInterval
  <2>1. /\ SameStory /\ adv' \in BOOLEAN /\ (adv' = bleAdv \/ Noted("forced")')
    <3>1. "forced" \in Notes \ {"overlap"}
      BY DEF Notes
    <3> QED BY <1>1, <1>5, <3>1, Noting DEF SetInterval, AdvStarted, ControlType
  <2> QED BY <1>1, <1>2, <1>5, <2>1
          DEF SetInterval, Steady, Other, ControlType, AdvFollows, search, timers, queue
<1> QED BY <1>3, <1>4, <1>5

-----------------------------------------------------------------------------
(* The results                                                             *)

LEMMA StoreFacts ==
    ASSUME StoreType
    PROVE  /\ hist.sent \in Seq(Nat) /\ hist.saved \in Nat /\ hist.notes \subseteq Notes
           /\ Len(hist.sent) \in Nat /\ DOMAIN hist.sent = 1 .. Len(hist.sent)
           /\ \A i \in 1 .. Len(hist.sent) : hist.sent[i] \in Nat
           /\ ble.n \in Nat /\ ble.keep \in Nat /\ ble.i \in Nat
           /\ BufLen \in Nat /\ count \in Nat /\ count <= BufLen
           /\ \A k \in 1 .. BufLen : buf[k] \in Nat
<1>1. hist.sent \in Seq(Nat) /\ hist.saved \in Nat /\ hist.notes \subseteq Notes
  BY DEF StoreType, Histories
<1>2. /\ Len(hist.sent) \in Nat /\ DOMAIN hist.sent = 1 .. Len(hist.sent)
      /\ \A i \in 1 .. Len(hist.sent) : hist.sent[i] \in Nat
  BY <1>1, LenProperties, ElementOfSeq
<1>3. ble.n \in Nat /\ ble.keep \in Nat /\ ble.i \in Nat
  BY DEF StoreType, BleStates
<1>4. BufLen \in Nat /\ count \in Nat /\ count <= BufLen
  BY CmdqAssumption DEF StoreType
<1>5. \A k \in 1 .. BufLen : buf[k] \in Nat
  BY DEF StoreType
<1> QED BY <1>1, <1>2, <1>3, <1>4, <1>5

LEMMA OtherStore ==
    ASSUME TypeOK, Store, Other
    PROVE  StoreType' /\ Store'
<1>1. /\ StoreType /\ Phases /\ InOrder /\ Complete
  BY DEF TypeOK, Store
<1>2. /\ hist' \in Histories /\ hist'.saved = hist.saved /\ hist'.sent = hist.sent
      /\ Noted("overlap")' <=> Noted("overlap")
      /\ UNCHANGED <<buf, count>>
  BY DEF Other, SameStory, results
<1>3. StoreType'
  BY <1>1, <1>2 DEF StoreType, Other
<1>4. Phases' /\ Front' = Front /\ Rear' = Rear
  <2>1. CASE ble' = ble
    BY <1>1, <1>2, <2>1 DEF Phases, Front, Rear
  <2>2. CASE ble.at \in {"idle", "single"} /\ ble'.at \in {"idle", "single"}
    BY <1>1, <1>2, <2>2 DEF Phases, Front, Rear
  <2> QED BY <2>1, <2>2 DEF Other
<1>5. Live' = Live
  BY <1>2, <1>4 DEF Live
<1> QED BY <1>1, <1>2, <1>3, <1>4, <1>5 DEF Store, InOrder, Complete

(* What does not concern the scans leaves them alone.                      *)
LEMMA ScansKept ==
    ASSUME TypeOK, AdvFollows, left' \in Nat, rx' \in {"idle", "match", "save"},
           UNCHANGED <<set, search, timers, queue, radio, bleAdv>>,
           Noted("refused")' <=> Noted("refused"), Noted("forced")' <=> Noted("forced")
    PROVE  Steady
BY DEF Steady, TypeOK, ControlType, AdvFollows, StopWaits, search, timers, queue, radio

(* Results that move keep their order, and their number.                   *)
Moves ==
    /\ hist'.saved = hist.saved /\ hist'.sent = hist.sent /\ hist'.notes = hist.notes
    /\ \E f \in [Live' -> Live] :
          /\ \A k \in Live' : buf'[k] = buf[f[k]]
          /\ \A k, l \in Live' : k < l => f[k] < f[l]

LEMMA InOrderMoves ==
    ASSUME InOrder, Moves
    PROVE  InOrder'
<1>1. PICK f \in [Live' -> Live] :
          /\ \A k \in Live' : buf'[k] = buf[f[k]]
          /\ \A k, l \in Live' : k < l => f[k] < f[l]
  BY DEF Moves
<1>2. \A k \in Live' : f[k] \in Live
  OBVIOUS
<1> QED BY <1>1, <1>2 DEF InOrder, Moves

LEMMA LeftoverStep ==
    ASSUME TypeOK, AdvFollows, Store, Leftover
    PROVE  Steady /\ StoreType' /\ Store'
<1>1. /\ StoreType /\ Phases /\ InOrder /\ Complete
  BY DEF TypeOK, Store
<1>2. /\ ble.at = "leftover" /\ UNCHANGED <<buf, count, hist>>
      /\ ble' = [ble EXCEPT !.at = "copy", !.keep = count - ble.n, !.i = 1]
  BY DEF Leftover, results
<1>3. ble.n \in Nat /\ count \in Nat /\ ble.n <= count
  BY <1>1, <1>2, StoreFacts DEF Phases
<1>4. /\ ble' \in BleStates /\ ble'.at = "copy" /\ ble'.keep = count - ble.n /\ ble'.i = 1
  <2>1. ble \in BleStates /\ count - ble.n \in Nat
    BY <1>1, <1>3 DEF StoreType
  <2> QED BY <1>2, <2>1 DEF BleStates
<1>5. StoreType'
  BY <1>1, <1>2, <1>4 DEF StoreType
<1>6. Phases' /\ Front' = Front /\ Rear' = Rear
  BY <1>2, <1>3, <1>4 DEF Phases, Front, Rear
<1>7. Live' = Live
  BY <1>2, <1>6 DEF Live
<1>8. Store'
  BY <1>1, <1>2, <1>6, <1>7 DEF Store, InOrder, Complete, Noted
<1>9. Steady
  BY ScansKept DEF Leftover, Noted, TypeOK, ControlType
<1> QED BY <1>5, <1>8, <1>9

LEMMA CopyOneStep ==
    ASSUME TypeOK, AdvFollows, Store, CopyOne
    PROVE  Steady /\ StoreType' /\ Store'
<1> DEFINE i == ble.i
           j == ble.i + count - ble.keep
<1>1. /\ StoreType /\ Phases /\ InOrder /\ Complete
  BY DEF TypeOK, Store
<1>2. /\ ble.at = "copy" /\ UNCHANGED <<count, hist>>
      /\ buf' = [buf EXCEPT ![i] = buf[j]]
      /\ ble' = [ble EXCEPT !.i = @ + 1]
      /\ ble.i <= ble.keep
  BY DEF CopyOne
<1>3. /\ ble.i \in Nat /\ ble.keep \in Nat /\ count \in Nat /\ BufLen \in Nat
      /\ 1 <= ble.i /\ ble.i <= ble.keep /\ ble.keep <= count /\ count <= BufLen
  BY <1>1, <1>2, StoreFacts DEF Phases
<1>4. /\ ble' \in BleStates /\ ble'.at = "copy" /\ ble'.keep = ble.keep /\ ble'.i = ble.i + 1
  <2>1. ble \in BleStates /\ ble.i + 1 \in Nat
    BY <1>1, <1>3 DEF StoreType
  <2> QED BY <1>2, <2>1 DEF BleStates
<1>5. /\ i \in 1 .. BufLen /\ j \in 1 .. count /\ j \in 1 .. BufLen /\ i <= j
  BY <1>3
<1>6. StoreType'
  BY <1>1, <1>2, <1>4, <1>5 DEF StoreType
<1>7. /\ Phases' /\ Front = i - 1 /\ Rear = j /\ Front' = i /\ Rear' = j + 1
  BY <1>2, <1>3, <1>4 DEF Phases, Front, Rear
<1>8. /\ Live = {k \in 1 .. count : k <= i - 1 \/ j <= k}
      /\ Live' = {k \in 1 .. count : k <= i \/ j + 1 <= k}
  BY <1>2, <1>7 DEF Live
<1>9. \A k \in 1 .. BufLen : buf'[k] = IF k = i THEN buf[j] ELSE buf[k]
  BY <1>1, <1>2, <1>5 DEF StoreType
<1> DEFINE f == [k \in Live' |-> IF k = i THEN j ELSE k]
<1> HIDE DEF i, j
<1>10. InOrder'
  <2>1. i \in Nat /\ j \in Nat /\ i <= j /\ j \in 1 .. count
    BY <1>5
  <2>2. f \in [Live' -> Live]
    BY <1>8, <2>1
  <2>3. \A k \in Live' : buf'[k] = buf[f[k]]
    BY <1>3, <1>8, <1>9
  <2>4. \A k, l \in Live' : k < l => f[k] < f[l]
    BY <1>8, <2>1
  <2>5. Moves
    BY <1>2, <2>2, <2>3, <2>4 DEF Moves
  <2> QED BY <1>1, <2>5, InOrderMoves
<1>11. Complete'
  <2> SUFFICES ASSUME ~Noted("overlap")
               PROVE  Complete'
    BY <1>2 DEF Complete, Noted
  <2>1. Len(hist.sent) \in Nat /\ i \in Nat /\ j \in Nat /\ i <= j /\ 1 <= i
    BY <1>1, <1>5, StoreFacts
  <2>2. /\ \A x \in DOMAIN hist.sent : hist.sent[x] = x
        /\ \A k \in Live : buf[k] = Len(hist.sent) + (IF k <= Front THEN k ELSE k - Rear + 1 + Front)
        /\ Len(hist.sent) + Front + count - Rear + 1 = hist.saved
    BY <1>1 DEF Complete
  <2>3. Len(hist'.sent) + Front' + count' - Rear' + 1 = hist'.saved
    BY <1>2, <1>3, <1>7, <2>1, <2>2
  <2>4. ASSUME NEW k \in Live'
        PROVE  buf'[k] = Len(hist'.sent) + (IF k <= Front' THEN k ELSE k - Rear' + 1 + Front')
    <3>1. k \in 1 .. count /\ k \in 1 .. BufLen /\ k \in Nat /\ (k <= i \/ j + 1 <= k)
      BY <1>3, <1>8
    <3>2. CASE k = i
      <4>1. j \in Live /\ ~(j <= i - 1)
        BY <1>5, <1>8, <2>1
      <4>2. buf[j] = Len(hist.sent) + (j - j + 1 + (i - 1))
        BY <1>7, <2>2, <4>1
      <4>3. buf'[k] = buf[j]
        BY <1>9, <3>1, <3>2
      <4> QED BY <1>2, <1>7, <2>1, <3>2, <4>2, <4>3
    <3>3. CASE k < i
      <4>1. k \in Live /\ k <= i - 1 /\ k <= i
        BY <1>8, <2>1, <3>1, <3>3
      <4>2. buf'[k] = buf[k]
        BY <1>9, <2>1, <3>1, <3>3
      <4> QED BY <1>2, <1>7, <2>2, <4>1, <4>2
    <3>4. CASE i < k
      <4>1. k \in Live /\ ~(k <= i - 1) /\ ~(k <= i) /\ buf'[k] = buf[k]
        BY <1>8, <1>9, <2>1, <3>1, <3>4
      <4>2. k - j + 1 + (i - 1) = k - (j + 1) + 1 + i
        BY <2>1, <3>1
      <4> QED BY <1>2, <1>7, <2>2, <4>1, <4>2
    <3> QED BY <2>1, <3>1, <3>2, <3>3, <3>4
  <2> QED BY <1>2, <2>2, <2>3, <2>4 DEF Complete
<1>12. Steady
  BY ScansKept DEF CopyOne, Noted, TypeOK, ControlType
<1> QED BY <1>6, <1>7, <1>10, <1>11, <1>12 DEF Store

LEMMA ClearRestStep ==
    ASSUME TypeOK, AdvFollows, Store, ClearRest
    PROVE  Steady /\ StoreType' /\ Store'
<1>1. /\ StoreType /\ Phases /\ InOrder /\ Complete
  BY DEF TypeOK, Store
<1>2. /\ ble.at = "copy" /\ UNCHANGED <<count, hist>> /\ ble.i > ble.keep
      /\ buf' = [i \in 1 .. BufLen |-> IF ble.keep < i /\ i <= count THEN 0 ELSE buf[i]]
      /\ ble' = [ble EXCEPT !.at = "assign"]
  BY DEF ClearRest, Goes
<1>3. /\ ble.i \in Nat /\ ble.keep \in Nat /\ count \in Nat /\ BufLen \in Nat
      /\ ble.i = ble.keep + 1 /\ ble.keep <= count /\ count <= BufLen
  BY <1>1, <1>2, StoreFacts DEF Phases
<1>4. ble' \in BleStates /\ ble'.at = "assign" /\ ble'.keep = ble.keep
  BY <1>1, <1>2 DEF StoreType, BleStates
<1>5. buf' \in [1 .. BufLen -> Nat] /\ \A k \in 1 .. ble.keep : buf'[k] = buf[k]
  <2>1. \A k \in 1 .. BufLen : buf[k] \in Nat /\ k \in Nat
    BY <1>1, StoreFacts
  <2>2. \A k \in 1 .. ble.keep : k \in 1 .. BufLen /\ ~(ble.keep < k)
    BY <1>3
  <2> QED BY <1>2, <2>1, <2>2
<1>6. StoreType'
  BY <1>1, <1>2, <1>4, <1>5 DEF StoreType
<1>7. /\ Phases' /\ Front' = Front /\ Rear' = Rear /\ Front = ble.keep /\ Rear = count + 1
  BY <1>2, <1>3, <1>4 DEF Phases, Front, Rear
<1>8. Live = 1 .. ble.keep /\ Live' = 1 .. ble.keep
  BY <1>2, <1>3, <1>7 DEF Live
<1>9. \A k \in Live : buf'[k] = buf[k]
  BY <1>5, <1>8
<1>10. InOrder' /\ Complete'
  BY <1>1, <1>2, <1>7, <1>8, <1>9 DEF InOrder, Complete, Noted
<1>11. Steady
  BY ScansKept DEF ClearRest, Noted, TypeOK, ControlType
<1> QED BY <1>6, <1>7, <1>10, <1>11 DEF Store

LEMMA RemovedStep ==
    ASSUME TypeOK, AdvFollows, Store, Removed
    PROVE  Steady /\ StoreType' /\ Store'
<1>1. /\ StoreType /\ Phases /\ InOrder /\ Complete
  BY DEF TypeOK, Store
<1>2. /\ ble.at = "assign" /\ UNCHANGED <<buf, hist>> /\ count' = ble.keep /\ ble' = Ready
  BY DEF Removed
<1>3. /\ ble.keep \in Nat /\ count \in Nat /\ BufLen \in Nat
      /\ ble.keep <= count /\ count <= BufLen
  BY <1>1, <1>2, StoreFacts DEF Phases
<1>4. ble' \in BleStates /\ ble'.at = "idle"
  BY <1>2 DEF Ready, BleStates
<1>5. StoreType'
  BY <1>1, <1>2, <1>3, <1>4 DEF StoreType
<1>6. /\ Phases' /\ Front = ble.keep /\ Rear = count + 1 /\ Front' = 0 /\ Rear' = 1
  BY <1>2, <1>4 DEF Phases, Front, Rear
<1>7. Live = 1 .. ble.keep /\ Live' = 1 .. ble.keep
  BY <1>2, <1>3, <1>6 DEF Live
<1>8. InOrder'
  BY <1>1, <1>2, <1>7 DEF InOrder
<1>9. Complete'
  <2> SUFFICES ASSUME ~Noted("overlap") PROVE Complete'
    BY <1>2 DEF Complete, Noted
  <2>1. /\ \A x \in DOMAIN hist.sent : hist.sent[x] = x
        /\ \A k \in Live : buf[k] = Len(hist.sent) + (IF k <= Front THEN k ELSE k - Rear + 1 + Front)
        /\ Len(hist.sent) + Front + count - Rear + 1 = hist.saved
    BY <1>1 DEF Complete
  <2>2. Len(hist.sent) \in Nat
    BY <1>1, StoreFacts
  <2>3. Len(hist'.sent) + Front' + count' - Rear' + 1 = hist'.saved
    BY <1>2, <1>3, <1>6, <2>1, <2>2
  <2>4. \A k \in Live' : buf'[k] = Len(hist'.sent) + (IF k <= Front' THEN k ELSE k - Rear' + 1 + Front')
    BY <1>2, <1>3, <1>6, <1>7, <2>1, <2>2
  <2> QED BY <1>2, <2>1, <2>3, <2>4 DEF Complete
<1>10. Steady
  BY ScansKept DEF Removed, Noted, TypeOK, ControlType
<1> QED BY <1>5, <1>6, <1>8, <1>9, <1>10 DEF Store

LEMMA SaveStep ==
    ASSUME TypeOK, AdvFollows, Store, Save
    PROVE  Steady /\ StoreType' /\ Store'
<1> DEFINE c == count + 1
           v == hist.saved + 1
<1>1. /\ StoreType /\ Phases /\ InOrder /\ Complete /\ hist \in Histories
  BY DEF TypeOK, Store, StoreType
<1>2. CASE UNCHANGED <<results, hist>>
  <2>1. Other
    BY <1>1, <1>2 DEF Save, Other, SameStory, Noted
  <2>2. Steady
    BY <1>2, ScansKept DEF Save, Noted, TypeOK, ControlType
  <2> QED BY <2>1, <2>2, OtherStore
<1>3. CASE ~UNCHANGED <<results, hist>>
  <2>1. /\ count < BufLen /\ buf' = [buf EXCEPT ![c] = v] /\ count' = c /\ ble' = ble
        /\ hist' = [hist EXCEPT !.saved = v,
                                !.notes = IF Cleaning THEN @ \cup {"overlap"} ELSE @]
    BY <1>3 DEF Save
  <2>2. /\ hist.saved \in Nat /\ count \in Nat /\ BufLen \in Nat /\ c <= BufLen
        /\ ble.n \in Nat /\ ble.keep \in Nat /\ ble.i \in Nat /\ Len(hist.sent) \in Nat
    BY <1>1, <2>1, StoreFacts
  <2>3. \A i \in DOMAIN hist.sent : hist.sent[i] \in Nat
    BY <1>1, StoreFacts
  <2>4. /\ hist' \in Histories /\ hist'.saved = v /\ hist'.sent = hist.sent
        /\ hist'.notes = IF Cleaning THEN hist.notes \cup {"overlap"} ELSE hist.notes
    <3> DEFINE m == IF Cleaning THEN hist.notes \cup {"overlap"} ELSE hist.notes
    <3>1. m \in SUBSET Notes /\ v \in Nat
      BY <1>1, <2>2, StoreFacts DEF Notes
    <3> HIDE DEF m
    <3>2. hist' = [[hist EXCEPT !.saved = v] EXCEPT !.notes = m]
      BY <2>1 DEF m
    <3>3. hist' \in Histories /\ hist'.saved = v /\ hist'.sent = hist.sent /\ hist'.notes = m
      BY <1>1, <3>1, <3>2 DEF Histories
    <3> QED BY <3>3 DEF m
  <2>5. \A k \in 1 .. count : buf[k] \in Nat /\ buf'[k] = buf[k]
    BY <1>1, <2>1, <2>2 DEF StoreType
  <2>6. buf'[c] = v /\ v \in Nat /\ buf' \in [1 .. BufLen -> Nat]
    BY <1>1, <2>1, <2>2 DEF StoreType
  <2>7. StoreType'
    BY <1>1, <2>1, <2>2, <2>4, <2>6 DEF StoreType
  <2>8. Phases'
    BY <1>1, <2>1, <2>2 DEF Phases
  <2>9. Front' = Front /\ Front \in Int /\ Front <= count
    BY <1>1, <2>1, <2>2 DEF Phases, Front
  <2>10. /\ Rear' = (IF ble.at \in {"copy", "assign"} THEN Rear + 1 ELSE Rear)
         /\ Rear \in Int /\ (ble.at \notin {"copy", "assign"} => Rear <= c)
    <3>1. CASE ble.at = "copy"
      <4>1. Rear = ble.i + count - ble.keep /\ Rear' = ble.i + c - ble.keep
        BY <2>1, <3>1 DEF Rear
      <4>2. ble.i \in Nat /\ ble.keep \in Nat /\ count \in Nat
        BY <2>2
      <4>3. Rear' = Rear + 1 /\ Rear \in Int
        BY <4>1, <4>2
      <4> QED BY <3>1, <4>3
    <3>2. CASE ble.at = "assign"
      BY <2>1, <2>2, <3>2 DEF Rear
    <3>3. CASE ble.at \notin {"copy", "assign"}
      BY <1>1, <2>1, <2>2, <3>3 DEF Phases, Rear
    <3> QED BY <3>1, <3>2, <3>3
  <2>11. Live \subseteq 1 .. count /\ Live' \subseteq Live \cup {c}
    BY <2>1, <2>2, <2>9, <2>10 DEF Live
  <2>12. InOrder'
    <3>1. \A k \in Live : k \in Nat /\ k < c /\ buf[k] \in Nat /\ buf[k] <= hist.saved
                        /\ buf'[k] = buf[k] /\ buf[k] < v
      BY <1>1, <2>2, <2>5, <2>11 DEF InOrder
    <3>2. /\ \A i, j \in DOMAIN hist'.sent : i < j => hist'.sent[i] < hist'.sent[j]
          /\ \A i \in DOMAIN hist'.sent : hist'.sent[i] <= hist'.saved /\ hist'.sent[i] < v
      BY <1>1, <2>2, <2>3, <2>4 DEF InOrder
    <3>3. \A k, l \in Live' : k < l => buf'[k] < buf'[l]
      <4> SUFFICES ASSUME NEW k \in Live', NEW l \in Live', k < l PROVE buf'[k] < buf'[l]
        OBVIOUS
      <4>1. k \in Live
        BY <2>2, <2>11, <3>1
      <4>2. CASE l \in Live
        BY <1>1, <3>1, <4>1, <4>2 DEF InOrder
      <4>3. CASE l = c
        BY <2>6, <3>1, <4>1, <4>3
      <4> QED BY <2>11, <4>2, <4>3
    <3>4. \A k \in Live' : buf'[k] <= hist'.saved
      <4>1. v <= v /\ \A k \in Live : buf'[k] <= v
        BY <2>6, <3>1
      <4> QED BY <2>4, <2>6, <2>11, <4>1
    <3>5. \A k \in Live', i \in DOMAIN hist'.sent : hist'.sent[i] < buf'[k]
      BY <1>1, <2>4, <2>6, <2>11, <3>1, <3>2 DEF InOrder
    <3> QED BY <3>2, <3>3, <3>4, <3>5 DEF InOrder
  <2>13. Complete'
    <3> SUFFICES ASSUME ~Noted("overlap")' PROVE Complete'
      BY DEF Complete
    <3>1. ~Cleaning /\ ~Noted("overlap")
      BY <2>4 DEF Noted
    <3>2. ble.at \notin {"copy", "assign"} /\ Front = 0 /\ Rear' = Rear /\ Rear <= c
      BY <2>10, <3>1 DEF Cleaning, Front
    <3>3. /\ \A x \in DOMAIN hist.sent : hist.sent[x] = x
          /\ \A k \in Live : buf[k] = Len(hist.sent) + (IF k <= Front THEN k ELSE k - Rear + 1 + Front)
          /\ Len(hist.sent) + Front + count - Rear + 1 = hist.saved
      BY <1>1, <3>1 DEF Complete
    <3>4. Len(hist'.sent) + Front' + count' - Rear' + 1 = hist'.saved
      BY <2>1, <2>2, <2>4, <2>9, <2>10, <3>2, <3>3
    <3>5. ASSUME NEW k \in Live'
          PROVE  buf'[k] = Len(hist'.sent) + (IF k <= Front' THEN k ELSE k - Rear' + 1 + Front')
      <4>1. CASE k \in Live
        BY <2>4, <2>5, <2>9, <2>11, <3>2, <3>3, <4>1
      <4>2. CASE k = c
        <5>1. ~(c <= 0) /\ v = Len(hist.sent) + (c - Rear + 1 + 0)
          <6> DEFINE n == Len(hist.sent)
          <6>1. /\ count \in Nat /\ n \in Nat /\ Rear \in Int /\ hist.saved \in Int
                /\ n + 0 + count - Rear + 1 = hist.saved
            BY <2>2, <2>10, <3>2, <3>3
          <6> HIDE DEF n
          <6>2. hist.saved + 1 = n + (c - Rear + 1 + 0)
            BY <6>1
          <6>3. ~(c <= 0)
            BY <6>1
          <6> QED BY <6>2, <6>3 DEF n
        <5> QED BY <2>4, <2>6, <2>9, <3>2, <4>2, <5>1
      <4> QED BY <2>11, <4>1, <4>2
    <3> QED BY <2>4, <3>3, <3>4, <3>5 DEF Complete
  <2>14. Steady
    <3>1. (Noted("refused")' <=> Noted("refused")) /\ (Noted("forced")' <=> Noted("forced"))
      BY <2>4 DEF Noted
    <3> QED BY <3>1, ScansKept DEF Save, TypeOK, ControlType
  <2> QED BY <2>7, <2>8, <2>12, <2>13, <2>14 DEF Store
<1> QED BY <1>2, <1>3

LEMMA ComposeStep ==
    ASSUME TypeOK, AdvFollows, Store, Compose
    PROVE  Steady /\ StoreType' /\ Store'
<1> DEFINE n  == IF count < Room THEN count ELSE Room
           m  == Len(hist.sent)
           p  == SubSeq(buf, 1, n)
           s  == hist.sent \o p
<1>1. /\ StoreType /\ Phases /\ InOrder /\ Complete /\ hist \in Histories
  BY DEF TypeOK, Store, StoreType
<1>2. /\ ble.at = "idle" /\ UNCHANGED <<buf, count>>
      /\ ble' = [ble EXCEPT !.at = "leftover", !.n = n]
      /\ hist' = [hist EXCEPT !.sent = s]
  BY DEF Compose, results
<1>3. /\ count \in Nat /\ BufLen \in Nat /\ count <= BufLen
      /\ hist.sent \in Seq(Nat) /\ m \in Nat /\ hist.saved \in Nat
      /\ DOMAIN hist.sent = 1 .. m
  BY <1>1, StoreFacts
<1>4. \A k \in 1 .. count : buf[k] \in Nat
  <2>1. 1 .. count \subseteq 1 .. BufLen
    BY <1>3
  <2> QED BY <1>1, <2>1, StoreFacts
<1>5. n \in Nat /\ n <= count
  BY <1>3, CmdqAssumption
<1>6. /\ p \in Seq(Nat) /\ Len(p) = n /\ \A i \in 1 .. n : p[i] = buf[i]
  <2>1. 1 \in Int /\ n \in Int /\ \A i \in 1 .. n : buf[i] \in Nat
    BY <1>3, <1>4, <1>5
  <2> HIDE DEF n
  <2>2. /\ p \in Seq(Nat) /\ Len(p) = IF 1 <= n THEN n - 1 + 1 ELSE 0
        /\ \A i \in 1 .. n - 1 + 1 : p[i] = buf[1 + i - 1]
    BY <2>1, SubSeqProperties
  <2>3. /\ n - 1 + 1 = n /\ (IF 1 <= n THEN n - 1 + 1 ELSE 0) = n
        /\ \A i \in 1 .. n : 1 + i - 1 = i
    BY <1>5
  <2> HIDE DEF p
  <2> QED BY <2>2, <2>3
<1> HIDE DEF n, p
<1>7. /\ s \in Seq(Nat) /\ Len(s) = m + n /\ DOMAIN s = 1 .. m + n
      /\ \A i \in 1 .. m + n : s[i] = IF i <= m THEN hist.sent[i] ELSE p[i - m]
  <2>1. /\ s \in Seq(Nat) /\ Len(s) = m + n
        /\ \A i \in 1 .. m + n : s[i] = IF i <= m THEN hist.sent[i] ELSE p[i - m]
    BY <1>3, <1>6, ConcatProperties
  <2> QED BY <2>1, LenProperties
<1> HIDE DEF m, s
<1>8. /\ hist' \in Histories /\ hist'.sent = s /\ hist'.saved = hist.saved /\ hist'.notes = hist.notes
  BY <1>1, <1>2, <1>7 DEF Histories
<1>9. ble' \in BleStates /\ ble'.at = "leftover" /\ ble'.n = n
  BY <1>1, <1>2, <1>5 DEF StoreType, BleStates
<1>10. StoreType'
  BY <1>1, <1>2, <1>8, <1>9 DEF StoreType
<1>11. /\ Phases' /\ Front = 0 /\ Rear = 1 /\ Front' = 0 /\ Rear' = n + 1
  BY <1>2, <1>5, <1>9 DEF Phases, Front, Rear
<1>12. Live = 1 .. count /\ Live' = n + 1 .. count
  BY <1>2, <1>3, <1>5, <1>11 DEF Live
<1>13. \A i \in 1 .. m + n : \/ i \in 1 .. m /\ s[i] = hist.sent[i]
                             \/ i - m \in 1 .. n /\ i - m \in Live /\ i > m /\ s[i] = buf[i - m]
  <2> SUFFICES ASSUME NEW i \in 1 .. m + n
               PROVE  \/ i \in 1 .. m /\ s[i] = hist.sent[i]
                      \/ i - m \in 1 .. n /\ i - m \in Live /\ i > m /\ s[i] = buf[i - m]
    OBVIOUS
  <2>1. CASE i <= m
    BY <1>3, <1>5, <1>7, <2>1
  <2>2. CASE ~(i <= m)
    <3>1. i - m \in 1 .. n /\ i - m \in 1 .. count /\ i > m
      BY <1>3, <1>5, <2>2
    <3> QED BY <1>6, <1>7, <1>12, <2>2, <3>1
  <2> QED BY <2>1, <2>2
<1>14. InOrder'
  <2>1. /\ \A i, j \in 1 .. m : i < j => hist.sent[i] < hist.sent[j]
        /\ \A i \in 1 .. m : hist.sent[i] <= hist.saved
        /\ \A k, l \in Live : k < l => buf[k] < buf[l]
        /\ \A k \in Live : buf[k] <= hist.saved
        /\ \A k \in Live, i \in 1 .. m : hist.sent[i] < buf[k]
    BY <1>1, <1>3 DEF InOrder
  <2>2. Live' \subseteq Live /\ \A k \in Live', j \in 1 .. n : j < k
    BY <1>3, <1>5, <1>12
  <2>3. ASSUME NEW i \in 1 .. m + n, NEW j \in 1 .. m + n, i < j PROVE s[i] < s[j]
    <3>1. CASE i \in 1 .. m /\ j \in 1 .. m
      <4>1. i <= m /\ j <= m /\ s[i] = hist.sent[i] /\ s[j] = hist.sent[j]
        BY <1>3, <1>5, <1>7, <3>1
      <4> QED BY <2>1, <2>3, <3>1, <4>1
    <3>2. CASE i \in 1 .. m /\ j \notin 1 .. m
      <4>1. s[i] = hist.sent[i] /\ s[j] = buf[j - m] /\ j - m \in Live
        <5>1. i <= m
          BY <3>2
        <5> QED BY <1>3, <1>13, <3>2, <5>1
      <4> QED BY <2>1, <3>2, <4>1
    <3>3. CASE i \notin 1 .. m
      <4>1. s[i] = buf[i - m] /\ i - m \in Live /\ i > m
        BY <1>13, <3>3
      <4>2. j \notin 1 .. m
        BY <1>3, <2>3, <4>1
      <4>3. s[j] = buf[j - m] /\ j - m \in Live
        BY <1>13, <4>2
      <4>4. i - m < j - m
        BY <1>3, <1>5, <2>3
      <4> QED BY <2>1, <4>1, <4>3, <4>4
    <3> QED BY <3>1, <3>2, <3>3
  <2>4. \A i \in 1 .. m + n : s[i] <= hist.saved
    BY <1>13, <2>1
  <2>5. \A k \in Live', i \in 1 .. m + n : s[i] < buf[k]
    <3> SUFFICES ASSUME NEW k \in Live', NEW i \in 1 .. m + n PROVE s[i] < buf[k]
      OBVIOUS
    <3>1. CASE i \in 1 .. m /\ s[i] = hist.sent[i]
      BY <2>1, <2>2, <3>1
    <3>2. CASE i - m \in 1 .. n /\ i - m \in Live /\ s[i] = buf[i - m]
      BY <2>1, <2>2, <3>2
    <3> QED BY <1>13, <3>1, <3>2
  <2>6. \A k, l \in Live' : k < l => buf[k] < buf[l]
    BY <2>1, <2>2
  <2>7. \A k \in Live' : buf[k] <= hist.saved
    BY <2>1, <2>2
  <2> QED BY <1>2, <1>7, <1>8, <2>3, <2>4, <2>5, <2>6, <2>7 DEF InOrder
<1>15. Complete'
  <2> SUFFICES ASSUME ~Noted("overlap") PROVE Complete'
    BY <1>8 DEF Complete, Noted
  <2>1. /\ \A i \in 1 .. m : hist.sent[i] = i
        /\ \A k \in Live : buf[k] = m + (IF k <= 0 THEN k ELSE k - 1 + 1 + 0)
    BY <1>1, <1>3, <1>11 DEF Complete, m
  <2>2. m + 0 + count - 1 + 1 = hist.saved
    BY <1>1, <1>11 DEF Complete, m
  <2>3. \A k \in Live : buf[k] = m + k
    <3>1. \A k \in Live : k \in Nat /\ ~(k <= 0) /\ k - 1 + 1 + 0 = k
      BY <1>12
    <3> QED BY <2>1, <3>1
  <2>4. \A i \in 1 .. m + n : s[i] = i
    <3> SUFFICES ASSUME NEW i \in 1 .. m + n PROVE s[i] = i
      OBVIOUS
    <3>1. CASE i \in 1 .. m /\ s[i] = hist.sent[i]
      BY <2>1, <3>1
    <3>2. CASE i - m \in Live /\ s[i] = buf[i - m]
      <4>1. m + (i - m) = i
        BY <1>3, <1>5
      <4> QED BY <2>3, <3>2, <4>1
    <3> QED BY <1>13, <3>1, <3>2
  <2>5. \A k \in Live' : buf[k] = m + n + (IF k <= 0 THEN k ELSE k - (n + 1) + 1 + 0)
    <3> SUFFICES ASSUME NEW k \in Live'
                 PROVE  buf[k] = m + n + (IF k <= 0 THEN k ELSE k - (n + 1) + 1 + 0)
      OBVIOUS
    <3>1. k \in Nat /\ ~(k <= 0) /\ k \in Live
      BY <1>3, <1>5, <1>12
    <3>2. m + n + (k - (n + 1) + 1 + 0) = m + k
      BY <1>3, <1>5, <3>1
    <3> QED BY <2>3, <3>1, <3>2
  <2>6. m + n + 0 + count - (n + 1) + 1 = hist.saved
    BY <1>3, <1>5, <2>2
  <2> QED BY <1>2, <1>7, <1>8, <1>11, <2>4, <2>5, <2>6 DEF Complete
<1>16. Steady
  <2>1. left' \in Nat
    BY DEF Compose, Uses, TypeOK, ControlType
  <2>2. (Noted("refused")' <=> Noted("refused")) /\ (Noted("forced")' <=> Noted("forced"))
    BY <1>8 DEF Noted
  <2> QED BY <2>1, <2>2, ScansKept DEF Compose, TypeOK, ControlType
<1> QED BY <1>10, <1>11, <1>14, <1>15, <1>16 DEF Store

-----------------------------------------------------------------------------
(* Every state                                                             *)

LEMMA InitInv == Init => IInv
<1> SUFFICES ASSUME Init PROVE IInv
  OBVIOUS
<1>1. BufLen \in Nat /\ Bound \in Nat
  BY CmdqAssumption
<1>2. /\ ble = [at |-> "idle", n |-> 0, keep |-> 0, i |-> 0]
      /\ buf = [i \in 1 .. BufLen |-> 0] /\ count = 0
      /\ hist = [notes |-> {}, saved |-> 0, sent |-> <<>>]
  BY DEF Init, Ready
<1>3. <<>> \in Seq(Items) /\ <<>> \in Seq(Nat)
  BY EmptySeq
<1>4. ControlType
  BY <1>1, <1>3 DEF Init, ControlType
<1>5. hist \in Histories
  BY <1>2, <1>3 DEF Histories
<1>6. StoreType
  BY <1>1, <1>2, <1>5 DEF StoreType, BleStates
<1>7. AdvFollows
  BY DEF Init, AdvFollows
<1>8. Front = 0 /\ Rear = 1 /\ Live = {} /\ Phases
  BY <1>2 DEF Front, Rear, Live, Phases
<1>9. InOrder
  BY <1>2, <1>8 DEF InOrder
<1>10. Complete
  BY <1>2, <1>8 DEF Complete
<1> QED BY <1>4, <1>6, <1>7, <1>8, <1>9, <1>10 DEF IInv, TypeOK, Store

LEMMA NextInv == IInv /\ [Next]_vars => IInv'
<1> SUFFICES ASSUME IInv, [Next]_vars PROVE IInv'
  OBVIOUS
<1>1. TypeOK /\ AdvFollows /\ Store
  BY DEF IInv
<1>2. CASE Steady /\ StoreType' /\ Store'
  BY <1>2 DEF Steady, IInv, TypeOK
<1>3. CASE Steady /\ Other
  BY <1>1, <1>2, <1>3, OtherStore
<1>4. CASE SetCmdq \/ CommThread
  BY <1>1, <1>3, <1>4, CommStep
<1>5. CASE ScanTimerFires \/ StopTimerFires \/ Heard \/ Match
  BY <1>1, <1>3, <1>5, TimerStep
<1>6. CASE WorkQueue
  BY <1>1, <1>3, <1>6, WorkStep
<1>7. CASE SingleScan \/ SingleEnds \/ SetAdv \/ SetInterval \/ Connects \/ Disconnects
  BY <1>1, <1>3, <1>7, ModuleStep
<1>8. CASE Save \/ Compose \/ Leftover \/ CopyOne \/ ClearRest \/ Removed
  BY <1>1, <1>2, <1>8, SaveStep, ComposeStep, LeftoverStep, CopyOneStep, ClearRestStep, RemovedStep
<1>9. CASE UNCHANGED vars
  <2>1. Other
    BY <1>1, <1>9 DEF Other, SameStory, Noted, vars, TypeOK, StoreType
  <2>2. Steady
    <3>1. hist' = hist /\ left' = left /\ rx' = rx /\ UNCHANGED <<set, search, timers, queue, radio, bleAdv>>
      BY <1>9 DEF vars
    <3> QED BY <1>1, <3>1, ScansKept DEF Noted, TypeOK, ControlType
  <2> QED BY <1>3, <2>1, <2>2
<1> QED BY <1>4, <1>5, <1>6, <1>7, <1>8, <1>9 DEF Next, RxThread, BleThread

LEMMA Invariant == Spec => []IInv
BY InitInv, NextInv, PTL DEF Spec

(* Every variable keeps its type.                                          *)
THEOREM TypeCorrect == Spec => []TypeOK
<1>1. IInv => TypeOK
  BY DEF IInv
<1> QED BY <1>1, Invariant, PTL

(* Between scans the device advertises as ble_adv says, whatever was       *)
(* refused or given up in between, unless the stack refused.               *)
THEOREM AdvertisementCorrect == Spec => []AdvertisesAsSet
<1>1. IInv => AdvertisesAsSet
  <2>1. StopWaits => work # <<>>
    BY EmptySeq DEF StopWaits
  <2> QED BY <2>1 DEF IInv, AdvFollows, AdvertisesAsSet, Quiet
<1> QED BY <1>1, Invariant, PTL

(* As many values as positions, if no two positions hold the same.         *)
LEMMA DistinctValues ==
    ASSUME NEW S, NEW s \in Seq(S), \A i, j \in DOMAIN s : s[i] = s[j] => i = j
    PROVE  Cardinality({s[i] : i \in DOMAIN s}) = Len(s)
<1> DEFINE T == {s[i] : i \in DOMAIN s}
<1>1. Len(s) \in Nat /\ DOMAIN s = 1 .. Len(s) /\ s \in [1 .. Len(s) -> T]
  BY LenProperties
<1>2. s \in Bijection(1 .. Len(s), T)
  BY <1>1 DEF Bijection, Injection, IsInjective, Surjection
<1>3. ExistsBijection(1 .. Len(s), T)
  BY <1>2 DEF ExistsBijection
<1> QED BY <1>1, <1>3, FS_CountingElements

(* No result is sent twice, and none is missing unless one came while      *)
(* those sent were being removed.                                          *)
THEOREM ResultsCorrect == Spec => []ResultsKept
<1>1. IInv => ResultsKept
  <2> SUFFICES ASSUME IInv PROVE ResultsKept
    OBVIOUS
  <2> DEFINE m == Len(hist.sent)
  <2>1. StoreType /\ InOrder /\ Complete
    BY DEF IInv, TypeOK, Store
  <2>2. /\ hist.sent \in Seq(Nat) /\ m \in Nat /\ DOMAIN hist.sent = 1 .. m /\ count \in Nat
        /\ \A i \in 1 .. m : hist.sent[i] \in Nat
    BY <2>1, StoreFacts
  <2>3. Len(hist.sent) = Cardinality(Sent)
    <3>1. \A i, j \in 1 .. m : i < j => hist.sent[i] < hist.sent[j]
      BY <2>1, <2>2 DEF InOrder
    <3>2. ASSUME NEW i \in 1 .. m, NEW j \in 1 .. m, hist.sent[i] = hist.sent[j] PROVE i = j
      <4>1. ~(i < j) /\ ~(j < i)
        BY <2>2, <3>1, <3>2
      <4> QED BY <2>2, <4>1
    <3>3. \A i, j \in DOMAIN hist.sent : hist.sent[i] = hist.sent[j] => i = j
      BY <2>2, <3>2
    <3> QED BY <2>2, <3>3, DistinctValues DEF Sent
  <2>4. ASSUME ble.at = "idle", ~Noted("overlap")
        PROVE  Kept \cap Sent = {} /\ Kept \cup Sent = 1 .. hist.saved
    <3>1. Front = 0 /\ Rear = 1 /\ Live = 1 .. count
      BY <2>2, <2>4 DEF Front, Rear, Live
    <3>2. /\ \A i \in 1 .. m : hist.sent[i] = i
          /\ \A k \in 1 .. count : buf[k] = m + (IF k <= 0 THEN k ELSE k - 1 + 1 + 0)
      BY <2>1, <2>2, <2>4, <3>1 DEF Complete
    <3>3. m + 0 + count - 1 + 1 = hist.saved
      BY <2>1, <2>4, <3>1 DEF Complete
    <3> HIDE DEF m
    <3>4. \A k \in 1 .. count : buf[k] = m + k
      BY <3>2
    <3>5. hist.saved = m + count
      BY <2>2, <3>3
    <3>6. Kept = {m + k : k \in 1 .. count}
      BY <3>4 DEF Kept
    <3>7. Sent = 1 .. m
      BY <2>2, <3>2 DEF Sent
    <3>8. {m + k : k \in 1 .. count} = m + 1 .. m + count
      <4>1. \A x \in m + 1 .. m + count : x - m \in 1 .. count /\ m + (x - m) = x
        BY <2>2
      <4>2. \A k \in 1 .. count : m + k \in m + 1 .. m + count
        BY <2>2
      <4> QED BY <4>1, <4>2
    <3> QED BY <2>2, <3>5, <3>6, <3>7, <3>8
  <2> QED BY <2>3, <2>4 DEF ResultsKept
<1> QED BY <1>1, Invariant, PTL
=============================================================================
