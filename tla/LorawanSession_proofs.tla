----------------------- MODULE LorawanSession_proofs ------------------------
(***************************************************************************)
(* Proofs about LorawanSession for every set of settings, every size of    *)
(* the queues, and however many calls fail.                                *)
(***************************************************************************)
EXTENDS LorawanSession, SequenceTheorems, TLAPS

-----------------------------------------------------------------------------
(* Queues                                                                  *)

(* The newest entries of a queue are entries of it, and no more than fit.  *)
LEMMA NewestLemma ==
    ASSUME NEW S, NEW que \in Seq(S), NEW max \in Nat
    PROVE  /\ Newest(que, max) \in Seq(S)
           /\ Len(Newest(que, max)) <= max
           /\ \A i \in 1 .. Len(Newest(que, max)) :
                 \E j \in 1 .. Len(que) : Newest(que, max)[i] = que[j]
<1>1. CASE Len(que) <= max
  BY <1>1 DEF Newest
<1>2. CASE ~(Len(que) <= max)
  <2> DEFINE m == Len(que) - max + 1
             n == Len(que)
  <2>1. n \in Nat /\ m \in Int /\ 1 <= m /\ m <= n + 1 /\ n - m + 1 = max
    BY <1>2, LenProperties
  <2>2. \A i \in m .. n : que[i] \in S
    BY <2>1, ElementOfSeq
  <2>3. Newest(que, max) = SubSeq(que, m, n)
    BY <1>2 DEF Newest
  <2> HIDE DEF m, n
  <2>4. /\ SubSeq(que, m, n) \in Seq(S)
        /\ Len(SubSeq(que, m, n)) = max
        /\ \A i \in 1 .. max : SubSeq(que, m, n)[i] = que[m + i - 1]
    <3>1. /\ SubSeq(que, m, n) \in Seq(S)
          /\ Len(SubSeq(que, m, n)) = IF m <= n THEN n - m + 1 ELSE 0
          /\ \A i \in 1 .. n - m + 1 : SubSeq(que, m, n)[i] = que[m + i - 1]
      BY <2>1, <2>2, SubSeqProperties
    <3> QED BY <2>1, <3>1
  <2>5. \A i \in 1 .. max : m + i - 1 \in 1 .. n
    BY <2>1
  <2> QED BY <2>3, <2>4, <2>5 DEF n
<1> QED BY <1>1, <1>2

(* Putting an entry keeps a queue within its bound, and adds nothing else. *)
LEMMA PutLemma ==
    ASSUME NEW que \in Seq(Entries), NEW e \in Entries, NEW max \in Nat
    PROVE  /\ Newest(Append(que, e), max) \in Seq(Entries)
           /\ Len(Newest(Append(que, e), max)) <= max
           /\ \A i \in 1 .. Len(Newest(Append(que, e), max)) :
                 \/ Newest(Append(que, e), max)[i] = e
                 \/ \E j \in 1 .. Len(que) : Newest(Append(que, e), max)[i] = que[j]
<1> DEFINE q == Append(que, e)
<1>1. /\ q \in Seq(Entries) /\ Len(que) \in Nat /\ Len(q) = Len(que) + 1
      /\ \A i \in 1 .. Len(que) : q[i] = que[i]
      /\ q[Len(que) + 1] = e
  BY AppendProperties, LenProperties
<1> HIDE DEF q
<1>2. \A j \in 1 .. Len(q) : q[j] = e \/ \E k \in 1 .. Len(que) : q[j] = que[k]
  <2> TAKE j \in 1 .. Len(q)
  <2>1. j \in 1 .. Len(que) \/ j = Len(que) + 1
    BY <1>1
  <2> QED BY <1>1, <2>1
<1>3. /\ Newest(q, max) \in Seq(Entries) /\ Len(Newest(q, max)) <= max
      /\ \A i \in 1 .. Len(Newest(q, max)) : \E j \in 1 .. Len(q) : Newest(q, max)[i] = q[j]
  BY <1>1, NewestLemma
<1> QED BY <1>2, <1>3 DEF q

-----------------------------------------------------------------------------
(* The inductive invariant                                                 *)

Stale(s) == s # NoSession /\ ~s.fresh

Unstarted ==
    desired = NoConfig =>
        /\ state = "SETUP" /\ doing.at = "idle" /\ ~modem.resetDue
        /\ modem.session = NoSession /\ modem.trying = NoSession
        /\ \A i \in 1 .. Len(eventQue) : eventQue[i].kind \in {"suspend", "resume"}

Positions ==
    /\ state = "INIT" => doing.at = "idle"
    /\ modem.resetDue => state = "ENGINE" /\ doing.at = "idle"
    /\ doing.at \in {"delete", "configure", "join"} => modem.session = NoSession
    /\ doing.at = "joined" => modem.trying = NoSession

RecordGone ==
    (modem.trying # NoSession \/ doing.at \in {"configure", "join", "joined"})
        => nvs.record = NoConfig

AttemptNamesJoin ==
    attempt # NoConfig =>
        /\ doing.at = "join" => attempt = doing.params.cfg
        /\ (doing.at # "join" /\ modem.trying # NoSession) => attempt = modem.trying.cfg
        /\ (doing.at = "joined" /\ nvs.session # NoSession) => attempt = nvs.session.cfg

StaleIsLatched ==
    ~changePending =>
        /\ Stale(modem.session) => modem.resetDue \/ "info" \in faulty
        /\ Stale(modem.trying) => doing.at = "join" /\ doing.latched
        /\ doing.at = "join" => ~Stale(doing.params)
        /\ (desired # NoConfig /\ Stale(nvs.session)) => nvs.record # desired
        /\ doing.at = "joined" => ~Stale(nvs.session)
        /\ (modem.resetDue /\ Stale(modem.session)) => ~Matches

IInv ==
    /\ TypeOK
    /\ Unstarted
    /\ Positions
    /\ RecordMatchesSession
    /\ RecordGone
    /\ AttemptNamesJoin
    /\ StaleIsLatched
-----------------------------------------------------------------------------
(* Type correctness                                                        *)

(* What the type invariant says, in parts that the provers take one at a   *)
(* time.                                                                   *)
FlagsTyped ==
    /\ state \in {"SETUP", "INIT", "ENGINE", "SUSPENDED"}
    /\ enabled \in BOOLEAN /\ joining \in BOOLEAN /\ waitTxDone \in BOOLEAN
    /\ vhfQueued \in BOOLEAN /\ chipSem \in BOOLEAN
    /\ failed \in 0 .. JoinAttempts - 1
QuesTyped ==
    /\ eventQue \in Seq(Entries) /\ Len(eventQue) <= EventQueMax
    /\ msgQue \in Seq(Entries) /\ Len(msgQue) <= MsgQueMax
ConfsTyped ==
    /\ desired \in Configs \cup {NoConfig} /\ changePending \in BOOLEAN
    /\ attempt \in Configs \cup {NoConfig} /\ joined \in Configs \cup {NoConfig}
DoingTyped ==
    doing \in [at : {"idle", "delete", "configure", "join", "joined"}, msg : Entries,
               params : Sessions, latched : BOOLEAN]
NvsTyped   == nvs \in [setting : Configs, record : Configs \cup {NoConfig}, session : Sessions]
ModemTyped == modem \in [session : Sessions, trying : Sessions, resetDue : BOOLEAN]
GhostTyped ==
    /\ uplinks \in Seq(Nat) /\ faulty \subseteq Calls
    /\ made \in [messages : Nat, commands : Nat, changes : Nat, reboots : Nat]

LEMMA Parts ==
    TypeOK <=> /\ FlagsTyped /\ QuesTyped /\ ConfsTyped /\ DoingTyped
               /\ NvsTyped /\ ModemTyped /\ GhostTyped
BY DEF TypeOK, FlagsTyped, QuesTyped, ConfsTyped, DoingTyped, NvsTyped, ModemTyped, GhostTyped

(* What the actions are made of keeps its type.                            *)
LEMMA PartsTyped ==
    ASSUME TypeOK
    PROVE  /\ NoSession \in Sessions /\ NoMessage \in Entries /\ Idle.msg = NoMessage
           /\ \A ok \in BOOLEAN : /\ Left(ok) \in [session : Sessions, trying : Sessions,
                                                    resetDue : BOOLEAN]
                                  /\ Contexts(ok) \subseteq Sessions
           /\ \A call : Ends(call) \subseteq BOOLEAN /\ TRUE \in Ends(call)
           /\ \A z \in Sessions : Outdated(z) \in Sessions
<1>1. NoSession \in Sessions
  BY DEF NoSession, Session, Sessions
<1>2. NoMessage \in Entries /\ Idle.msg = NoMessage
  BY DEF NoMessage, Post, Entries, Idle
<1>3. \A ok \in BOOLEAN : /\ Left(ok) \in [session : Sessions, trying : Sessions,
                                            resetDue : BOOLEAN]
                          /\ Contexts(ok) \subseteq Sessions
  BY <1>1 DEF TypeOK, Left, Contexts
<1>4. \A call : Ends(call) \subseteq BOOLEAN /\ TRUE \in Ends(call)
  BY DEF Ends
<1>5. \A z \in Sessions : Outdated(z) \in Sessions
  BY DEF Sessions, Outdated, Session
<1> QED BY <1>1, <1>2, <1>3, <1>4, <1>5

(* The first event is an entry, and taking it shortens the queue.          *)
LEMMA TakeTyped ==
    ASSUME TypeOK, NEW kind, Takes(kind)
    PROVE  /\ Event \in Entries /\ Event.kind = kind
           /\ eventQue' \in Seq(Entries) /\ Len(eventQue') <= EventQueMax
           /\ \A i \in 1 .. Len(eventQue') :
                 \E j \in 1 .. Len(eventQue) : eventQue'[i] = eventQue[j]
           /\ doing.at = "idle" /\ state # "INIT" /\ ~(state = "ENGINE" /\ modem.resetDue)
<1>1. eventQue \in Seq(Entries) /\ eventQue # <<>> /\ eventQue' = Tail(eventQue)
      /\ Len(eventQue) <= EventQueMax
  BY DEF TypeOK, Takes, TakesEvents
<1>2. /\ Head(eventQue) \in Entries /\ Tail(eventQue) \in Seq(Entries)
      /\ Len(Tail(eventQue)) = Len(eventQue) - 1
      /\ \A i \in 1 .. Len(Tail(eventQue)) : Tail(eventQue)[i] = eventQue[i + 1]
  BY <1>1, HeadTailProperties
<1>3. Len(eventQue) \in Nat /\ EventQueMax \in Nat
  BY <1>1, SizeAssumption, LenProperties
<1>4. \A i \in 1 .. Len(Tail(eventQue)) : i + 1 \in 1 .. Len(eventQue)
  BY <1>2, <1>3
<1> QED BY <1>1, <1>2, <1>3, <1>4 DEF Takes, TakesEvents, Event

(* Storing a message for later, alone or at the end of a join's start.     *)
LEMMA StoreTyped ==
    ASSUME TypeOK, NEW m \in Entries
    PROVE  PutMsg(m) \in Seq(Entries) /\ Len(PutMsg(m)) <= MsgQueMax
<1>1. msgQue \in Seq(Entries) /\ MsgQueMax \in Nat
  BY SizeAssumption DEF TypeOK
<1> QED BY <1>1, PutLemma DEF PutMsg

(* Rescheduling the stored messages.                                       *)
LEMMA RescheduleTyped ==
    ASSUME TypeOK, RescheduleMessages
    PROVE  /\ eventQue' \in Seq(Entries) /\ Len(eventQue') <= EventQueMax
           /\ msgQue' \in Seq(Entries) /\ Len(msgQue') <= MsgQueMax
<1>1. eventQue \o msgQue \in Seq(Entries)
  BY ConcatProperties DEF TypeOK
<1>2. EventQueMax \in Nat /\ MsgQueMax \in Nat
  BY SizeAssumption
<1>3. Newest(eventQue \o msgQue, EventQueMax) \in Seq(Entries)
      /\ Len(Newest(eventQue \o msgQue, EventQueMax)) <= EventQueMax
  BY <1>1, <1>2, NewestLemma
<1>4. <<>> \in Seq(Entries) /\ Len(<<>>) = 0
  BY EmptySeq
<1> QED BY <1>2, <1>3, <1>4 DEF RescheduleMessages

(* Posting an event.                                                       *)
LEMMA PostTyped ==
    ASSUME TypeOK, NEW e \in Entries, Posts(e)
    PROVE  /\ eventQue' \in Seq(Entries) /\ Len(eventQue') <= EventQueMax
           /\ \A i \in 1 .. Len(eventQue') :
                 \/ eventQue'[i] = e
                 \/ \E j \in 1 .. Len(eventQue) : eventQue'[i] = eventQue[j]
<1>1. eventQue \in Seq(Entries) /\ EventQueMax \in Nat
  BY SizeAssumption DEF TypeOK
<1> QED BY <1>1, PutLemma DEF Posts, PutEvent

(* The handlers of events only take an event, and store it or not.         *)
LEMMA HandlersTake ==
    ASSUME HandleEvent
    PROVE  /\ \E kind : Takes(kind)
           /\ UNCHANGED msgQue \/ StoreForLater
BY DEF HandleEvent, HandleMessageLater, HandleMessageDisabled, HandleMessageRejoin,
   HandleMessageJoin, HandleMessageWait, HandleMessageSend, HandleLeave, HandleStart,
   HandleReset, HandleJob, RefuseScan, HandleSuspend, HandleResume, flags, ques, confs, ghost

LEMMA QuesStep ==
    ASSUME TypeOK, [Next]_vars
    PROVE  QuesTyped'
<1>0. QuesTyped /\ DoingTyped
  BY Parts
<1>1. CASE HandleEvent
  <2>1. PICK kind : Takes(kind)
    BY <1>1, HandlersTake
  <2>2. Event \in Entries /\ eventQue' \in Seq(Entries) /\ Len(eventQue') <= EventQueMax
    BY <2>1, TakeTyped
  <2>3. msgQue' \in Seq(Entries) /\ Len(msgQue') <= MsgQueMax
    BY <1>0, <1>1, <2>2, HandlersTake, StoreTyped DEF StoreForLater, QuesTyped
  <2> QED BY <2>2, <2>3 DEF QuesTyped
<1>2. CASE EndStart /\ UNCHANGED eventQue
  <2>1. doing.msg \in Entries
    BY <1>0 DEF DoingTyped
  <2>2. msgQue' \in Seq(Entries) /\ Len(msgQue') <= MsgQueMax
    BY <1>0, <1>2, <2>1, StoreTyped DEF EndStart, QuesTyped
  <2> QED BY <1>0, <1>2, <2>2 DEF QuesTyped
<1>3. CASE RescheduleMessages
  BY <1>3, RescheduleTyped DEF QuesTyped
<1>4. CASE \E e \in Entries : Posts(e) /\ UNCHANGED msgQue
  BY <1>0, <1>4, PostTyped DEF QuesTyped
<1>5. CASE Reboot
  <2>1. eventQue' = <<>> /\ msgQue' = <<>>
    BY <1>5 DEF Reboot
  <2> QED BY <2>1, SizeAssumption, EmptySeq DEF QuesTyped
<1>6. CASE UNCHANGED ques
  BY <1>0, <1>6 DEF QuesTyped, ques
<1>7. CASE DeleteRecord \/ Configure \/ JoinNetwork
  <2>1. UNCHANGED eventQue /\ (EndStart \/ UNCHANGED msgQue)
    BY <1>7 DEF DeleteRecord, Configure, JoinNetwork
  <2> QED BY <1>2, <1>6, <2>1 DEF ques
<1>8. CASE InitLr \/ SendMessage \/ PostCommand
  <2>1. CASE InitLr
    <3>1. Post("start") \in Entries
      BY DEF Post, Entries
    <3> QED BY <1>4, <2>1, <3>1 DEF InitLr
  <2>2. CASE SendMessage
    <3>1. made.messages \in Nat
      BY Parts DEF GhostTyped
    <3>2. \A join \in BOOLEAN : Message(made.messages + 1, join) \in Entries
      BY <3>1 DEF Message, Entries
    <3> QED BY <1>4, <2>2, <3>2 DEF SendMessage
  <2>3. CASE PostCommand
    <3>1. \A kind \in Commands : Post(kind) \in Entries
      BY CommandAssumption DEF Post, Entries
    <3> QED BY <1>4, <2>3, <3>1 DEF PostCommand
  <2> QED BY <1>8, <2>1, <2>2, <2>3
<1>9. CASE InitEngine \/ OnResetFails \/ OnResetNoSession \/ OnResetMismatch \/ JoinAccepted
           \/ OnJoinFail \/ OnTxDone \/ ChangeSetting \/ SetConfiguration \/ UNCHANGED vars
  BY <1>6, <1>9 DEF InitEngine, OnResetFails, OnResetNoSession, OnResetMismatch, JoinAccepted,
     OnJoinFail, OnTxDone, ChangeSetting, SetConfiguration, vars
<1>10. CASE OnResetRestored \/ OnJoined
  BY <1>3, <1>10 DEF OnResetRestored, OnJoined
<1> QED
  BY <1>1, <1>5, <1>7, <1>8, <1>9, <1>10 DEF Next, Thread, JoinEnds

LEMMA FlagsStep ==
    ASSUME TypeOK, [Next]_vars
    PROVE  FlagsTyped'
<1>0. FlagsTyped /\ 0 \in 0 .. JoinAttempts - 1
  BY Parts, SizeAssumption DEF FlagsTyped
<1>1. \A call : Ends(call) \subseteq BOOLEAN
  BY DEF Ends
<1>2. CASE UNCHANGED flags
  BY <1>0, <1>2 DEF FlagsTyped, flags
<1>3. CASE HandleMessageRejoin \/ HandleMessageSend \/ HandleLeave \/ HandleStart \/ HandleReset
  BY <1>0, <1>1, <1>3 DEF FlagsTyped, HandleMessageRejoin, HandleMessageSend, HandleLeave,
     HandleStart, HandleReset
<1>4. CASE HandleJob
  BY <1>0, <1>1, <1>4 DEF FlagsTyped, HandleJob, StateAfterJob
<1>5. CASE HandleSuspend
  BY <1>0, <1>1, <1>5 DEF FlagsTyped, HandleSuspend
<1>6. CASE HandleResume
  BY <1>0, <1>1, <1>6 DEF FlagsTyped, HandleResume
<1>7. CASE JoinNetwork
  BY <1>0, <1>1, <1>7 DEF FlagsTyped, JoinNetwork
<1>8. CASE InitEngine \/ OnResetNoSession \/ OnResetRestored \/ OnResetMismatch \/ OnJoined
  BY <1>0, <1>8 DEF FlagsTyped, InitEngine, OnResetNoSession, OnResetRestored, OnResetMismatch,
     OnJoined
<1>9. CASE OnJoinFail
  <2>1. failed' \in 0 .. JoinAttempts - 1
    BY <1>0, <1>9, SizeAssumption DEF OnJoinFail, FlagsTyped
  <2> QED BY <1>0, <1>9, <2>1 DEF FlagsTyped, OnJoinFail
<1>10. CASE OnTxDone \/ PostCommand \/ Reboot
  BY <1>0, <1>10 DEF FlagsTyped, OnTxDone, PostCommand, Reboot
<1>11. CASE HandleMessageLater \/ HandleMessageDisabled \/ HandleMessageJoin
            \/ HandleMessageWait \/ RefuseScan \/ DeleteRecord \/ Configure
            \/ OnResetFails \/ JoinAccepted \/ InitLr \/ SendMessage \/ ChangeSetting
            \/ SetConfiguration \/ UNCHANGED vars
  BY <1>2, <1>11 DEF HandleMessageLater, HandleMessageDisabled, HandleMessageJoin,
     HandleMessageWait, RefuseScan, DeleteRecord, Configure, OnResetFails, JoinAccepted, InitLr,
     SendMessage, ChangeSetting, SetConfiguration, vars
<1> QED
  BY <1>3, <1>4, <1>5, <1>6, <1>7, <1>8, <1>9, <1>10, <1>11 DEF Next, Thread, HandleEvent, JoinEnds

LEMMA ConfsStep ==
    ASSUME TypeOK, [Next]_vars
    PROVE  ConfsTyped'
<1>0. ConfsTyped /\ NvsTyped
  BY Parts
<1>1. CASE UNCHANGED confs
  BY <1>0, <1>1 DEF ConfsTyped, confs
<1>2. CASE HandleMessageRejoin \/ HandleLeave \/ HandleReset \/ DeleteRecord \/ OnJoined
           \/ OnJoinFail \/ OnResetMismatch \/ Reboot
  BY <1>0, <1>2 DEF ConfsTyped, HandleMessageRejoin, HandleLeave, HandleReset, DeleteRecord,
     OnJoined, OnJoinFail, OnResetMismatch, Reboot
<1>3. CASE Configure
  BY <1>0, <1>3 DEF ConfsTyped, Configure
<1>4. CASE JoinNetwork
  <2>1. changePending' \in BOOLEAN /\ attempt' \in Configs \cup {NoConfig}
    BY <1>0, <1>4 DEF ConfsTyped, JoinNetwork
  <2> QED BY <1>0, <1>4, <2>1 DEF ConfsTyped, JoinNetwork
<1>5. CASE InitEngine
  BY <1>0, <1>5 DEF ConfsTyped, NvsTyped, InitEngine
<1>6. CASE InitLr \/ SetConfiguration
  BY <1>0, <1>6 DEF ConfsTyped, NvsTyped, InitLr, SetConfiguration
<1>7. CASE HandleMessageLater \/ HandleMessageDisabled \/ HandleMessageJoin \/ HandleMessageWait
           \/ HandleMessageSend \/ HandleStart \/ HandleJob \/ RefuseScan \/ HandleSuspend
           \/ HandleResume
  BY <1>1, <1>7 DEF HandleMessageLater, HandleMessageDisabled, HandleMessageJoin,
     HandleMessageWait, HandleMessageSend, HandleStart, HandleJob, RefuseScan, HandleSuspend,
     HandleResume
<1>8. CASE OnResetFails \/ OnResetNoSession \/ OnResetRestored \/ JoinAccepted \/ OnTxDone
           \/ SendMessage \/ PostCommand \/ ChangeSetting \/ UNCHANGED vars
  BY <1>1, <1>8 DEF OnResetFails, OnResetNoSession, OnResetRestored, JoinAccepted, OnTxDone,
     SendMessage, PostCommand, ChangeSetting, vars
<1> QED
  BY <1>2, <1>3, <1>4, <1>5, <1>6, <1>7, <1>8 DEF Next, Thread, HandleEvent, JoinEnds

LEMMA DoingStep ==
    ASSUME TypeOK, [Next]_vars
    PROVE  DoingTyped'
<1>0. DoingTyped /\ ConfsTyped
  BY Parts
<1>1. \A e \in Entries : Start(e) \in [at : {"idle", "delete", "configure", "join", "joined"},
                                       msg : Entries, params : Sessions, latched : BOOLEAN]
  BY PartsTyped DEF Start
<1>2. Idle \in [at : {"idle", "delete", "configure", "join", "joined"},
                msg : Entries, params : Sessions, latched : BOOLEAN]
  BY PartsTyped DEF Idle
<1>3. CASE UNCHANGED doing
  BY <1>0, <1>3 DEF DoingTyped
<1>4. CASE HandleMessageRejoin \/ HandleMessageJoin
  <2>1. Event \in Entries
    BY <1>4, TakeTyped DEF HandleMessageRejoin, HandleMessageJoin
  <2>2. doing' = Start(Event) \/ UNCHANGED doing
    BY <1>4 DEF HandleMessageRejoin, HandleMessageJoin
  <2> QED BY <1>1, <1>3, <2>1, <2>2 DEF DoingTyped
<1>5. CASE OnResetNoSession \/ OnResetMismatch
  <2>1. doing' = Start(NoMessage) \/ UNCHANGED doing
    BY <1>5 DEF OnResetNoSession, OnResetMismatch
  <2> QED BY <1>1, <1>3, <2>1, PartsTyped DEF DoingTyped
<1>6. CASE EndStart \/ OnJoined \/ Reboot
  BY <1>2, <1>6 DEF EndStart, OnJoined, Reboot, DoingTyped
<1>7. CASE DeleteRecord
  <2>1. EndStart \/ doing' = [doing EXCEPT !.at = "configure"]
    BY <1>7 DEF DeleteRecord
  <2> QED BY <1>0, <1>6, <2>1 DEF DoingTyped
<1>8. CASE Configure
  <2>1. \/ EndStart
        \/ doing' = [doing EXCEPT !.at = "join", !.latched = changePending,
                                  !.params = Session(desired, TRUE)]
    BY <1>8 DEF Configure
  <2>2. Session(desired, TRUE) \in Sessions /\ changePending \in BOOLEAN
    BY <1>0 DEF Session, Sessions, ConfsTyped
  <2> QED BY <1>0, <1>6, <2>1, <2>2 DEF DoingTyped
<1>9. CASE JoinNetwork
  BY <1>6, <1>9 DEF JoinNetwork
<1>10. CASE JoinAccepted
  BY <1>2, <1>10 DEF JoinAccepted, DoingTyped
<1>11. CASE SetConfiguration
  <2>1. doing' = [doing EXCEPT !.params = Outdated(@)]
    BY <1>11 DEF SetConfiguration
  <2>2. Outdated(doing.params) \in Sessions
    BY <1>0, PartsTyped DEF DoingTyped
  <2> QED BY <1>0, <2>1, <2>2 DEF DoingTyped
<1>12. CASE HandleMessageLater \/ HandleMessageDisabled \/ HandleMessageWait
            \/ HandleMessageSend \/ HandleLeave \/ HandleStart \/ HandleReset \/ HandleJob
            \/ RefuseScan \/ HandleSuspend \/ HandleResume
  BY <1>3, <1>12 DEF HandleMessageLater, HandleMessageDisabled, HandleMessageWait,
     HandleMessageSend, HandleLeave, HandleStart, HandleReset, HandleJob, RefuseScan,
     HandleSuspend, HandleResume
<1>13. CASE InitEngine \/ OnResetFails \/ OnResetRestored \/ OnJoinFail \/ OnTxDone \/ InitLr
            \/ SendMessage \/ PostCommand \/ ChangeSetting \/ UNCHANGED vars
  BY <1>3, <1>13 DEF InitEngine, OnResetFails, OnResetRestored, OnJoinFail, OnTxDone, InitLr,
     SendMessage, PostCommand, ChangeSetting, vars
<1> QED
  BY <1>4, <1>5, <1>6, <1>7, <1>8, <1>9, <1>10, <1>11, <1>12, <1>13
     DEF Next, Thread, HandleEvent, JoinEnds

(* A leave changes nothing but the sessions.                               *)
LEMMA LeaveTyped ==
    ASSUME TypeOK, NEW ok \in BOOLEAN, Leave(ok)
    PROVE  NvsTyped' /\ ModemTyped' /\ nvs'.record = nvs.record
           /\ nvs'.setting = nvs.setting /\ nvs'.session \in {nvs.session, NoSession}
<1>0. NvsTyped /\ ModemTyped /\ NoSession \in Sessions
  BY Parts, PartsTyped
<1>1. PICK context \in Contexts(ok) : nvs' = [nvs EXCEPT !.session = context]
  BY DEF Leave
<1>2. context \in {nvs.session, NoSession}
  BY <1>1 DEF Contexts
<1>3. modem' \in [session : Sessions, trying : Sessions, resetDue : BOOLEAN]
  BY PartsTyped DEF Leave
<1> QED BY <1>0, <1>1, <1>2, <1>3 DEF NvsTyped, ModemTyped

LEMMA LeavesTyped ==
    ASSUME TypeOK, NEW call, NEW ok \in Ends(call), Leave(ok)
    PROVE  NvsTyped' /\ ModemTyped'
BY PartsTyped, LeaveTyped

(* The mismatch found after a reset leaves in the same way.                *)
LEMMA MismatchTyped ==
    ASSUME TypeOK, OnResetMismatch
    PROVE  NvsTyped' /\ ModemTyped'
<1>0. NvsTyped /\ ModemTyped /\ NoSession \in Sessions
  BY Parts, PartsTyped
<1>1. PICK ok \in BOOLEAN :
        /\ modem' = [Left(ok) EXCEPT !.resetDue = FALSE]
        /\ \E context \in Contexts(ok) : nvs' = [nvs EXCEPT !.session = context]
  BY PartsTyped DEF OnResetMismatch
<1>2. PICK context \in Contexts(ok) : nvs' = [nvs EXCEPT !.session = context]
  BY <1>1
<1>3. context \in Sessions
  BY <1>0, <1>2 DEF Contexts, NvsTyped
<1>4. modem' \in [session : Sessions, trying : Sessions, resetDue : BOOLEAN]
  BY <1>1, PartsTyped
<1> QED BY <1>0, <1>2, <1>3, <1>4 DEF NvsTyped, ModemTyped

LEMMA NvsModemStep ==
    ASSUME TypeOK, [Next]_vars
    PROVE  NvsTyped' /\ ModemTyped'
<1>0. NvsTyped /\ ModemTyped /\ ConfsTyped /\ DoingTyped /\ NoSession \in Sessions
  BY Parts, PartsTyped
<1>1. CASE UNCHANGED <<nvs, modem>>
  BY <1>0, <1>1 DEF NvsTyped, ModemTyped
<1>2. CASE HandleMessageRejoin \/ HandleLeave \/ HandleReset
  <2>1. PICK ok \in Ends("leave") : Leave(ok)
    BY <1>2 DEF HandleMessageRejoin, HandleLeave, HandleReset
  <2> QED BY <2>1, LeavesTyped
<1>3. CASE OnJoinFail
  <2>1. UNCHANGED <<nvs, modem>> \/ \E ok \in Ends("leave") : Leave(ok)
    BY <1>3 DEF OnJoinFail
  <2> QED BY <1>1, <2>1, LeavesTyped
<1>4. CASE OnResetMismatch
  BY <1>4, MismatchTyped
<1>5. CASE DeleteRecord
  <2>1. UNCHANGED modem /\ (UNCHANGED nvs \/ nvs' = [nvs EXCEPT !.record = NoConfig])
    BY <1>5 DEF DeleteRecord
  <2> QED BY <1>0, <2>1 DEF NvsTyped, ModemTyped
<1>6. CASE OnJoined
  <2>1. UNCHANGED modem /\ (UNCHANGED nvs \/ nvs' = [nvs EXCEPT !.record = attempt])
    BY <1>6 DEF OnJoined
  <2> QED BY <1>0, <2>1 DEF NvsTyped, ModemTyped, ConfsTyped
<1>7. CASE JoinNetwork
  <2>1. UNCHANGED nvs /\ (UNCHANGED modem \/ modem' = [modem EXCEPT !.trying = doing.params])
    BY <1>7 DEF JoinNetwork
  <2> QED BY <1>0, <2>1 DEF NvsTyped, ModemTyped, DoingTyped
<1>8. CASE InitEngine
  <2>1. UNCHANGED nvs
        /\ modem' = [session |-> nvs.session, trying |-> NoSession, resetDue |-> TRUE]
    BY <1>8 DEF InitEngine
  <2> QED BY <1>0, <2>1 DEF NvsTyped, ModemTyped
<1>9. CASE OnResetFails \/ OnResetNoSession \/ OnResetRestored
  <2>1. UNCHANGED nvs /\ modem' = ResetReported
    BY <1>9 DEF OnResetFails, OnResetNoSession, OnResetRestored
  <2> QED BY <1>0, <2>1 DEF NvsTyped, ModemTyped, ResetReported
<1>10. CASE JoinAccepted
  <2>1. /\ modem' = [modem EXCEPT !.session = modem.trying, !.trying = NoSession]
        /\ nvs' = [nvs EXCEPT !.session = modem.trying]
    BY <1>10 DEF JoinAccepted
  <2> QED BY <1>0, <2>1 DEF NvsTyped, ModemTyped
<1>11. CASE InitLr
  <2>1. UNCHANGED modem
        /\ \/ UNCHANGED nvs
           \/ nvs' = [nvs EXCEPT !.session = Session(nvs.session.cfg, nvs.session.cfg = nvs.setting)]
    BY <1>0, <1>11 DEF InitLr, NvsTyped
  <2>2. Session(nvs.session.cfg, nvs.session.cfg = nvs.setting) \in Sessions
    BY <1>0 DEF NvsTyped, Session, Sessions
  <2> QED BY <1>0, <2>1, <2>2 DEF NvsTyped, ModemTyped
<1>12. CASE ChangeSetting
  <2>1. UNCHANGED modem /\ \E c \in Configs : nvs' = [nvs EXCEPT !.setting = c]
    BY <1>12 DEF ChangeSetting
  <2> QED BY <1>0, <2>1 DEF NvsTyped, ModemTyped
<1>13. CASE SetConfiguration
  <2>1. /\ nvs'   = [nvs EXCEPT !.session = Outdated(nvs.session)]
        /\ modem' = [modem EXCEPT !.session = Outdated(modem.session),
                                  !.trying = Outdated(modem.trying)]
    BY <1>13 DEF SetConfiguration
  <2>2. Outdated(nvs.session) \in Sessions /\ Outdated(modem.session) \in Sessions
        /\ Outdated(modem.trying) \in Sessions
    BY <1>0, PartsTyped DEF NvsTyped, ModemTyped
  <2> QED BY <1>0, <2>1, <2>2 DEF NvsTyped, ModemTyped
<1>14. CASE Reboot
  <2>1. UNCHANGED nvs
        /\ modem' = [session |-> NoSession, trying |-> NoSession, resetDue |-> FALSE]
    BY <1>14 DEF Reboot
  <2> QED BY <1>0, <2>1 DEF NvsTyped, ModemTyped
<1>15. CASE HandleMessageLater \/ HandleMessageDisabled \/ HandleMessageJoin
            \/ HandleMessageWait \/ HandleMessageSend \/ HandleStart \/ HandleJob \/ RefuseScan
            \/ HandleSuspend \/ HandleResume
  BY <1>1, <1>15 DEF HandleMessageLater, HandleMessageDisabled, HandleMessageJoin,
     HandleMessageWait, HandleMessageSend, HandleStart, HandleJob, RefuseScan, HandleSuspend,
     HandleResume
<1>16. CASE Configure \/ OnTxDone \/ SendMessage \/ PostCommand \/ UNCHANGED vars
  BY <1>1, <1>16 DEF Configure, OnTxDone, SendMessage, PostCommand, vars
<1> QED
  BY <1>2, <1>3, <1>4, <1>5, <1>6, <1>7, <1>8, <1>9, <1>10, <1>11, <1>12, <1>13, <1>14, <1>15,
     <1>16 DEF Next, Thread, HandleEvent, JoinEnds

LEMMA GhostStep ==
    ASSUME TypeOK, [Next]_vars
    PROVE  GhostTyped'
<1>0. GhostTyped
  BY Parts
<1>1. faulty' \subseteq Calls
  <2>1. \/ UNCHANGED faulty
        \/ \E call \in Calls : \E ok : FaultIs(call, ok)
        \/ faulty' \subseteq faulty \cup {"suspend", "resume"}
    <3>1. CASE HandleEvent
      BY <3>1 DEF HandleEvent, HandleMessageLater, HandleMessageDisabled, HandleMessageRejoin,
         HandleMessageJoin, HandleMessageWait, HandleMessageSend, HandleLeave, HandleStart,
         HandleReset, HandleJob, RefuseScan, HandleSuspend, HandleResume, Leave, Calls
    <3>2. CASE DeleteRecord \/ Configure \/ JoinNetwork \/ InitEngine \/ OnJoined
      BY <3>2 DEF DeleteRecord, Configure, JoinNetwork, InitEngine, OnJoined, Calls
    <3>3. CASE OnResetFails \/ OnResetNoSession \/ OnResetRestored \/ OnResetMismatch
      BY <3>3 DEF OnResetFails, OnResetNoSession, OnResetRestored, OnResetMismatch, Calls
    <3>4. CASE JoinEnds \/ OnTxDone \/ InitLr \/ SendMessage \/ PostCommand \/ ChangeSetting
               \/ SetConfiguration \/ Reboot \/ UNCHANGED vars
      BY <3>4 DEF JoinEnds, JoinAccepted, OnJoinFail, Leave, OnTxDone, InitLr, SendMessage,
         PostCommand, ChangeSetting, SetConfiguration, Reboot, vars, Calls
    <3> QED BY <3>1, <3>2, <3>3, <3>4 DEF Next, Thread
  <2> QED BY <1>0, <2>1 DEF GhostTyped, FaultIs, Calls
<1>2. uplinks' \in Seq(Nat)
  <2>1. CASE HandleMessageSend
    <3>1. Event.id \in Nat
      BY <2>1, TakeTyped DEF HandleMessageSend, Entries
    <3> QED BY <1>0, <2>1, <3>1, AppendProperties DEF HandleMessageSend, GhostTyped
  <2>2. ~HandleMessageSend => UNCHANGED uplinks
    BY DEF Next, Thread, HandleEvent, HandleMessageLater, HandleMessageDisabled,
       HandleMessageRejoin, HandleMessageJoin, HandleMessageWait, HandleLeave, HandleStart,
       HandleReset, HandleJob, RefuseScan, HandleSuspend, HandleResume, DeleteRecord, Configure,
       JoinNetwork, InitEngine, OnJoined, OnResetFails, OnResetNoSession, OnResetRestored,
       OnResetMismatch, JoinEnds, JoinAccepted, OnJoinFail, OnTxDone, InitLr, SendMessage,
       PostCommand, ChangeSetting, SetConfiguration, Reboot, vars, ghost
  <2> QED BY <1>0, <2>1, <2>2 DEF GhostTyped
<1>3. made' \in [messages : Nat, commands : Nat, changes : Nat, reboots : Nat]
  <2>1. \/ UNCHANGED made
        \/ made' = [made EXCEPT !.messages = made.messages + 1]
        \/ made' = [made EXCEPT !.commands = made.commands + 1]
        \/ made' = [made EXCEPT !.changes = made.changes + 1]
        \/ made' = [made EXCEPT !.reboots = made.reboots + 1]
    BY DEF Next, Thread, HandleEvent, HandleMessageLater, HandleMessageDisabled,
       HandleMessageRejoin, HandleMessageJoin, HandleMessageWait, HandleMessageSend, HandleLeave,
       HandleStart, HandleReset, HandleJob, RefuseScan, HandleSuspend, HandleResume,
       DeleteRecord, Configure, JoinNetwork, InitEngine, OnJoined, OnResetFails,
       OnResetNoSession, OnResetRestored, OnResetMismatch, JoinEnds, JoinAccepted, OnJoinFail,
       OnTxDone, InitLr, SendMessage, PostCommand, ChangeSetting, SetConfiguration, Reboot, vars,
       ghost
  <2> QED BY <1>0, <2>1 DEF GhostTyped
<1> QED BY <1>1, <1>2, <1>3 DEF GhostTyped

(* Every step keeps the types.                                             *)
LEMMA TypeStep ==
    ASSUME TypeOK, [Next]_vars
    PROVE  TypeOK'
<1>1. FlagsTyped' /\ QuesTyped' /\ ConfsTyped' /\ DoingTyped' /\ NvsTyped' /\ ModemTyped'
      /\ GhostTyped'
  BY FlagsStep, QuesStep, ConfsStep, DoingStep, NvsModemStep, GhostStep
<1> QED
  BY <1>1 DEF TypeOK, FlagsTyped, QuesTyped, ConfsTyped, DoingTyped, NvsTyped, ModemTyped,
     GhostTyped

LEMMA TypeInit == Init => TypeOK
<1> SUFFICES ASSUME Init
             PROVE  TypeOK
  OBVIOUS
<1>0. 0 \in 0 .. JoinAttempts - 1
  BY SizeAssumption
<1>1. FlagsTyped
  BY <1>0 DEF Init, FlagsTyped
<1>2. QuesTyped
  BY SizeAssumption, EmptySeq DEF Init, QuesTyped
<1>3. ConfsTyped
  BY DEF Init, ConfsTyped
<1>4. DoingTyped
  BY DEF Init, DoingTyped, Idle, NoMessage, Post, Entries, NoSession, Session, Sessions
<1>5. NvsTyped /\ ModemTyped
  BY ConfigAssumption DEF Init, NvsTyped, ModemTyped, NoSession, Session, Sessions
<1>6. GhostTyped
  BY EmptySeq DEF Init, GhostTyped
<1> QED BY <1>1, <1>2, <1>3, <1>4, <1>5, <1>6, Parts

-----------------------------------------------------------------------------
(* The invariant, action by action                                         *)

Core == Positions /\ RecordMatchesSession /\ RecordGone /\ AttemptNamesJoin /\ StaleIsLatched

(* The fields of the records that steps change, so that they can be cited. *)
LEMMA Fields ==
    ASSUME TypeOK
    PROVE  /\ doing = [at |-> doing.at, msg |-> doing.msg, params |-> doing.params,
                       latched |-> doing.latched]
           /\ nvs = [setting |-> nvs.setting, record |-> nvs.record, session |-> nvs.session]
           /\ modem = [session |-> modem.session, trying |-> modem.trying,
                       resetDue |-> modem.resetDue]
           /\ nvs.setting \in Configs /\ nvs.setting # NoConfig
BY Parts, ConfigAssumption DEF DoingTyped, NvsTyped, ModemTyped

(* A leave ends the session and the join or leaves them be, and of the     *)
(* context it may only take the session away.                              *)
LEMMA LeaveKeeps ==
    ASSUME TypeOK, NEW ok \in BOOLEAN, Leave(ok)
    PROVE  /\ nvs'.record = nvs.record /\ nvs'.setting = nvs.setting
           /\ nvs'.session \in {nvs.session, NoSession}
           /\ modem'.resetDue = modem.resetDue
           /\ \/ ok /\ modem'.session = NoSession /\ modem'.trying = NoSession
              \/ ~ok /\ modem'.session = modem.session /\ modem'.trying = modem.trying
           /\ faulty \subseteq faulty'
<1>1. nvs'.record = nvs.record /\ nvs'.setting = nvs.setting
      /\ nvs'.session \in {nvs.session, NoSession}
  BY LeaveTyped
<1>2. /\ modem'.resetDue = modem.resetDue
      /\ \/ ok /\ modem'.session = NoSession /\ modem'.trying = NoSession
         \/ ~ok /\ modem'.session = modem.session /\ modem'.trying = modem.trying
  BY Fields DEF Leave, Left
<1>3. faulty \subseteq faulty'
  BY DEF Leave, FaultIs
<1> QED BY <1>1, <1>2, <1>3

(* Events are taken between handlers, and never before the modem has       *)
(* reported its reset.                                                     *)
LEMMA TakesWhen ==
    ASSUME IInv, TakesEvents
    PROVE  doing.at = "idle" /\ ~modem.resetDue /\ state # "INIT"
BY DEF IInv, Positions, TakesEvents

(* A step that leaves the session, the settings and the position alone.    *)
LEMMA CoreKept ==
    ASSUME IInv, UNCHANGED <<doing, modem, desired, changePending, attempt, joined>>,
           nvs'.record = nvs.record, nvs'.session = nvs.session, faulty \subseteq faulty',
           UNCHANGED state \/ TakesEvents
    PROVE  Core'
<1>1. UNCHANGED state \/ (doing.at = "idle" /\ ~modem.resetDue)
  BY TakesWhen
<1>2. Positions'
  BY <1>1 DEF IInv, Positions
<1>3. RecordMatchesSession' /\ RecordGone' /\ AttemptNamesJoin'
  BY DEF IInv, RecordMatchesSession, RecordGone, AttemptNamesJoin
<1>4. StaleIsLatched'
  BY DEF IInv, StaleIsLatched, Stale, Matches
<1> QED BY <1>2, <1>3, <1>4 DEF Core

(* A step that leaves the network between handlers, and may then start a   *)
(* join if the leave succeeded.                                            *)
LEMMA CoreLeft ==
    ASSUME IInv, NEW ok \in BOOLEAN, Leave(ok), TakesEvents,
           UNCHANGED <<desired, changePending, joined>>,
           attempt' = NoConfig \/ (~ok /\ UNCHANGED attempt),
           UNCHANGED doing \/ (ok /\ UNCHANGED state /\ doing'.at = "delete")
    PROVE  Core'
<1>1. doing.at = "idle" /\ ~modem.resetDue /\ state # "INIT"
  BY TakesWhen
<1>2. /\ nvs'.record = nvs.record /\ nvs'.session \in {nvs.session, NoSession}
      /\ modem'.resetDue = modem.resetDue
      /\ \/ ok /\ modem'.session = NoSession /\ modem'.trying = NoSession
         \/ ~ok /\ modem'.session = modem.session /\ modem'.trying = modem.trying
      /\ faulty \subseteq faulty'
  BY LeaveKeeps DEF IInv
<1>3. Positions'
  BY <1>1, <1>2 DEF Positions
<1>4. RecordMatchesSession' /\ RecordGone' /\ AttemptNamesJoin'
  BY <1>1, <1>2 DEF IInv, RecordMatchesSession, RecordGone, AttemptNamesJoin
<1>5. StaleIsLatched'
  BY <1>1, <1>2 DEF IInv, StaleIsLatched, Stale, Matches
<1> QED BY <1>3, <1>4, <1>5 DEF Core

(* The handlers of events keep the invariant.                              *)
LEMMA HandlersKeep ==
    ASSUME IInv, HandleEvent
    PROVE  Core'
<1>0. TypeOK
  BY DEF IInv
<1>1. TakesEvents
  BY DEF HandleEvent, HandleMessageLater, HandleMessageDisabled, HandleMessageRejoin,
     HandleMessageJoin, HandleMessageWait, HandleMessageSend, HandleLeave, HandleStart,
     HandleReset, HandleJob, RefuseScan, HandleSuspend, HandleResume, Takes
<1>2. CASE /\ UNCHANGED <<confs, doing, nvs, modem>>
           /\ faulty \subseteq faulty'
  BY <1>1, <1>2, CoreKept DEF confs
<1>3. CASE HandleMessageLater \/ HandleMessageDisabled \/ HandleMessageWait \/ HandleMessageSend
           \/ HandleStart \/ HandleJob \/ RefuseScan \/ HandleSuspend \/ HandleResume
  <2>1. CASE HandleMessageLater \/ HandleMessageDisabled \/ HandleMessageWait
    BY <1>2, <2>1 DEF HandleMessageLater, HandleMessageDisabled, HandleMessageWait
  <2>2. CASE HandleStart \/ RefuseScan
    BY <1>2, <2>2 DEF HandleStart, RefuseScan
  <2>3. CASE HandleMessageSend \/ HandleJob
    BY <1>2, <2>3 DEF HandleMessageSend, HandleJob, FaultIs, confs
  <2>4. CASE HandleSuspend \/ HandleResume
    BY <1>2, <2>4 DEF HandleSuspend, HandleResume, FaultIs, confs
  <2> QED BY <1>3, <2>1, <2>2, <2>3, <2>4
<1>4. CASE HandleMessageRejoin
  <2>1. PICK ok \in Ends("leave") :
          /\ Leave(ok)
          /\ IF ok
             THEN /\ joining' = FALSE /\ attempt' = NoConfig
                  /\ doing' = Start(Event)
                  /\ UNCHANGED msgQue
             ELSE StoreForLater /\ UNCHANGED <<joining, attempt, doing>>
    BY <1>4 DEF HandleMessageRejoin
  <2>2. ok \in BOOLEAN
    BY <2>1, PartsTyped, <1>0
  <2>3. UNCHANGED <<desired, changePending, joined, state>>
    BY <1>4 DEF HandleMessageRejoin
  <2>4. CASE ok
    <3>1. attempt' = NoConfig /\ doing' = Start(Event)
      BY <2>1, <2>4
    <3>2. doing'.at = "delete"
      BY <3>1 DEF Start
    <3> QED BY <1>1, <2>1, <2>2, <2>3, <2>4, <3>1, <3>2, CoreLeft
  <2>5. CASE ~ok
    BY <1>1, <2>1, <2>2, <2>3, <2>5, CoreLeft
  <2> QED BY <2>4, <2>5
<1>5. CASE HandleMessageJoin
  <2>1. doing.at = "idle" /\ ~modem.resetDue /\ state # "INIT"
    BY <1>1, TakesWhen
  <2>2. /\ modem.session = NoSession /\ doing'.at = "delete"
        /\ UNCHANGED <<state, nvs, modem, desired, changePending, attempt, joined, faulty>>
    BY <1>5 DEF HandleMessageJoin, IsJoined, Start, flags, confs
  <2>3. Positions'
    BY <2>1, <2>2 DEF Positions
  <2>4. RecordMatchesSession' /\ RecordGone' /\ AttemptNamesJoin'
    BY <2>1, <2>2 DEF IInv, RecordMatchesSession, RecordGone, AttemptNamesJoin
  <2>5. StaleIsLatched'
    BY <2>1, <2>2 DEF IInv, StaleIsLatched, Stale, Matches
  <2> QED BY <2>3, <2>4, <2>5 DEF Core
<1>6. CASE HandleLeave \/ HandleReset
  <2>1. PICK ok \in Ends("leave") : Leave(ok)
    BY <1>6 DEF HandleLeave, HandleReset
  <2>2. ok \in BOOLEAN
    BY <2>1, PartsTyped, <1>0
  <2>3. UNCHANGED <<desired, changePending, joined, doing>> /\ attempt' = NoConfig
    BY <1>6 DEF HandleLeave, HandleReset
  <2> QED BY <1>1, <2>1, <2>2, <2>3, CoreLeft
<1> QED
  BY <1>3, <1>4, <1>5, <1>6 DEF HandleEvent

(* Giving up a join before it has started.                                 *)
LEMMA GivingUpKeeps ==
    ASSUME IInv, doing.at \in {"delete", "configure"}, doing' = Idle,
           UNCHANGED <<state, nvs, modem, desired, changePending, attempt, joined>>,
           faulty \subseteq faulty'
    PROVE  Core'
<1>1. doing'.at = "idle" /\ doing.at \notin {"join", "joined", "idle"}
  BY DEF Idle
<1>2. Positions'
  BY <1>1 DEF IInv, Positions
<1>3. RecordMatchesSession' /\ RecordGone' /\ AttemptNamesJoin'
  BY <1>1 DEF IInv, RecordMatchesSession, RecordGone, AttemptNamesJoin
<1>4. StaleIsLatched'
  BY <1>1 DEF IInv, StaleIsLatched, Stale, Matches, Positions
<1> QED BY <1>2, <1>3, <1>4 DEF Core

(* The steps of prv_start_join() keep the invariant.                       *)
LEMMA StartKeeps ==
    ASSUME IInv, DeleteRecord \/ Configure \/ JoinNetwork
    PROVE  Core'
<1>0. TypeOK /\ faulty \subseteq faulty' /\ desired # NoConfig
  BY DEF IInv, DeleteRecord, Configure, JoinNetwork, FaultIs, Unstarted
<1>1. CASE DeleteRecord /\ EndStart /\ UNCHANGED <<nvs, joined>>
  BY <1>0, <1>1, GivingUpKeeps DEF DeleteRecord, EndStart, flags
<1>2. CASE DeleteRecord /\ nvs' = [nvs EXCEPT !.record = NoConfig] /\ joined' = NoConfig
           /\ doing' = [doing EXCEPT !.at = "configure"]
  <2>1. /\ doing.at = "delete" /\ doing'.at = "configure" /\ doing'.latched = doing.latched
        /\ nvs'.record = NoConfig /\ nvs'.session = nvs.session
        /\ UNCHANGED <<state, modem, desired, changePending, attempt>>
    BY <1>0, <1>2, Fields DEF DeleteRecord, flags
  <2>2. Positions'
    BY <2>1 DEF IInv, Positions
  <2>3. RecordMatchesSession' /\ RecordGone' /\ AttemptNamesJoin'
    BY <2>1 DEF IInv, RecordMatchesSession, RecordGone, AttemptNamesJoin
  <2>4. StaleIsLatched'
    BY <1>0, <1>2, <2>1 DEF IInv, StaleIsLatched, Stale, Matches, Positions
  <2> QED BY <2>2, <2>3, <2>4 DEF Core
<1>3. CASE Configure /\ EndStart /\ UNCHANGED <<attempt, changePending>>
  BY <1>0, <1>3, GivingUpKeeps DEF Configure, EndStart, flags
<1>4. CASE Configure /\ attempt' = desired /\ changePending' = FALSE
           /\ doing' = [doing EXCEPT !.at = "join", !.latched = changePending,
                                     !.params = Session(desired, TRUE)]
  <2>1. /\ doing.at = "configure" /\ doing'.at = "join" /\ doing'.latched = changePending
        /\ doing'.params = Session(desired, TRUE)
        /\ UNCHANGED <<state, nvs, modem, desired, joined>>
    <3>1. UNCHANGED <<state, nvs, modem, desired, joined>> /\ doing.at = "configure"
      BY <1>4 DEF Configure, flags
    <3>2. /\ doing'.at = "join" /\ doing'.latched = changePending
          /\ doing'.params = Session(desired, TRUE)
      BY <1>0, <1>4, Fields
    <3> QED BY <3>1, <3>2
  <2>2. modem.session = NoSession /\ ~modem.resetDue /\ nvs.record = NoConfig
    BY <2>1 DEF IInv, Positions, RecordGone
  <2>3. Positions'
    BY <2>1, <2>2 DEF IInv, Positions
  <2>4. RecordMatchesSession' /\ RecordGone' /\ AttemptNamesJoin'
    BY <1>4, <2>1, <2>2 DEF IInv, RecordMatchesSession, RecordGone, AttemptNamesJoin, Session
  <2>5. Stale(modem.trying) => changePending
    BY <2>1 DEF IInv, StaleIsLatched
  <2>6. ~Stale(doing'.params)
    BY <2>1 DEF Stale, Session
  <2>7. StaleIsLatched'
    BY <1>0, <2>1, <2>2, <2>5, <2>6 DEF StaleIsLatched, Stale
  <2> QED BY <2>3, <2>4, <2>7 DEF Core
<1>5. CASE JoinNetwork
  <2>1. PICK ok \in BOOLEAN :
          /\ modem' = IF ok THEN [modem EXCEPT !.trying = doing.params] ELSE modem
          /\ attempt' = IF ok THEN attempt ELSE NoConfig
          /\ changePending' = (changePending \/ (~ok /\ doing.latched))
    BY <1>5, <1>0, PartsTyped DEF JoinNetwork
  <2>2. /\ doing.at = "join" /\ doing'.at = "idle"
        /\ UNCHANGED <<state, nvs, desired, joined>>
    BY <1>5 DEF JoinNetwork, EndStart, Idle
  <2>3. modem.session = NoSession /\ ~modem.resetDue /\ nvs.record = NoConfig
    BY <2>2 DEF IInv, Positions, RecordGone
  <2>4. /\ modem'.session = NoSession /\ ~modem'.resetDue
        /\ modem'.trying = IF ok THEN doing.params ELSE modem.trying
    BY <1>0, <2>1, <2>3, Fields
  <2>5. Positions'
    BY <2>2, <2>4 DEF IInv, Positions
  <2>6. RecordMatchesSession' /\ RecordGone' /\ AttemptNamesJoin'
    BY <2>1, <2>2, <2>3, <2>4 DEF IInv, RecordMatchesSession, RecordGone, AttemptNamesJoin
  <2>7. StaleIsLatched'
    BY <1>0, <2>1, <2>2, <2>3, <2>4 DEF IInv, StaleIsLatched, Stale
  <2> QED BY <2>5, <2>6, <2>7 DEF Core
<1> QED
  BY <1>1, <1>2, <1>3, <1>4, <1>5 DEF DeleteRecord, Configure

(* A reset, a join and its end keep the invariant.                         *)
LEMMA InitEngineKeeps ==
    ASSUME IInv, InitEngine
    PROVE  Core'
<1>1. /\ state = "INIT" /\ doing.at = "idle" /\ desired # NoConfig
      /\ joined' \in {nvs.record, NoConfig} /\ attempt' = NoConfig
      /\ state' = "ENGINE" /\ UNCHANGED <<nvs, doing, desired, changePending>>
      /\ faulty \subseteq faulty'
  BY DEF InitEngine, IInv, Positions, Unstarted, FaultIs
<1>2. modem'.session = nvs.session /\ modem'.trying = NoSession /\ modem'.resetDue
  BY DEF InitEngine
<1>3. Positions'
  BY <1>1, <1>2 DEF Positions
<1>4. RecordMatchesSession' /\ RecordGone' /\ AttemptNamesJoin'
  BY <1>1, <1>2 DEF IInv, RecordMatchesSession, RecordGone, AttemptNamesJoin
<1>5. ~changePending /\ Stale(nvs.session) => nvs.record # desired
  BY <1>1 DEF IInv, StaleIsLatched
<1>6. StaleIsLatched'
  BY <1>1, <1>2, <1>5 DEF StaleIsLatched, Stale, Matches, NoSession
<1> QED BY <1>3, <1>4, <1>6 DEF Core

LEMMA OnResetKeeps ==
    ASSUME IInv, OnResetFails \/ OnResetNoSession \/ OnResetRestored
    PROVE  Core'
<1>1. /\ doing.at = "idle" /\ state = "ENGINE" /\ modem.resetDue
      /\ modem'.session = modem.session /\ modem'.trying = modem.trying /\ ~modem'.resetDue
      /\ UNCHANGED <<state, nvs, desired, changePending, attempt, joined>>
  BY Fields DEF OnResetFails, OnResetNoSession, OnResetRestored, Runs, ResetReported, flags,
     confs, IInv
<1>2. \/ UNCHANGED doing /\ "info" \in faulty' /\ faulty \subseteq faulty'
      \/ UNCHANGED <<doing, faulty>> /\ Matches
      \/ doing'.at = "delete" /\ modem.session = NoSession /\ UNCHANGED faulty
  <2>1. CASE OnResetFails
    BY <2>1 DEF OnResetFails, FaultIs
  <2>2. CASE OnResetNoSession
    BY <2>2 DEF OnResetNoSession, IsJoined, Start
  <2>3. CASE OnResetRestored
    BY <2>3 DEF OnResetRestored
  <2> QED BY <2>1, <2>2, <2>3
<1>3. ~changePending => ~Stale(modem.trying) /\ (Stale(modem.session) => ~Matches)
  BY <1>1 DEF IInv, StaleIsLatched
<1>4. Positions'
  BY <1>1, <1>2 DEF IInv, Positions
<1>5. RecordMatchesSession' /\ RecordGone' /\ AttemptNamesJoin'
  BY <1>1, <1>2 DEF IInv, RecordMatchesSession, RecordGone, AttemptNamesJoin
<1>6. StaleIsLatched'
  <2> SUFFICES ASSUME ~changePending
               PROVE  StaleIsLatched'
    BY <1>1 DEF StaleIsLatched
  <2>1. Stale(modem'.session) => "info" \in faulty'
    BY <1>1, <1>2, <1>3 DEF Stale
  <2>2. ~Stale(modem'.trying) /\ doing'.at \notin {"join", "joined"}
    BY <1>1, <1>2, <1>3
  <2>3. desired # NoConfig /\ Stale(nvs.session) => nvs.record # desired
    BY DEF IInv, StaleIsLatched
  <2> QED BY <1>1, <2>1, <2>2, <2>3 DEF StaleIsLatched, Stale
<1> QED BY <1>4, <1>5, <1>6 DEF Core

LEMMA MismatchKeeps ==
    ASSUME IInv, OnResetMismatch
    PROVE  Core'
<1>0. TypeOK
  BY DEF IInv
<1>1. PICK ok \in BOOLEAN :
        /\ modem' = [Left(ok) EXCEPT !.resetDue = FALSE]
        /\ \E context \in Contexts(ok) : nvs' = [nvs EXCEPT !.session = context]
        /\ doing' = IF ok /\ joined = NoConfig THEN Start(NoMessage) ELSE doing
  BY <1>0, PartsTyped DEF OnResetMismatch
<1>2. PICK context \in Contexts(ok) : nvs' = [nvs EXCEPT !.session = context]
  BY <1>1
<1>3. nvs'.record = nvs.record /\ nvs'.session \in {nvs.session, NoSession}
  BY <1>0, <1>2, Fields DEF Contexts
<1>4. /\ ~modem'.resetDue
      /\ modem'.session = IF ok THEN NoSession ELSE modem.session
      /\ modem'.trying = IF ok THEN NoSession ELSE modem.trying
  BY <1>0, <1>1, Fields DEF Left
<1>5. /\ doing.at = "idle" /\ UNCHANGED <<state, desired, attempt, joined>> /\ changePending'
      /\ state = "ENGINE"
  BY DEF OnResetMismatch, Runs
<1>6. doing'.at = "idle" \/ (ok /\ doing'.at = "delete")
  BY <1>1, <1>5 DEF Start
<1>7. Positions'
  BY <1>4, <1>5, <1>6 DEF Positions
<1>8. RecordMatchesSession' /\ RecordGone' /\ AttemptNamesJoin'
  BY <1>3, <1>4, <1>5, <1>6 DEF IInv, RecordMatchesSession, RecordGone, AttemptNamesJoin
<1>9. StaleIsLatched'
  BY <1>5 DEF StaleIsLatched
<1> QED BY <1>7, <1>8, <1>9 DEF Core

LEMMA JoinAcceptedKeeps ==
    ASSUME IInv, JoinAccepted
    PROVE  Core'
<1>1. /\ doing.at = "idle" /\ ~modem.resetDue /\ modem.trying # NoSession /\ state = "ENGINE"
      /\ UNCHANGED <<state, desired, changePending, attempt, joined, faulty>>
  BY DEF JoinAccepted, Runs, flags, confs
<1>2. /\ modem'.session = modem.trying /\ modem'.trying = NoSession /\ ~modem'.resetDue
      /\ nvs'.record = nvs.record /\ nvs'.session = modem.trying
      /\ doing'.at = "joined"
  BY <1>1, Fields DEF JoinAccepted, Idle, IInv
<1>3. nvs.record = NoConfig
  BY <1>1 DEF IInv, RecordGone
<1>4. Positions'
  BY <1>1, <1>2 DEF Positions
<1>5. RecordMatchesSession' /\ RecordGone' /\ AttemptNamesJoin'
  BY <1>1, <1>2, <1>3 DEF IInv, RecordMatchesSession, RecordGone, AttemptNamesJoin
<1>6. ~changePending => ~Stale(modem.trying)
  BY <1>1 DEF IInv, StaleIsLatched
<1>7. StaleIsLatched'
  BY <1>1, <1>2, <1>6 DEF StaleIsLatched, Stale, NoSession
<1> QED BY <1>4, <1>5, <1>7 DEF Core

LEMMA OnJoinedKeeps ==
    ASSUME IInv, OnJoined
    PROVE  Core'
<1>1. /\ doing.at = "joined" /\ doing'.at = "idle"
      /\ UNCHANGED <<state, desired, changePending, attempt, modem>>
      /\ faulty \subseteq faulty'
  BY DEF OnJoined, Idle, FaultIs
<1>2. /\ nvs'.session = nvs.session
      /\ nvs'.record = nvs.record \/ (attempt # NoConfig /\ nvs'.record = attempt)
  BY Fields DEF OnJoined, IInv
<1>3. modem.trying = NoSession /\ ~modem.resetDue /\ state # "INIT"
  BY <1>1 DEF IInv, Positions
<1>4. Positions'
  BY <1>1, <1>3 DEF Positions
<1>5. RecordMatchesSession' /\ RecordGone' /\ AttemptNamesJoin'
  BY <1>1, <1>2, <1>3 DEF IInv, RecordMatchesSession, RecordGone, AttemptNamesJoin
<1>6. ~changePending => ~Stale(nvs.session)
                        /\ (Stale(modem.session) => modem.resetDue \/ "info" \in faulty)
  BY <1>1 DEF IInv, StaleIsLatched
<1>7. StaleIsLatched'
  BY <1>1, <1>2, <1>3, <1>6 DEF StaleIsLatched, Stale
<1> QED BY <1>4, <1>5, <1>7 DEF Core

LEMMA OnJoinFailKeeps ==
    ASSUME IInv, OnJoinFail
    PROVE  Core'
<1>0. TypeOK
  BY DEF IInv
<1>1. /\ doing.at = "idle" /\ ~modem.resetDue /\ state = "ENGINE"
      /\ UNCHANGED <<state, desired, changePending, joined, doing>>
  BY DEF OnJoinFail, Runs
<1>2. CASE UNCHANGED <<attempt, nvs, modem, faulty>>
  BY <1>1, <1>2, CoreKept
<1>3. CASE attempt' = NoConfig /\ \E ok \in Ends("leave") : Leave(ok)
  <2>1. PICK ok \in BOOLEAN : Leave(ok)
    BY <1>0, <1>3, PartsTyped
  <2>2. /\ nvs'.record = nvs.record /\ nvs'.session \in {nvs.session, NoSession}
        /\ ~modem'.resetDue
        /\ \/ modem'.session = NoSession /\ modem'.trying = NoSession
           \/ modem'.session = modem.session /\ modem'.trying = modem.trying
        /\ faulty \subseteq faulty'
    BY <1>0, <1>1, <2>1, LeaveKeeps
  <2>3. Positions'
    BY <1>1, <2>2 DEF Positions
  <2>4. RecordMatchesSession' /\ RecordGone' /\ AttemptNamesJoin'
    BY <1>1, <1>3, <2>2 DEF IInv, RecordMatchesSession, RecordGone, AttemptNamesJoin
  <2>5. StaleIsLatched'
    BY <1>1, <2>2 DEF IInv, StaleIsLatched, Stale, Matches
  <2> QED BY <2>3, <2>4, <2>5 DEF Core
<1> QED BY <1>2, <1>3 DEF OnJoinFail

(* What other threads do, and a power loss, keep the invariant.            *)
LEMMA InitLrKeeps ==
    ASSUME IInv, InitLr
    PROVE  Core'
<1>1. /\ state = "SETUP" /\ doing.at = "idle" /\ ~modem.resetDue
      /\ modem.session = NoSession /\ modem.trying = NoSession
      /\ UNCHANGED <<state, doing, modem, changePending, attempt, joined, faulty>>
  BY DEF InitLr, IInv, Unstarted, flags
<1>2. /\ nvs'.record = nvs.record /\ desired' = nvs.setting /\ nvs.setting # NoConfig
      /\ IF nvs.session = NoSession
         THEN nvs'.session = nvs.session
         ELSE nvs'.session = Session(nvs.session.cfg, nvs.session.cfg = nvs.setting)
  BY Fields DEF InitLr, IInv
<1>3. Positions'
  BY <1>1 DEF Positions
<1>4. RecordMatchesSession' /\ RecordGone' /\ AttemptNamesJoin'
  BY <1>1, <1>2 DEF IInv, RecordMatchesSession, RecordGone, AttemptNamesJoin, Session
<1>5. Stale(nvs'.session) => nvs'.record # desired'
  <2> SUFFICES ASSUME Stale(nvs'.session)
               PROVE  nvs.record # nvs.setting
    BY <1>2
  <2>1. nvs.session # NoSession
    BY <1>2 DEF Stale
  <2>2. nvs'.session = Session(nvs.session.cfg, nvs.session.cfg = nvs.setting)
    BY <1>2, <2>1
  <2>3. nvs.session.cfg = nvs.setting => nvs'.session = Session(nvs.session.cfg, TRUE)
    <3>1. nvs.session.cfg = nvs.setting => (nvs.session.cfg = nvs.setting) = TRUE
      OBVIOUS
    <3> QED BY <2>2, <3>1, Zenon
  <2>4. nvs.session.cfg # nvs.setting
    BY <2>3 DEF Stale, Session
  <2> QED BY <1>2, <2>1, <2>4 DEF IInv, RecordMatchesSession
<1>6. StaleIsLatched'
  BY <1>1, <1>5 DEF StaleIsLatched, Stale
<1> QED BY <1>3, <1>4, <1>6 DEF Core

LEMMA SetConfigurationKeeps ==
    ASSUME IInv, SetConfiguration
    PROVE  Core'
<1>1. /\ desired' = nvs.setting /\ changePending'
      /\ UNCHANGED <<state, attempt, joined, faulty>>
  BY DEF SetConfiguration, flags
<1>2. /\ doing'.at = doing.at /\ doing'.params = Outdated(doing.params)
      /\ nvs'.record = nvs.record /\ nvs'.session = Outdated(nvs.session)
      /\ modem'.session = Outdated(modem.session) /\ modem'.trying = Outdated(modem.trying)
      /\ modem'.resetDue = modem.resetDue
  BY Fields DEF SetConfiguration, IInv
<1>3. \A z : Outdated(z).cfg = z.cfg
  BY DEF Outdated, Session
<1>4. Outdated(NoSession) = NoSession
  BY DEF Outdated, NoSession, Session
<1>5. Positions'
  BY <1>1, <1>2, <1>4 DEF IInv, Positions
<1>6. RecordMatchesSession'
  BY <1>2, <1>3, <1>4 DEF IInv, RecordMatchesSession
<1>7. RecordGone'
  BY <1>2, <1>4 DEF IInv, RecordGone
<1>8. AttemptNamesJoin'
  BY <1>1, <1>2, <1>3, <1>4 DEF IInv, AttemptNamesJoin
<1>9. StaleIsLatched'
  BY <1>1 DEF StaleIsLatched
<1> QED BY <1>5, <1>6, <1>7, <1>8, <1>9 DEF Core

LEMMA RebootKeeps ==
    ASSUME IInv, Reboot
    PROVE  Core'
<1>1. /\ state' = "SETUP" /\ desired' = NoConfig /\ attempt' = NoConfig /\ joined' = NoConfig
      /\ doing'.at = "idle" /\ modem'.session = NoSession /\ modem'.trying = NoSession
      /\ ~modem'.resetDue /\ UNCHANGED nvs
  BY DEF Reboot, Idle
<1>2. Positions'
  BY <1>1 DEF Positions
<1>3. RecordMatchesSession' /\ RecordGone' /\ AttemptNamesJoin'
  BY <1>1 DEF IInv, RecordMatchesSession, RecordGone, AttemptNamesJoin
<1>4. StaleIsLatched'
  BY <1>1 DEF StaleIsLatched, Stale
<1> QED BY <1>2, <1>3, <1>4 DEF Core

(* Until init_lr() has posted the start, only the suspension and the       *)
(* resumption of the modem are taken, and they do nothing.                 *)
LEMMA UnstartedStep ==
    ASSUME IInv, [Next]_vars
    PROVE  Unstarted'
<1>0. TypeOK
  BY DEF IInv
<1>1. CASE Reboot
  <2>1. /\ state' = "SETUP" /\ doing'.at = "idle" /\ ~modem'.resetDue
        /\ modem'.session = NoSession /\ modem'.trying = NoSession /\ eventQue' = <<>>
    BY <1>1 DEF Reboot, Idle
  <2>2. Len(<<>>) = 0
    BY EmptySeq
  <2> QED BY <2>1, <2>2 DEF Unstarted
<1>2. CASE InitLr \/ SetConfiguration
  <2>1. desired' = nvs.setting /\ nvs.setting # NoConfig
    BY <1>0, <1>2, Fields DEF InitLr, SetConfiguration
  <2> QED BY <2>1 DEF Unstarted
<1>3. ~Reboot /\ ~InitLr /\ ~SetConfiguration => UNCHANGED desired
  BY DEF Next, Thread, HandleEvent, HandleMessageLater, HandleMessageDisabled,
     HandleMessageRejoin, HandleMessageJoin, HandleMessageWait, HandleMessageSend, HandleLeave,
     HandleStart, HandleReset, HandleJob, RefuseScan, HandleSuspend, HandleResume, DeleteRecord,
     Configure, JoinNetwork, InitEngine, OnJoined, OnResetFails, OnResetNoSession,
     OnResetRestored, OnResetMismatch, JoinEnds, JoinAccepted, OnJoinFail, OnTxDone,
     SendMessage, PostCommand, ChangeSetting, vars, confs
<1>4. CASE desired # NoConfig
  BY <1>1, <1>2, <1>3, <1>4 DEF Unstarted
<1>5. ASSUME desired = NoConfig
      PROVE  /\ state = "SETUP" /\ doing.at = "idle" /\ ~modem.resetDue
             /\ modem.session = NoSession /\ modem.trying = NoSession
             /\ \A i \in 1 .. Len(eventQue) : eventQue[i].kind \in {"suspend", "resume"}
             /\ \A kind : Takes(kind) => kind \in {"suspend", "resume"}
  <2>1. /\ state = "SETUP" /\ doing.at = "idle" /\ ~modem.resetDue
        /\ modem.session = NoSession /\ modem.trying = NoSession
        /\ \A i \in 1 .. Len(eventQue) : eventQue[i].kind \in {"suspend", "resume"}
    BY <1>5 DEF IInv, Unstarted
  <2>2. ASSUME NEW kind, Takes(kind)
        PROVE  kind \in {"suspend", "resume"}
    <3>1. eventQue # <<>> /\ kind = Head(eventQue).kind /\ eventQue \in Seq(Entries)
      BY <1>0, <2>2 DEF Takes, TakesEvents, Event, TypeOK
    <3>2. Head(eventQue) = eventQue[1] /\ Len(eventQue) \in Nat /\ Len(eventQue) # 0
      BY <3>1, EmptySeq, LenProperties
    <3> QED BY <2>1, <3>1, <3>2
  <2> QED BY <2>1, <2>2
<1>6. CASE desired = NoConfig /\ (HandleSuspend \/ HandleResume)
  <2>1. PICK kind : Takes(kind)
    BY <1>6 DEF HandleSuspend, HandleResume
  <2>2. \A i \in 1 .. Len(eventQue') : \E j \in 1 .. Len(eventQue) : eventQue'[i] = eventQue[j]
    BY <1>0, <2>1, TakeTyped
  <2>3. \A i \in 1 .. Len(eventQue') : eventQue'[i].kind \in {"suspend", "resume"}
    BY <1>5, <1>6, <2>2
  <2>4. UNCHANGED <<doing, modem>> /\ state' = "SETUP"
    BY <1>5, <1>6 DEF HandleSuspend, HandleResume
  <2> QED BY <1>5, <1>6, <2>3, <2>4 DEF Unstarted
<1>7. CASE desired = NoConfig /\ PostCommand
  <2>1. PICK kind \in Commands : MayPost(kind) /\ Posts(Post(kind))
    BY <1>7 DEF PostCommand
  <2>2. kind \in {"suspend", "resume"}
    BY <1>7, <2>1 DEF MayPost
  <2>3. Post(kind) \in Entries /\ Post(kind).kind = kind
    BY <2>2 DEF Post, Entries
  <2>4. \A i \in 1 .. Len(eventQue') :
           \/ eventQue'[i] = Post(kind)
           \/ \E j \in 1 .. Len(eventQue) : eventQue'[i] = eventQue[j]
    BY <1>0, <2>1, <2>3, PostTyped
  <2>5. \A i \in 1 .. Len(eventQue') : eventQue'[i].kind \in {"suspend", "resume"}
    BY <1>5, <1>7, <2>2, <2>3, <2>4
  <2>6. UNCHANGED <<state, doing, modem>>
    BY <1>7 DEF PostCommand
  <2> QED BY <1>5, <1>7, <2>5, <2>6 DEF Unstarted
<1>8. CASE desired = NoConfig /\ (ChangeSetting \/ UNCHANGED vars)
  <2>1. UNCHANGED <<state, doing, modem, eventQue>>
    BY <1>8 DEF ChangeSetting, vars, flags, ques
  <2> QED BY <1>5, <1>8, <2>1 DEF Unstarted
<1>9. ASSUME desired = NoConfig
      PROVE  /\ ~HandleMessageLater /\ ~HandleMessageDisabled /\ ~HandleMessageRejoin
             /\ ~HandleMessageJoin /\ ~HandleMessageWait /\ ~HandleMessageSend /\ ~HandleLeave
             /\ ~HandleStart /\ ~HandleReset /\ ~HandleJob /\ ~RefuseScan
  <2>1. ~Takes("message") /\ ~Takes("leave") /\ ~Takes("start") /\ ~Takes("reset")
        /\ ~Takes("scan") /\ ~Takes("sband") /\ ~Takes("vhf")
    BY <1>5, <1>9
  <2> QED
    BY <2>1 DEF HandleMessageLater, HandleMessageDisabled, HandleMessageRejoin,
       HandleMessageJoin, HandleMessageWait, HandleMessageSend, HandleLeave, HandleStart,
       HandleReset, HandleJob, RefuseScan, Jobs
<1>10. ASSUME desired = NoConfig
       PROVE  /\ ~DeleteRecord /\ ~Configure /\ ~JoinNetwork /\ ~InitEngine /\ ~OnResetFails
              /\ ~OnResetNoSession /\ ~OnResetRestored /\ ~OnResetMismatch /\ ~OnJoined
              /\ ~JoinAccepted /\ ~OnJoinFail /\ ~OnTxDone /\ ~SendMessage
  <2>1. state = "SETUP" /\ doing.at = "idle"
    BY <1>5, <1>10
  <2> QED
    BY <1>10, <2>1 DEF DeleteRecord, Configure, JoinNetwork, InitEngine, OnResetFails,
       OnResetNoSession, OnResetRestored, OnResetMismatch, OnJoined, JoinAccepted, OnJoinFail,
       OnTxDone, SendMessage, Runs
<1> QED
  BY <1>1, <1>2, <1>4, <1>6, <1>7, <1>8, <1>9, <1>10 DEF Next, Thread, HandleEvent, JoinEnds

(* Every step keeps the invariant.                                         *)
LEMMA IInvStep ==
    ASSUME IInv, [Next]_vars
    PROVE  IInv'
<1>1. SUFFICES Core'
  BY TypeStep, UnstartedStep DEF IInv, Core
<1>2. CASE UNCHANGED <<state, confs, doing, modem, faulty>>
           /\ nvs'.record = nvs.record /\ nvs'.session = nvs.session
  <2>1. UNCHANGED <<doing, modem, desired, changePending, attempt, joined>>
        /\ UNCHANGED state /\ faulty \subseteq faulty'
    BY <1>2 DEF confs
  <2> QED BY <1>2, <2>1, CoreKept
<1>3. CASE OnTxDone \/ SendMessage \/ PostCommand \/ UNCHANGED vars
  <2>1. UNCHANGED <<state, confs, doing, modem, faulty, nvs>>
    BY <1>3 DEF OnTxDone, SendMessage, PostCommand, vars, flags
  <2> QED BY <1>2, <2>1
<1>4. CASE ChangeSetting
  <2>1. \E c \in Configs : nvs' = [nvs EXCEPT !.setting = c]
    BY <1>4 DEF ChangeSetting
  <2>2. nvs'.record = nvs.record /\ nvs'.session = nvs.session
    BY <2>1, Fields DEF IInv
  <2> QED BY <1>2, <1>4, <2>2 DEF ChangeSetting, flags
<1>5. CASE HandleEvent \/ DeleteRecord \/ Configure \/ JoinNetwork
  BY <1>5, HandlersKeep, StartKeeps
<1>6. CASE InitEngine \/ OnResetFails \/ OnResetNoSession \/ OnResetRestored \/ OnResetMismatch
  BY <1>6, InitEngineKeeps, OnResetKeeps, MismatchKeeps
<1>7. CASE JoinAccepted \/ OnJoined \/ OnJoinFail
  BY <1>7, JoinAcceptedKeeps, OnJoinedKeeps, OnJoinFailKeeps
<1>8. CASE InitLr \/ SetConfiguration \/ Reboot
  BY <1>8, InitLrKeeps, SetConfigurationKeeps, RebootKeeps
<1> QED
  BY <1>3, <1>4, <1>5, <1>6, <1>7, <1>8 DEF Next, Thread, JoinEnds

LEMMA IInvInit == Init => IInv
<1> SUFFICES ASSUME Init
             PROVE  IInv
  OBVIOUS
<1>1. TypeOK
  BY TypeInit
<1>2. /\ state = "SETUP" /\ desired = NoConfig /\ attempt = NoConfig /\ doing.at = "idle"
      /\ nvs.record = NoConfig /\ nvs.session = NoSession /\ modem.session = NoSession
      /\ modem.trying = NoSession /\ ~modem.resetDue /\ eventQue = <<>>
  BY DEF Init, Idle
<1>3. Unstarted
  BY <1>2, EmptySeq DEF Unstarted
<1>4. Positions /\ RecordMatchesSession /\ RecordGone /\ AttemptNamesJoin
  BY <1>2 DEF Positions, RecordMatchesSession, RecordGone, AttemptNamesJoin
<1>5. StaleIsLatched
  BY <1>2 DEF StaleIsLatched, Stale
<1> QED BY <1>1, <1>3, <1>4, <1>5 DEF IInv

LEMMA IInvHolds == Spec => []IInv
<1>1. Init => IInv
  BY IInvInit
<1>2. IInv /\ [Next]_vars => IInv'
  BY IInvStep
<1> QED BY <1>1, <1>2, PTL DEF Spec

-----------------------------------------------------------------------------
(* The theorems                                                            *)

(* The thread's variables keep their shapes and the queues their bounds.   *)
THEOREM TypeCorrect == Spec => []TypeOK
<1>1. IInv => TypeOK
  BY DEF IInv
<1> QED BY <1>1, IInvHolds, PTL

(* The identity kept in the flash never names other settings than those    *)
(* the kept session was joined with, whatever calls of prv_start_join(),   *)
(* on_modem_reset() and on_modem_network_joined() fail, and wherever the   *)
(* power is lost.                                                          *)
THEOREM RecordCorrect == Spec => []RecordMatchesSession
<1>1. IInv => RecordMatchesSession
  BY DEF IInv
<1> QED BY <1>1, IInvHolds, PTL

(* send_frame() is reached with a session that the settings have outlived  *)
(* only if the modem could not be asked what it restored.                  *)
THEOREM UplinkFresh == Spec => UplinkOnFreshSession
<1>1. ASSUME IInv, [Next]_vars
      PROVE  [uplinks' # uplinks => modem.session.fresh \/ "info" \in faulty]_vars
  <2>1. CASE HandleMessageSend
    <3>1. /\ state = "ENGINE" /\ ~changePending /\ modem.session # NoSession
          /\ ~modem.resetDue
      BY <1>1, <2>1, TakesWhen DEF HandleMessageSend, CanSend, IsJoined, Takes
    <3> QED BY <1>1, <3>1 DEF IInv, StaleIsLatched, Stale
  <2>2. ~HandleMessageSend => UNCHANGED uplinks
    BY <1>1 DEF Next, Thread, HandleEvent, HandleMessageLater, HandleMessageDisabled,
       HandleMessageRejoin, HandleMessageJoin, HandleMessageWait, HandleLeave, HandleStart,
       HandleReset, HandleJob, RefuseScan, HandleSuspend, HandleResume, DeleteRecord, Configure,
       JoinNetwork, InitEngine, OnJoined, OnResetFails, OnResetNoSession, OnResetRestored,
       OnResetMismatch, JoinEnds, JoinAccepted, OnJoinFail, OnTxDone, InitLr, SendMessage,
       PostCommand, ChangeSetting, SetConfiguration, Reboot, vars, ghost
  <2> QED BY <2>1, <2>2
<1> QED BY <1>1, IInvHolds, PTL DEF Spec, UplinkOnFreshSession

-----------------------------------------------------------------------------
(* What lorawan_joining_status() tells                                     *)

(* A join names the settings it is made with, so that one under way is     *)
(* never mistaken for none; and the modem starts without one.              *)
JoinNamed ==
    /\ modem.trying # NoSession => modem.trying.cfg # NoConfig
    /\ doing.at = "join" => doing.params.cfg # NoConfig
    /\ modem.resetDue => modem.trying = NoSession

JInv == IInv /\ JoinNamed /\ JoiningIsKnown

LEMMA JoinKept ==
    ASSUME JInv, UNCHANGED joining, modem'.trying = modem.trying, faulty \subseteq faulty',
           modem'.resetDue => modem.resetDue,
           doing'.at # "join" \/ UNCHANGED doing, doing.at = "joined" => UNCHANGED doing
    PROVE  JoinNamed' /\ JoiningIsKnown'
<1>1. JoinNamed'
  BY DEF JInv, JoinNamed
<1>2. JoiningIsKnown'
  BY DEF JInv, JoiningIsKnown
<1> QED BY <1>1, <1>2

(* A leave that succeeds ends the join; one that fails is on record.       *)
LEMMA JoinLeft ==
    ASSUME JInv, NEW ok \in BOOLEAN, Leave(ok), joining' = FALSE \/ (~ok /\ UNCHANGED joining),
           doing.at = "idle", doing'.at \in {"idle", "delete"}
    PROVE  JoinNamed' /\ JoiningIsKnown'
<1>1. /\ modem'.resetDue = modem.resetDue
      /\ \/ ok /\ modem'.session = NoSession /\ modem'.trying = NoSession
         \/ ~ok /\ modem'.session = modem.session /\ modem'.trying = modem.trying
  BY LeaveKeeps DEF JInv, IInv
<1>2. ~ok => "leave" \in faulty'
  BY DEF Leave, FaultIs
<1>3. JoinNamed'
  BY <1>1 DEF JInv, JoinNamed
<1>4. JoiningIsKnown'
  BY <1>1, <1>2 DEF JoiningIsKnown
<1> QED BY <1>3, <1>4

LEMMA JoinHandlers ==
    ASSUME JInv, HandleEvent
    PROVE  JoinNamed' /\ JoiningIsKnown'
<1>0. TypeOK /\ doing.at = "idle"
  BY TakesWhen DEF JInv, IInv, HandleEvent, HandleMessageLater, HandleMessageDisabled,
     HandleMessageRejoin, HandleMessageJoin, HandleMessageWait, HandleMessageSend, HandleLeave,
     HandleStart, HandleReset, HandleJob, RefuseScan, HandleSuspend, HandleResume, Takes
<1>1. CASE /\ UNCHANGED <<joining, modem>> /\ doing'.at # "join" /\ faulty \subseteq faulty'
  BY <1>0, <1>1, JoinKept
<1>2. CASE HandleMessageLater \/ HandleMessageDisabled \/ HandleMessageWait \/ HandleStart
           \/ RefuseScan
  <2>1. UNCHANGED <<joining, modem, doing, faulty>>
    BY <1>2 DEF HandleMessageLater, HandleMessageDisabled, HandleMessageWait, HandleStart,
       RefuseScan, flags
  <2> QED BY <1>0, <1>1, <2>1
<1>3. CASE HandleMessageSend \/ HandleJob \/ HandleSuspend \/ HandleResume
  <2>1. UNCHANGED <<joining, modem, doing>> /\ faulty \subseteq faulty'
    BY <1>3 DEF HandleMessageSend, HandleJob, HandleSuspend, HandleResume, FaultIs
  <2> QED BY <1>0, <1>1, <2>1
<1>4. CASE HandleMessageJoin
  <2>1. UNCHANGED <<joining, modem, faulty>> /\ doing'.at = "delete"
    BY <1>4 DEF HandleMessageJoin, Start, flags
  <2> QED BY <1>1, <2>1
<1>5. CASE HandleMessageRejoin
  <2>1. PICK ok \in Ends("leave") :
          /\ Leave(ok)
          /\ IF ok
             THEN /\ joining' = FALSE /\ attempt' = NoConfig
                  /\ doing' = Start(Event)
                  /\ UNCHANGED msgQue
             ELSE StoreForLater /\ UNCHANGED <<joining, attempt, doing>>
    BY <1>5 DEF HandleMessageRejoin
  <2>2. ok \in BOOLEAN
    BY <1>0, <2>1, PartsTyped
  <2>3. /\ joining' = FALSE \/ (~ok /\ UNCHANGED joining)
        /\ doing'.at \in {"idle", "delete"}
    BY <1>0, <2>1 DEF Start
  <2> QED BY <1>0, <2>1, <2>2, <2>3, JoinLeft
<1>6. CASE HandleLeave \/ HandleReset
  <2>1. PICK ok \in Ends("leave") : Leave(ok)
    BY <1>6 DEF HandleLeave, HandleReset
  <2>2. ok \in BOOLEAN
    BY <1>0, <2>1, PartsTyped
  <2>3. joining' = FALSE /\ UNCHANGED doing
    BY <1>6 DEF HandleLeave, HandleReset
  <2> QED BY <1>0, <2>1, <2>2, <2>3, JoinLeft
<1> QED BY <1>2, <1>3, <1>4, <1>5, <1>6 DEF HandleEvent

LEMMA JoinStarts ==
    ASSUME JInv, DeleteRecord \/ Configure \/ JoinNetwork
    PROVE  JoinNamed' /\ JoiningIsKnown'
<1>0. TypeOK /\ desired # NoConfig /\ doing.at \in {"delete", "configure", "join"}
      /\ faulty \subseteq faulty'
  BY DEF JInv, IInv, Unstarted, DeleteRecord, Configure, JoinNetwork, FaultIs
<1>1. CASE DeleteRecord
  <2>1. UNCHANGED <<joining, modem>>
    BY <1>1 DEF DeleteRecord, flags
  <2>2. doing' = Idle \/ doing' = [doing EXCEPT !.at = "configure"]
    BY <1>1 DEF DeleteRecord, EndStart
  <2>3. doing'.at \in {"idle", "configure"}
    BY <1>0, <2>2, Fields DEF Idle
  <2> QED BY <1>0, <2>1, <2>3, JoinKept
<1>2. CASE Configure /\ doing' = Idle
  <2>1. UNCHANGED <<joining, modem>> /\ doing'.at = "idle"
    BY <1>2 DEF Configure, flags, Idle
  <2> QED BY <1>0, <2>1, JoinKept
<1>3. CASE Configure /\ doing' = [doing EXCEPT !.at = "join", !.latched = changePending,
                                               !.params = Session(desired, TRUE)]
  <2>1. /\ UNCHANGED <<joining, modem>> /\ doing.at = "configure"
    BY <1>3 DEF Configure, flags
  <2>2. doing'.at = "join" /\ doing'.params.cfg = desired
    BY <1>0, <1>3, Fields DEF Session
  <2> QED BY <1>0, <2>1, <2>2 DEF JInv, JoinNamed, JoiningIsKnown
<1>4. CASE JoinNetwork
  <2>1. PICK ok \in BOOLEAN :
          /\ modem' = IF ok THEN [modem EXCEPT !.trying = doing.params] ELSE modem
          /\ joining' = (joining \/ ok)
    BY <1>4, <1>0, PartsTyped DEF JoinNetwork
  <2>2. doing.at = "join" /\ doing'.at = "idle" /\ ~modem.resetDue
    BY <1>4 DEF JInv, IInv, Positions, JoinNetwork, EndStart, Idle
  <2>3. CASE ok
    <3>1. modem'.trying = doing.params /\ ~modem'.resetDue /\ joining'
      BY <1>0, <2>1, <2>2, <2>3, Fields
    <3>2. doing.params.cfg # NoConfig
      BY <2>2 DEF JInv, JoinNamed
    <3>3. doing.params # NoSession
      BY <3>2 DEF NoSession, Session
    <3> QED BY <2>2, <3>1, <3>2, <3>3 DEF JoinNamed, JoiningIsKnown
  <2>4. CASE ~ok
    <3>1. modem' = modem /\ joining' = joining
      BY <1>0, <2>1, <2>4, Parts DEF FlagsTyped
    <3> QED BY <1>0, <2>2, <3>1, JoinKept
  <2> QED BY <2>3, <2>4
<1> QED BY <1>1, <1>2, <1>3, <1>4 DEF Configure, EndStart

LEMMA JoinModem ==
    ASSUME JInv,
           InitEngine \/ OnResetFails \/ OnResetNoSession \/ OnResetRestored \/ OnResetMismatch
               \/ JoinAccepted \/ OnJoined \/ OnJoinFail
    PROVE  JoinNamed' /\ JoiningIsKnown'
<1>0. TypeOK
  BY DEF JInv, IInv
<1>1. CASE InitEngine
  <2>1. joining' = FALSE /\ modem'.trying = NoSession /\ doing'.at = "idle"
    BY <1>1 DEF InitEngine, JInv, IInv, Positions
  <2> QED BY <2>1 DEF JoinNamed, JoiningIsKnown
<1>2. CASE OnResetFails \/ OnResetNoSession \/ OnResetRestored
  <2>1. modem' = ResetReported /\ UNCHANGED joining /\ faulty \subseteq faulty'
        /\ doing.at = "idle"
    BY <1>2 DEF OnResetFails, OnResetNoSession, OnResetRestored, FaultIs, Runs, flags
  <2>2. modem'.trying = modem.trying /\ ~modem'.resetDue
    BY <1>0, <2>1, Fields DEF ResetReported
  <2>3. UNCHANGED doing \/ doing' = Start(NoMessage)
    BY <1>2 DEF OnResetFails, OnResetNoSession, OnResetRestored
  <2>4. doing'.at # "join"
    BY <2>1, <2>3 DEF Start
  <2> QED BY <2>1, <2>2, <2>4, JoinKept
<1>3. CASE OnResetMismatch
  <2>1. PICK ok \in Ends("leave") :
          /\ modem' = [Left(ok) EXCEPT !.resetDue = FALSE]
          /\ FaultIs("leave", ok)
          /\ doing' = IF ok /\ joined = NoConfig THEN Start(NoMessage) ELSE doing
    BY <1>3, Zenon DEF OnResetMismatch
  <2>2. modem.trying = NoSession /\ doing.at = "idle" /\ UNCHANGED joining
    BY <1>3 DEF OnResetMismatch, Runs, JInv, JoinNamed
  <2>3. modem'.trying = NoSession /\ ~modem'.resetDue
    BY <1>0, <2>1, <2>2, PartsTyped, Fields DEF Left
  <2>4. doing'.at # "join" /\ faulty \subseteq faulty'
    BY <2>1, <2>2 DEF Start, FaultIs
  <2> QED BY <2>2, <2>3, <2>4, JoinKept
<1>4. CASE JoinAccepted
  <2>1. modem' = [modem EXCEPT !.session = modem.trying, !.trying = NoSession]
        /\ doing'.at = "joined" /\ ~modem.resetDue
    BY <1>4 DEF JoinAccepted, Idle
  <2>2. modem'.trying = NoSession
    BY <1>0, <2>1, Fields
  <2> QED BY <2>1, <2>2 DEF JoinNamed, JoiningIsKnown
<1>5. CASE OnJoined
  <2>1. joining' = FALSE /\ modem' = modem /\ doing'.at = "idle" /\ modem.trying = NoSession
    BY <1>5 DEF OnJoined, Idle, JInv, IInv, Positions
  <2> QED BY <2>1 DEF JoinNamed, JoiningIsKnown
<1>6. CASE OnJoinFail
  <2>1. doing.at = "idle" /\ UNCHANGED doing
    BY <1>6 DEF OnJoinFail, Runs
  <2>2. CASE UNCHANGED <<joining, attempt, nvs, modem, faulty>>
    BY <2>1, <2>2, JoinKept
  <2>3. CASE joining' = FALSE /\ \E ok \in Ends("leave") : Leave(ok)
    <3>1. PICK ok \in BOOLEAN : Leave(ok)
      BY <1>0, <2>3, PartsTyped
    <3> QED BY <2>1, <2>3, <3>1, JoinLeft
  <2> QED BY <1>6, <2>2, <2>3 DEF OnJoinFail
<1> QED BY <1>1, <1>2, <1>3, <1>4, <1>5, <1>6

LEMMA JoinElsewhere ==
    ASSUME JInv,
           OnTxDone \/ InitLr \/ SendMessage \/ PostCommand \/ ChangeSetting
               \/ SetConfiguration \/ Reboot \/ UNCHANGED vars
    PROVE  JoinNamed' /\ JoiningIsKnown'
<1>1. CASE OnTxDone \/ InitLr \/ SendMessage \/ PostCommand \/ ChangeSetting \/ UNCHANGED vars
  <2>1. UNCHANGED <<joining, modem, doing, faulty>>
    BY <1>1 DEF OnTxDone, InitLr, SendMessage, PostCommand, ChangeSetting, vars, flags
  <2> QED BY <2>1, JoinKept
<1>2. CASE SetConfiguration
  <2>1. /\ UNCHANGED <<joining, faulty>>
        /\ doing'.at = doing.at /\ doing'.params = Outdated(doing.params)
        /\ modem'.trying = Outdated(modem.trying) /\ modem'.resetDue = modem.resetDue
    BY <1>2, Fields DEF SetConfiguration, JInv, IInv, flags
  <2>2. \A z : Outdated(z).cfg = z.cfg
    BY DEF Outdated, Session
  <2>3. Outdated(NoSession) = NoSession /\ NoSession.cfg = NoConfig
    BY DEF Outdated, NoSession, Session
  <2>4. modem'.trying # NoSession <=> modem.trying # NoSession
    BY <2>1, <2>2, <2>3 DEF JInv, JoinNamed
  <2>5. JoinNamed'
    BY <2>1, <2>2, <2>4 DEF JInv, JoinNamed
  <2>6. JoiningIsKnown'
    BY <2>1, <2>4 DEF JInv, JoiningIsKnown
  <2> QED BY <2>5, <2>6
<1>3. CASE Reboot
  <2>1. joining' = FALSE /\ modem'.trying = NoSession /\ doing'.at = "idle"
    BY <1>3 DEF Reboot, Idle
  <2> QED BY <2>1 DEF JoinNamed, JoiningIsKnown
<1> QED BY <1>1, <1>2, <1>3

(* Scans and bursts are held back exactly while the modem joins: the       *)
(* answer of lorawan_joining_status() is right unless a leave has failed,  *)
(* or the callback that ends the join is under way.                        *)
THEOREM JoiningKnown == Spec => []JoiningIsKnown
<1>1. Init => JInv
  <2> SUFFICES ASSUME Init
               PROVE  JInv
    OBVIOUS
  <2>1. joining = FALSE /\ modem.trying = NoSession /\ doing.at = "idle"
    BY DEF Init, Idle
  <2> QED BY <2>1, IInvInit DEF JInv, JoinNamed, JoiningIsKnown
<1>2. JInv /\ [Next]_vars => JInv'
  <2> SUFFICES ASSUME JInv, [Next]_vars
               PROVE  JoinNamed' /\ JoiningIsKnown'
    BY IInvStep DEF JInv
  <2> QED
    BY JoinHandlers, JoinStarts, JoinModem, JoinElsewhere DEF Next, Thread, JoinEnds
<1>3. JInv => JoiningIsKnown
  BY DEF JInv
<1> QED BY <1>1, <1>2, <1>3, PTL DEF Spec

-----------------------------------------------------------------------------
(* The way of a message through the queues                                 *)

(* Only messages are numbered, and no number is in a queue twice.          *)
Named(m) == m.kind = "message" <=> m.id # 0
NamedIn(que) == \A i \in 1 .. Len(que) : Named(que[i])
Singly(que) ==
    \A i, j \in 1 .. Len(que) : que[i].id = que[j].id /\ que[i].id # 0 => i = j

(* The numbers in a queue.                                                 *)
LEMMA IdsLemma ==
    ASSUME NEW que \in Seq(Entries)
    PROVE  \A x : x \in IdsIn(que) <=> x # 0 /\ \E i \in 1 .. Len(que) : que[i].id = x
<1>1. DOMAIN que = 1 .. Len(que)
  BY LenProperties
<1> QED BY <1>1 DEF IdsIn, Range

LEMMA EmptyIds ==
    /\ <<>> \in Seq(Entries) /\ IdsIn(<<>>) = {} /\ Singly(<<>>) /\ NamedIn(<<>>)
<1>1. <<>> \in Seq(Entries) /\ Len(<<>>) = 0
  BY EmptySeq
<1>2. 1 .. Len(<<>>) = {}
  BY <1>1
<1>3. IdsIn(<<>>) = {}
  BY <1>1, <1>2, IdsLemma
<1> QED BY <1>1, <1>2, <1>3 DEF Singly, NamedIn

(* A queue made of some entries of another, in their order, brings no      *)
(* number of its own.                                                      *)
LEMMA ShiftIds ==
    ASSUME NEW que \in Seq(Entries), NEW part \in Seq(Entries), NEW k \in Nat,
           Len(part) + k = Len(que),
           \A i \in 1 .. Len(part) : part[i] = que[i + k]
    PROVE  /\ IdsIn(part) \subseteq IdsIn(que)
           /\ Singly(que) => Singly(part)
           /\ NamedIn(que) => NamedIn(part)
<1> DEFINE n == Len(que)
           p == Len(part)
<1>1. n \in Nat /\ p \in Nat /\ p + k = n
  BY LenProperties
<1> HIDE DEF n, p
<1>2. \A i \in 1 .. p : i + k \in 1 .. n
  BY <1>1
<1>3. \A i, j \in 1 .. p : i + k = j + k => i = j
  BY <1>1
<1>4. \A i \in 1 .. p : part[i] = que[i + k]
  BY DEF p
<1>5. IdsIn(part) \subseteq IdsIn(que)
  BY <1>2, <1>4, IdsLemma DEF n, p
<1>6. Singly(que) => Singly(part)
  BY <1>2, <1>3, <1>4 DEF Singly, n, p
<1>7. NamedIn(que) => NamedIn(part)
  BY <1>2, <1>4 DEF NamedIn, n, p
<1> QED BY <1>5, <1>6, <1>7

(* The newest entries of a queue are all of it, unless they fill it.       *)
LEMMA NewestIds ==
    ASSUME NEW que \in Seq(Entries), NEW max \in Nat
    PROVE  /\ Newest(que, max) \in Seq(Entries)
           /\ IdsIn(Newest(que, max)) \subseteq IdsIn(que)
           /\ Singly(que) => Singly(Newest(que, max))
           /\ NamedIn(que) => NamedIn(Newest(que, max))
           /\ Len(Newest(que, max)) # max => Newest(que, max) = que
<1>1. CASE Len(que) <= max
  <2>1. Newest(que, max) = que
    BY <1>1 DEF Newest
  <2> QED BY <2>1
<1>2. CASE ~(Len(que) <= max)
  <2> DEFINE m == Len(que) - max + 1
             n == Len(que)
             k == Len(que) - max
  <2>1. n \in Nat /\ m \in Int /\ 1 <= m /\ m <= n + 1 /\ n - m + 1 = max
        /\ k \in Nat /\ max + k = n /\ m = k + 1
    BY <1>2, LenProperties
  <2>2. \A i \in m .. n : que[i] \in Entries
    BY <2>1, ElementOfSeq
  <2>3. Newest(que, max) = SubSeq(que, m, n)
    BY <1>2 DEF Newest
  <2>4. n = Len(que)
    OBVIOUS
  <2> HIDE DEF m, n, k
  <2>5. /\ SubSeq(que, m, n) \in Seq(Entries)
        /\ Len(SubSeq(que, m, n)) = IF m <= n THEN n - m + 1 ELSE 0
        /\ \A i \in 1 .. n - m + 1 : SubSeq(que, m, n)[i] = que[m + i - 1]
    BY <2>1, <2>2, SubSeqProperties
  <2>6. Len(SubSeq(que, m, n)) = max
    BY <2>1, <2>5
  <2>7. \A i \in 1 .. max : m + i - 1 = i + k
    BY <2>1
  <2>8. \A i \in 1 .. max : SubSeq(que, m, n)[i] = que[i + k]
    BY <2>1, <2>5, <2>7
  <2> DEFINE part == SubSeq(que, m, n)
  <2>9. /\ part \in Seq(Entries) /\ k \in Nat /\ Len(part) + k = Len(que)
        /\ \A i \in 1 .. Len(part) : part[i] = que[i + k]
    BY <2>1, <2>4, <2>5, <2>6, <2>8
  <2> HIDE DEF part
  <2>10. /\ IdsIn(part) \subseteq IdsIn(que)
         /\ Singly(que) => Singly(part)
         /\ NamedIn(que) => NamedIn(part)
    BY <2>9, ShiftIds
  <2> QED BY <2>3, <2>6, <2>9, <2>10 DEF part
<1> QED BY <1>1, <1>2

(* One queue put after another.                                            *)
LEMMA ConcatIds ==
    ASSUME NEW que \in Seq(Entries), NEW more \in Seq(Entries)
    PROVE  /\ que \o more \in Seq(Entries)
           /\ IdsIn(que \o more) = IdsIn(que) \cup IdsIn(more)
           /\ (Singly(que) /\ Singly(more) /\ IdsIn(que) \cap IdsIn(more) = {})
                 => Singly(que \o more)
           /\ (NamedIn(que) /\ NamedIn(more)) => NamedIn(que \o more)
<1> DEFINE both == que \o more
           n == Len(que)
           m == Len(more)
<1>1. both \in Seq(Entries) /\ Len(both) = n + m
  BY ConcatProperties
<1>2. \A i \in 1 .. Len(both) : both[i] = IF i <= n THEN que[i] ELSE more[i - n]
  BY ConcatProperties
<1>3. n \in Nat /\ m \in Nat
  BY LenProperties
<1>4. n = Len(que) /\ m = Len(more)
  OBVIOUS
<1> HIDE DEF both, n, m
<1>5. \A i \in 1 .. n + m : (i \in 1 .. n /\ i <= n) \/ (i - n \in 1 .. m /\ ~(i <= n))
  BY <1>3
<1>6. \A i \in 1 .. n : i \in 1 .. n + m /\ i <= n
  BY <1>3
<1>7. \A j \in 1 .. m : j + n \in 1 .. n + m /\ ~(j + n <= n) /\ (j + n) - n = j
  BY <1>3
<1>8. \A i \in 1 .. n + m : \/ i \in 1 .. n /\ both[i] = que[i]
                            \/ i - n \in 1 .. m /\ both[i] = more[i - n]
  BY <1>1, <1>2, <1>5
<1>9. \A i \in 1 .. n : i \in 1 .. n + m /\ both[i] = que[i]
  BY <1>1, <1>2, <1>6
<1>10. \A j \in 1 .. m : j + n \in 1 .. n + m /\ both[j + n] = more[j]
  BY <1>1, <1>2, <1>7
<1>11. \A x : x \in IdsIn(both) <=> x # 0 /\ \E i \in 1 .. n + m : both[i].id = x
  BY <1>1, IdsLemma
<1>12. \A x : x \in IdsIn(que) <=> x # 0 /\ \E i \in 1 .. n : que[i].id = x
  BY <1>4, IdsLemma
<1>13. \A x : x \in IdsIn(more) <=> x # 0 /\ \E i \in 1 .. m : more[i].id = x
  BY <1>4, IdsLemma
<1>14. IdsIn(both) = IdsIn(que) \cup IdsIn(more)
  <2>1. IdsIn(both) \subseteq IdsIn(que) \cup IdsIn(more)
    BY <1>8, <1>11, <1>12, <1>13
  <2>2. IdsIn(que) \subseteq IdsIn(both)
    BY <1>9, <1>11, <1>12
  <2>3. IdsIn(more) \subseteq IdsIn(both)
    BY <1>10, <1>11, <1>13
  <2> QED BY <2>1, <2>2, <2>3
<1>15. ASSUME Singly(que), Singly(more), IdsIn(que) \cap IdsIn(more) = {}
       PROVE  Singly(both)
  <2> SUFFICES ASSUME NEW i \in 1 .. n + m, NEW j \in 1 .. n + m,
                      both[i].id = both[j].id, both[i].id # 0
               PROVE  i = j
    BY <1>1 DEF Singly
  <2>1. CASE i \in 1 .. n /\ both[i] = que[i] /\ j \in 1 .. n /\ both[j] = que[j]
    BY <1>4, <1>15, <2>1 DEF Singly
  <2>2. CASE i - n \in 1 .. m /\ both[i] = more[i - n] /\ j - n \in 1 .. m /\ both[j] = more[j - n]
    <3>1. i - n = j - n
      BY <1>4, <1>15, <2>2 DEF Singly
    <3> QED BY <1>3, <3>1
  <2>3. CASE i \in 1 .. n /\ both[i] = que[i] /\ j - n \in 1 .. m /\ both[j] = more[j - n]
    BY <1>12, <1>13, <1>15, <2>3
  <2>4. CASE i - n \in 1 .. m /\ both[i] = more[i - n] /\ j \in 1 .. n /\ both[j] = que[j]
    BY <1>12, <1>13, <1>15, <2>4
  <2> QED BY <1>8, <2>1, <2>2, <2>3, <2>4
<1>16. NamedIn(que) /\ NamedIn(more) => NamedIn(both)
  BY <1>1, <1>4, <1>8 DEF NamedIn
<1> QED BY <1>1, <1>14, <1>15, <1>16 DEF both

(* An entry put after a queue.                                             *)
LEMMA AppendIds ==
    ASSUME NEW que \in Seq(Entries), NEW e \in Entries
    PROVE  /\ Append(que, e) \in Seq(Entries)
           /\ IdsIn(Append(que, e)) = IdsIn(que) \cup ({e.id} \ {0})
           /\ (Singly(que) /\ e.id \notin IdsIn(que)) => Singly(Append(que, e))
           /\ (NamedIn(que) /\ Named(e)) => NamedIn(Append(que, e))
<1> DEFINE q == Append(que, e)
           n == Len(que)
<1>1. q \in Seq(Entries) /\ Len(q) = n + 1 /\ n \in Nat
  BY AppendProperties, LenProperties
<1>2. (\A i \in 1 .. n : q[i] = que[i]) /\ q[n + 1] = e
  BY AppendProperties
<1>3. n = Len(que)
  OBVIOUS
<1> HIDE DEF q, n
<1>4. \A i \in 1 .. n + 1 : i \in 1 .. n \/ i = n + 1
  BY <1>1
<1>5. (\A i \in 1 .. n : i \in 1 .. n + 1) /\ n + 1 \in 1 .. n + 1
  BY <1>1
<1>6. \A x : x \in IdsIn(q) <=> x # 0 /\ \E i \in 1 .. n + 1 : q[i].id = x
  BY <1>1, IdsLemma
<1>7. \A x : x \in IdsIn(que) <=> x # 0 /\ \E i \in 1 .. n : que[i].id = x
  BY <1>3, IdsLemma
<1>8. IdsIn(q) = IdsIn(que) \cup ({e.id} \ {0})
  BY <1>2, <1>4, <1>5, <1>6, <1>7
<1>9. Singly(que) /\ e.id \notin IdsIn(que) => Singly(q)
  BY <1>1, <1>2, <1>3, <1>4, <1>7 DEF Singly
<1>10. NamedIn(que) /\ Named(e) => NamedIn(q)
  BY <1>1, <1>2, <1>3, <1>4 DEF NamedIn
<1> QED BY <1>1, <1>8, <1>9, <1>10 DEF q

(* The first entry of a queue, and the others.                             *)
LEMMA TailIds ==
    ASSUME NEW que \in Seq(Entries), que # <<>>
    PROVE  /\ Head(que) \in Entries /\ Tail(que) \in Seq(Entries)
           /\ IdsIn(que) = ({Head(que).id} \ {0}) \cup IdsIn(Tail(que))
           /\ Singly(que) => Singly(Tail(que)) /\ Head(que).id \notin IdsIn(Tail(que))
           /\ NamedIn(que) => NamedIn(Tail(que)) /\ Named(Head(que))
<1> DEFINE q == Tail(que)
           n == Len(que)
<1>1. /\ Head(que) \in Entries /\ q \in Seq(Entries) /\ Len(q) = n - 1
      /\ \A i \in 1 .. Len(q) : q[i] = que[i + 1]
  BY HeadTailProperties
<1>2. n \in Nat /\ n # 0 /\ Head(que) = que[1]
  BY LenProperties, EmptySeq, HeadTailProperties
<1>3. n = Len(que)
  OBVIOUS
<1> HIDE DEF q, n
<1>4. \A i \in 1 .. n : i = 1 \/ (i - 1 \in 1 .. n - 1 /\ (i - 1) + 1 = i)
  BY <1>2
<1>5. 1 \in 1 .. n /\ \A i \in 1 .. n - 1 : i + 1 \in 1 .. n /\ i + 1 # 1
  BY <1>2
<1>6. \A x : x \in IdsIn(q) <=> x # 0 /\ \E i \in 1 .. n - 1 : q[i].id = x
  BY <1>1, IdsLemma
<1>7. \A x : x \in IdsIn(que) <=> x # 0 /\ \E i \in 1 .. n : que[i].id = x
  BY <1>3, IdsLemma
<1>8. IdsIn(que) = ({Head(que).id} \ {0}) \cup IdsIn(q)
  <2>1. \A i \in 1 .. n : que[i] = Head(que) \/ (i - 1 \in 1 .. n - 1 /\ q[i - 1] = que[i])
    BY <1>1, <1>2, <1>4
  <2>2. \A i \in 1 .. n - 1 : i + 1 \in 1 .. n /\ que[i + 1] = q[i]
    BY <1>1, <1>5
  <2> QED BY <1>2, <1>5, <1>6, <1>7, <2>1, <2>2
<1>9. Singly(que) => Head(que).id \notin IdsIn(q)
  BY <1>1, <1>2, <1>3, <1>5, <1>6 DEF Singly
<1>10. Len(q) + 1 = Len(que) /\ 1 \in Nat
  BY <1>1, <1>2, <1>3
<1>11. (Singly(que) => Singly(q)) /\ (NamedIn(que) => NamedIn(q))
  BY <1>1, <1>10, ShiftIds
<1>12. NamedIn(que) => Named(Head(que))
  BY <1>2, <1>3, <1>5 DEF NamedIn
<1> QED BY <1>1, <1>8, <1>9, <1>11, <1>12 DEF q

(* A message is in one place at a time: in one of the queues, held while a *)
(* join is started, or handed to the modem.                                *)
Waiting ==
    /\ Singly(eventQue) /\ Singly(msgQue)
    /\ IdsIn(eventQue) \cap IdsIn(msgQue) = {}
    /\ doing.msg.id \notin IdsIn(eventQue) \cup IdsIn(msgQue)
Numbered ==
    /\ Kept \cup Handed \subseteq 1 .. made.messages
    /\ Kept \cap Handed = {}
AllNamed ==
    /\ NamedIn(eventQue) /\ NamedIn(msgQue)
    /\ doing.msg = NoMessage \/ doing.msg.kind = "message"
    /\ Named(doing.msg)
    /\ doing.at \in {"idle", "joined"} => doing.msg = NoMessage
MInv == TypeOK /\ Waiting /\ Numbered /\ AllNamed /\ HandedOnce

(* What a step may do with the messages.                                   *)
Still  == uplinks' = uplinks /\ made'.messages = made.messages
Stores == Takes("message") /\ StoreForLater /\ doing'.msg = doing.msg /\ Still
Drops  == /\ \E kind : Takes(kind)
          /\ Event.kind # "message" \/ ~enabled
          /\ msgQue' = msgQue /\ doing'.msg = doing.msg /\ Still
Holds  == Takes("message") /\ doing.msg = NoMessage /\ doing'.msg = Event /\ msgQue' = msgQue /\ Still
Sends  == /\ Takes("message") /\ msgQue' = msgQue /\ doing'.msg = doing.msg
          /\ uplinks' = Append(uplinks, Event.id) /\ made'.messages = made.messages
Returns == EndStart /\ eventQue' = eventQue /\ Still
Reschedules == RescheduleMessages /\ doing'.msg = doing.msg /\ Still
Commanded ==
    /\ \E e \in Entries : e.id = 0 /\ e.kind # "message" /\ Posts(e)
    /\ msgQue' = msgQue /\ doing'.msg = doing.msg /\ Still
Given ==
    /\ \E join \in BOOLEAN : Posts(Message(made.messages + 1, join))
    /\ msgQue' = msgQue /\ doing'.msg = doing.msg
    /\ uplinks' = uplinks /\ made'.messages = made.messages + 1
Forgets ==
    /\ eventQue' = <<>> /\ msgQue' = <<>> /\ doing'.msg = NoMessage
    /\ Still /\ made'.reboots # made.reboots
Rests == eventQue' = eventQue /\ msgQue' = msgQue /\ doing'.msg = doing.msg /\ Still

Moves ==
    \/ Stores \/ Drops \/ Holds \/ Sends \/ Returns \/ Reschedules \/ Commanded \/ Given
    \/ Forgets \/ Rests

(* Every handler of an event is one of those moves.                        *)
LEMMA HandlerMoves ==
    ASSUME MInv, HandleEvent
    PROVE  Stores \/ Drops \/ Holds \/ Sends
<1>0. TypeOK /\ \E kind : Takes(kind)
  BY HandlersTake DEF MInv
<1>1. doing.at = "idle" /\ doing.msg = NoMessage
  BY <1>0 DEF MInv, AllNamed, Takes, TakesEvents
<1>2. Still \/ HandleMessageSend
  BY DEF HandleEvent, HandleMessageLater, HandleMessageDisabled, HandleMessageRejoin,
     HandleMessageJoin, HandleMessageWait, HandleMessageSend, HandleLeave, HandleStart,
     HandleReset, HandleJob, RefuseScan, HandleSuspend, HandleResume, ghost, Still
<1>3. CASE (HandleMessageLater \/ HandleMessageWait) /\ Still
  BY <1>3 DEF HandleMessageLater, HandleMessageWait, Stores
<1>4. CASE HandleMessageDisabled /\ Still
  BY <1>4 DEF HandleMessageDisabled, Drops
<1>5. CASE HandleMessageRejoin /\ Still
  <2>1. Takes("message")
    BY <1>5 DEF HandleMessageRejoin
  <2>2. \/ doing' = Start(Event) /\ UNCHANGED msgQue
        \/ StoreForLater /\ UNCHANGED doing
    BY <1>5 DEF HandleMessageRejoin
  <2> QED BY <1>1, <1>5, <2>1, <2>2 DEF Start, Stores, Holds
<1>6. CASE HandleMessageJoin /\ Still
  BY <1>1, <1>6 DEF HandleMessageJoin, Start, Holds
<1>7. CASE HandleMessageSend
  BY <1>7 DEF HandleMessageSend, Sends
<1>8. CASE (HandleLeave \/ HandleStart \/ HandleReset \/ HandleJob \/ RefuseScan
             \/ HandleSuspend \/ HandleResume) /\ Still
  <2>1. \E kind : Takes(kind) /\ kind # "message"
    <3>1. CASE HandleJob
      <4>1. PICK job \in Jobs : Takes(job)
        BY <3>1 DEF HandleJob
      <4> QED BY <4>1 DEF Jobs
    <3>2. \A kind : kind \in {"leave", "start", "reset", "scan", "suspend", "resume"}
                      => kind # "message"
      OBVIOUS
    <3>3. CASE HandleLeave \/ HandleStart \/ HandleReset \/ RefuseScan \/ HandleSuspend
               \/ HandleResume
      <4>1. \/ Takes("leave") \/ Takes("start") \/ Takes("reset") \/ Takes("scan")
            \/ Takes("suspend") \/ Takes("resume")
        BY <3>3, Zenon DEF HandleLeave, HandleStart, HandleReset, RefuseScan, HandleSuspend,
           HandleResume
      <4> QED BY <3>2, <4>1
    <3> QED BY <1>8, <3>1, <3>3
  <2>2. msgQue' = msgQue /\ doing' = doing
    BY <1>8 DEF HandleLeave, HandleStart, HandleReset, HandleJob, RefuseScan, HandleSuspend,
       HandleResume
  <2> QED BY <1>8, <2>1, <2>2 DEF Drops, Takes
<1> QED BY <1>2, <1>3, <1>4, <1>5, <1>6, <1>7, <1>8 DEF HandleEvent

(* And so is every other step.                                             *)
LEMMA StepMoves ==
    ASSUME MInv, [Next]_vars
    PROVE  Moves
<1>0. TypeOK /\ DoingTyped /\ GhostTyped
  BY Parts DEF MInv
<1>1. CASE HandleEvent
  BY <1>1, HandlerMoves DEF Moves
<1>2. CASE DeleteRecord \/ Configure \/ JoinNetwork
  <2>1. eventQue' = eventQue /\ Still
    BY <1>2 DEF DeleteRecord, Configure, JoinNetwork, ghost, Still
  <2>2. \/ EndStart
        \/ doing' = [doing EXCEPT !.at = "configure"] /\ msgQue' = msgQue
        \/ doing' = [doing EXCEPT !.at = "join", !.latched = changePending,
                                  !.params = Session(desired, TRUE)] /\ msgQue' = msgQue
    BY <1>2 DEF DeleteRecord, Configure, JoinNetwork
  <2>3. EndStart \/ (doing'.msg = doing.msg /\ msgQue' = msgQue)
    BY <1>0, <2>2 DEF DoingTyped
  <2> QED BY <2>1, <2>3 DEF Moves, Returns, Rests
<1>3. CASE OnResetNoSession \/ OnResetMismatch \/ JoinAccepted
  <2>1. eventQue' = eventQue /\ msgQue' = msgQue /\ Still /\ doing.at = "idle"
    BY <1>3 DEF OnResetNoSession, OnResetMismatch, JoinAccepted, Runs, ghost, ques, Still
  <2>2. doing.msg = NoMessage
    BY <2>1 DEF MInv, AllNamed
  <2>3. doing' = Start(NoMessage) \/ doing' = doing \/ doing' = [Idle EXCEPT !.at = "joined"]
    BY <1>3 DEF OnResetNoSession, OnResetMismatch, JoinAccepted
  <2>4. doing'.msg = NoMessage
    BY <2>2, <2>3 DEF Start, Idle
  <2> QED BY <2>1, <2>2, <2>4 DEF Moves, Rests
<1>4. CASE OnResetRestored \/ OnJoined
  <2>1. RescheduleMessages /\ Still
    BY <1>4 DEF OnResetRestored, OnJoined, ghost, Still
  <2>2. doing' = doing \/ (doing.at = "joined" /\ doing' = Idle)
    BY <1>4 DEF OnResetRestored, OnJoined
  <2>3. doing'.msg = doing.msg
    BY <2>2 DEF MInv, AllNamed, Idle
  <2> QED BY <2>1, <2>3 DEF Moves, Reschedules
<1>5. CASE InitLr
  <2>1. Post("start") \in Entries /\ Post("start").id = 0 /\ Post("start").kind # "message"
    BY DEF Post, Entries
  <2>2. Posts(Post("start")) /\ msgQue' = msgQue /\ doing' = doing /\ Still
    BY <1>5 DEF InitLr, ghost, Still
  <2> QED BY <2>1, <2>2 DEF Moves, Commanded
<1>6. CASE SendMessage
  BY <1>0, <1>6 DEF SendMessage, Moves, Given, GhostTyped
<1>7. CASE PostCommand
  <2>1. \A kind \in Commands :
           Post(kind) \in Entries /\ Post(kind).id = 0 /\ Post(kind).kind # "message"
    BY CommandAssumption DEF Post, Entries, Jobs
  <2>2. made'.messages = made.messages /\ uplinks' = uplinks /\ doing' = doing
        /\ msgQue' = msgQue
    BY <1>0, <1>7 DEF PostCommand, GhostTyped
  <2>3. \E kind \in Commands : Posts(Post(kind))
    BY <1>7 DEF PostCommand
  <2> QED BY <2>1, <2>2, <2>3 DEF Moves, Commanded, Still
<1>8. CASE ChangeSetting
  <2>1. made'.messages = made.messages
    BY <1>0, <1>8 DEF ChangeSetting, GhostTyped
  <2> QED BY <1>8, <2>1 DEF ChangeSetting, Moves, Rests, Still, ques
<1>9. CASE SetConfiguration
  <2>1. doing'.msg = doing.msg
    BY <1>0, <1>9 DEF SetConfiguration, DoingTyped
  <2> QED BY <1>9, <2>1 DEF SetConfiguration, Moves, Rests, Still, ques, ghost
<1>10. CASE Reboot
  <2>1. made'.messages = made.messages /\ made'.reboots # made.reboots
    BY <1>0, <1>10 DEF Reboot, GhostTyped
  <2> QED BY <1>10, <2>1 DEF Reboot, Moves, Forgets, Still, Idle
<1>11. CASE InitEngine \/ OnResetFails \/ OnJoinFail \/ OnTxDone \/ UNCHANGED vars
  BY <1>11 DEF InitEngine, OnResetFails, OnJoinFail, OnTxDone, vars, ques, ghost, Moves, Rests,
     Still
<1> QED
  BY <1>1, <1>2, <1>3, <1>4, <1>5, <1>6, <1>7, <1>8, <1>9, <1>10, <1>11
  DEF Next, Thread, JoinEnds

(* Taking the first event.                                                 *)
LEMMA TakeIds ==
    ASSUME MInv, NEW kind, Takes(kind)
    PROVE  /\ Event \in Entries /\ Event.kind = kind /\ Named(Event)
           /\ eventQue' \in Seq(Entries) /\ Singly(eventQue') /\ NamedIn(eventQue')
           /\ IdsIn(eventQue) = ({Event.id} \ {0}) \cup IdsIn(eventQue')
           /\ Event.id \notin IdsIn(eventQue')
<1>1. eventQue \in Seq(Entries) /\ eventQue # <<>> /\ eventQue' = Tail(eventQue)
      /\ Event.kind = kind
  BY DEF MInv, TypeOK, Takes, TakesEvents
<1>2. Singly(eventQue) /\ NamedIn(eventQue)
  BY DEF MInv, Waiting, AllNamed
<1> QED BY <1>1, <1>2, TailIds DEF Event

(* Putting an entry on a queue, which may lose its oldest one by that.     *)
LEMMA PutIds ==
    ASSUME NEW que \in Seq(Entries), NEW e \in Entries, NEW max \in Nat,
           Singly(que), NamedIn(que), Named(e), e.id \notin IdsIn(que)
    PROVE  LET put == Newest(Append(que, e), max)
           IN  /\ put \in Seq(Entries) /\ Singly(put) /\ NamedIn(put)
               /\ IdsIn(put) \subseteq IdsIn(que) \cup ({e.id} \ {0})
               /\ Len(put) # max => IdsIn(put) = IdsIn(que) \cup ({e.id} \ {0})
<1> DEFINE q == Append(que, e)
<1>1. /\ q \in Seq(Entries) /\ Singly(q) /\ NamedIn(q)
      /\ IdsIn(q) = IdsIn(que) \cup ({e.id} \ {0})
  BY AppendIds
<1> HIDE DEF q
<1>2. /\ Newest(q, max) \in Seq(Entries) /\ Singly(Newest(q, max)) /\ NamedIn(Newest(q, max))
      /\ IdsIn(Newest(q, max)) \subseteq IdsIn(q)
      /\ Len(Newest(q, max)) # max => Newest(q, max) = q
  BY <1>1, NewestIds
<1> QED BY <1>1, <1>2 DEF q

(* What every move leaves in the queues.                                   *)
LEMMA MovedQueues ==
    ASSUME MInv, Moves, TypeOK'
    PROVE  /\ Singly(eventQue') /\ Singly(msgQue') /\ NamedIn(eventQue') /\ NamedIn(msgQue')
           /\ IdsIn(eventQue') \cap IdsIn(msgQue') = {}
           /\ doing'.msg.id \notin IdsIn(eventQue') \cup IdsIn(msgQue')
           /\ doing'.msg = NoMessage \/ doing'.msg.kind = "message"
           /\ Named(doing'.msg)
           /\ Kept' \subseteq Kept \cup {made'.messages}
           /\ made'.messages = made.messages => Kept' \subseteq Kept
<1>1. /\ eventQue \in Seq(Entries) /\ msgQue \in Seq(Entries) /\ doing.msg \in Entries
      /\ EventQueMax \in Nat /\ MsgQueMax \in Nat /\ made.messages \in Nat
  BY Parts, SizeAssumption DEF MInv, QuesTyped, DoingTyped, GhostTyped
<1>2. /\ Singly(eventQue) /\ Singly(msgQue) /\ NamedIn(eventQue) /\ NamedIn(msgQue)
      /\ IdsIn(eventQue) \cap IdsIn(msgQue) = {}
      /\ doing.msg.id \notin IdsIn(eventQue) \cup IdsIn(msgQue)
      /\ doing.msg = NoMessage \/ doing.msg.kind = "message"
      /\ Named(doing.msg)
  BY DEF MInv, Waiting, AllNamed
<1>3. NoMessage.id = 0 /\ Named(NoMessage)
  BY DEF NoMessage, Post, Named
<1>4. \A x \in Kept : x \in 1 .. made.messages
  BY DEF MInv, Numbered
<1>5. \A que \in Seq(Entries) : 0 \notin IdsIn(que)
  BY IdsLemma
<1>6. CASE Stores
  <2>1. /\ Event \in Entries /\ Event.kind = "message" /\ Named(Event)
        /\ eventQue' \in Seq(Entries) /\ Singly(eventQue') /\ NamedIn(eventQue')
        /\ IdsIn(eventQue) = ({Event.id} \ {0}) \cup IdsIn(eventQue')
        /\ Event.id \notin IdsIn(eventQue')
    BY <1>6, TakeIds DEF Stores
  <2>2. Event.id # 0 /\ Event.id \notin IdsIn(msgQue)
    BY <1>2, <2>1 DEF Named
  <2>3. msgQue' = Newest(Append(msgQue, Event), MsgQueMax)
    BY <1>6 DEF Stores, StoreForLater, PutMsg
  <2>4. /\ Singly(msgQue') /\ NamedIn(msgQue')
        /\ IdsIn(msgQue') \subseteq IdsIn(msgQue) \cup ({Event.id} \ {0})
    BY <1>1, <1>2, <2>1, <2>2, <2>3, PutIds
  <2>5. doing'.msg = doing.msg
    BY <1>6 DEF Stores
  <2> QED BY <1>2, <2>1, <2>2, <2>4, <2>5 DEF Kept
<1>7. CASE Drops
  <2>1. PICK kind : Takes(kind)
    BY <1>7 DEF Drops
  <2>2. /\ Singly(eventQue') /\ NamedIn(eventQue')
        /\ IdsIn(eventQue) = ({Event.id} \ {0}) \cup IdsIn(eventQue')
    BY <2>1, TakeIds
  <2>3. msgQue' = msgQue /\ doing'.msg = doing.msg
    BY <1>7 DEF Drops
  <2> QED BY <1>2, <2>2, <2>3 DEF Kept
<1>8. CASE Holds
  <2>1. /\ Event \in Entries /\ Event.kind = "message" /\ Named(Event)
        /\ eventQue' \in Seq(Entries) /\ Singly(eventQue') /\ NamedIn(eventQue')
        /\ IdsIn(eventQue) = ({Event.id} \ {0}) \cup IdsIn(eventQue')
        /\ Event.id \notin IdsIn(eventQue')
    BY <1>8, TakeIds DEF Holds
  <2>2. Event.id # 0 /\ Event.id \notin IdsIn(msgQue)
    BY <1>2, <2>1 DEF Named
  <2>3. msgQue' = msgQue /\ doing'.msg = Event
    BY <1>8 DEF Holds
  <2> QED BY <1>2, <2>1, <2>2, <2>3 DEF Kept
<1>9. CASE Sends
  <2>1. /\ Singly(eventQue') /\ NamedIn(eventQue')
        /\ IdsIn(eventQue) = ({Event.id} \ {0}) \cup IdsIn(eventQue')
    BY <1>9, TakeIds DEF Sends
  <2>2. msgQue' = msgQue /\ doing'.msg = doing.msg
    BY <1>9 DEF Sends
  <2> QED BY <1>2, <2>1, <2>2 DEF Kept
<1>10. CASE Returns
  <2>1. eventQue' = eventQue /\ doing'.msg = NoMessage
    BY <1>10 DEF Returns, EndStart, Idle
  <2>2. \/ doing.msg = NoMessage /\ msgQue' = msgQue
        \/ msgQue' = Newest(Append(msgQue, doing.msg), MsgQueMax)
    BY <1>10 DEF Returns, EndStart, PutMsg
  <2>3. /\ Singly(msgQue') /\ NamedIn(msgQue')
        /\ IdsIn(msgQue') \subseteq IdsIn(msgQue) \cup ({doing.msg.id} \ {0})
    <3>1. CASE msgQue' = msgQue
      BY <1>2, <3>1
    <3>2. CASE msgQue' = Newest(Append(msgQue, doing.msg), MsgQueMax)
      <4>1. doing.msg.id \notin IdsIn(msgQue)
        BY <1>2
      <4> QED BY <1>1, <1>2, <3>2, <4>1, PutIds
    <3> QED BY <2>2, <3>1, <3>2
  <2>4. msgQue' \in Seq(Entries)
    BY Parts DEF TypeOK
  <2> QED BY <1>1, <1>2, <1>3, <1>5, <2>1, <2>3, <2>4 DEF Kept
<1>11. CASE Reschedules
  <2>1. /\ eventQue \o msgQue \in Seq(Entries)
        /\ IdsIn(eventQue \o msgQue) = IdsIn(eventQue) \cup IdsIn(msgQue)
        /\ Singly(eventQue \o msgQue) /\ NamedIn(eventQue \o msgQue)
    BY <1>1, <1>2, ConcatIds
  <2>2. /\ Singly(eventQue') /\ NamedIn(eventQue')
        /\ IdsIn(eventQue') \subseteq IdsIn(eventQue) \cup IdsIn(msgQue)
    BY <1>1, <1>11, <2>1, NewestIds DEF Reschedules, RescheduleMessages
  <2>3. msgQue' = <<>> /\ doing'.msg = doing.msg
    BY <1>11 DEF Reschedules, RescheduleMessages
  <2>4. Singly(msgQue') /\ NamedIn(msgQue') /\ IdsIn(msgQue') = {}
    BY <2>3, EmptyIds
  <2> QED BY <1>2, <2>2, <2>3, <2>4 DEF Kept
<1>12. CASE Commanded
  <2>1. PICK e \in Entries : e.id = 0 /\ e.kind # "message" /\ Posts(e)
    BY <1>12 DEF Commanded
  <2>2. eventQue' = Newest(Append(eventQue, e), EventQueMax) /\ Named(e)
    BY <2>1 DEF Posts, PutEvent, Named
  <2>3. e.id \notin IdsIn(eventQue)
    BY <1>1, <1>5, <2>1
  <2>4. /\ Singly(eventQue') /\ NamedIn(eventQue')
        /\ IdsIn(eventQue') \subseteq IdsIn(eventQue)
    BY <1>1, <1>2, <2>1, <2>2, <2>3, PutIds
  <2>5. msgQue' = msgQue /\ doing'.msg = doing.msg
    BY <1>12 DEF Commanded
  <2> QED BY <1>2, <2>4, <2>5 DEF Kept
<1>13. CASE Given
  <2> DEFINE new == made.messages + 1
  <2>1. PICK join \in BOOLEAN : Posts(Message(new, join))
    BY <1>13 DEF Given
  <2> DEFINE e == Message(new, join)
  <2>2. e \in Entries /\ e.id = new /\ e.kind = "message" /\ new # 0
    BY <1>1 DEF Message, Entries
  <2>3. new \notin Kept /\ made'.messages = new /\ made'.messages # made.messages
    BY <1>1, <1>4, <1>13 DEF Given
  <2>4. eventQue' = Newest(Append(eventQue, e), EventQueMax) /\ Named(e)
    BY <2>1, <2>2 DEF Posts, PutEvent, Named
  <2> HIDE DEF new, e
  <2>5. new \notin IdsIn(eventQue) /\ new \notin IdsIn(msgQue) /\ doing.msg.id # new
    BY <2>2, <2>3 DEF Kept
  <2>6. /\ Singly(eventQue') /\ NamedIn(eventQue')
        /\ IdsIn(eventQue') \subseteq IdsIn(eventQue) \cup {new}
    BY <1>1, <1>2, <2>2, <2>4, <2>5, PutIds
  <2>7. msgQue' = msgQue /\ doing'.msg = doing.msg
    BY <1>13 DEF Given
  <2> QED BY <1>2, <2>3, <2>5, <2>6, <2>7 DEF Kept
<1>14. CASE Forgets
  <2>1. eventQue' = <<>> /\ msgQue' = <<>> /\ doing'.msg = NoMessage
    BY <1>14 DEF Forgets
  <2>2. /\ Singly(eventQue') /\ NamedIn(eventQue') /\ IdsIn(eventQue') = {}
        /\ Singly(msgQue') /\ NamedIn(msgQue') /\ IdsIn(msgQue') = {}
    BY <2>1, EmptyIds
  <2> QED BY <1>3, <2>1, <2>2 DEF Kept
<1>15. CASE Rests
  BY <1>2, <1>15 DEF Rests, Kept
<1> QED
  BY <1>6, <1>7, <1>8, <1>9, <1>10, <1>11, <1>12, <1>13, <1>14, <1>15 DEF Moves

(* What is handed over, and the numbers that are used up.                  *)
LEMMA MovedNumbers ==
    ASSUME MInv, Moves, TypeOK'
    PROVE  Numbered' /\ HandedOnce'
<1>1. /\ uplinks \in Seq(Nat) /\ uplinks' \in Seq(Nat)
      /\ made.messages \in Nat /\ made'.messages \in Nat
  BY Parts DEF MInv, TypeOK
<1>2. Kept \cup Handed \subseteq 1 .. made.messages /\ Kept \cap Handed = {} /\ HandedOnce
  BY DEF MInv, Numbered
<1>3. /\ Kept' \subseteq Kept \cup {made'.messages}
      /\ made'.messages = made.messages => Kept' \subseteq Kept
  BY MovedQueues
<1>4. CASE Sends
  <2>1. /\ Event.kind = "message" /\ Named(Event)
        /\ IdsIn(eventQue) = ({Event.id} \ {0}) \cup IdsIn(eventQue')
        /\ Event.id \notin IdsIn(eventQue')
    BY <1>4, TakeIds DEF Sends
  <2>2. /\ uplinks' = Append(uplinks, Event.id) /\ made'.messages = made.messages
        /\ msgQue' = msgQue /\ doing'.msg = doing.msg
    BY <1>4 DEF Sends
  <2>3. Event.id \in Kept /\ Event.id \notin IdsIn(msgQue) /\ doing.msg.id # Event.id
    BY <2>1 DEF Kept, Named, MInv, Waiting
  <2>4. Event.id \notin Kept'
    BY <2>1, <2>2, <2>3 DEF Kept
  <2>5. Event.id \in 1 .. made.messages /\ Event.id \notin Handed
    BY <1>2, <2>3
  <2>6. Event.id \in Nat
    BY <2>5
  <2> DEFINE n == Len(uplinks)
  <2>7. /\ n \in Nat /\ DOMAIN uplinks = 1 .. n /\ DOMAIN uplinks' = 1 .. n + 1
        /\ \A i \in 1 .. n : uplinks'[i] = uplinks[i]
        /\ uplinks'[n + 1] = Event.id
    BY <1>1, <2>2, <2>6, AppendProperties, LenProperties
  <2> HIDE DEF n
  <2>8. \A i \in 1 .. n + 1 : i \in 1 .. n \/ i = n + 1
    BY <2>7
  <2>9. \A i \in 1 .. n : uplinks[i] # Event.id
    BY <2>5, <2>7 DEF Handed, Range
  <2>10. Handed' \subseteq Handed \cup {Event.id}
    BY <2>7, <2>8 DEF Handed, Range
  <2>11. HandedOnce'
    <3> SUFFICES ASSUME NEW i \in 1 .. n + 1, NEW j \in 1 .. n + 1, uplinks'[i] = uplinks'[j]
                 PROVE  i = j
      BY <2>7 DEF HandedOnce
    <3>1. CASE i \in 1 .. n /\ j \in 1 .. n
      BY <1>2, <2>7, <3>1 DEF HandedOnce
    <3> QED BY <2>7, <2>8, <2>9, <3>1
  <2>12. Kept' \subseteq Kept
    BY <1>3, <2>2
  <2>13. Numbered'
    BY <1>2, <2>2, <2>4, <2>5, <2>10, <2>12 DEF Numbered
  <2> QED BY <2>11, <2>13
<1>5. CASE Given
  <2>1. uplinks' = uplinks /\ made'.messages = made.messages + 1
    BY <1>5 DEF Given
  <2>2. Handed' = Handed /\ HandedOnce'
    BY <1>2, <2>1 DEF Handed, Range, HandedOnce
  <2>3. made'.messages \notin 1 .. made.messages
        /\ 1 .. made'.messages = 1 .. made.messages \cup {made'.messages}
    BY <1>1, <2>1
  <2> QED BY <1>2, <1>3, <2>2, <2>3 DEF Numbered
<1>6. CASE Still
  <2>1. uplinks' = uplinks /\ made'.messages = made.messages
    BY <1>6 DEF Still
  <2>2. Handed' = Handed /\ HandedOnce'
    BY <1>2, <2>1 DEF Handed, Range, HandedOnce
  <2> QED BY <1>2, <1>3, <2>1, <2>2 DEF Numbered
<1> QED
  BY <1>4, <1>5, <1>6 DEF Moves, Stores, Drops, Holds, Returns, Reschedules, Commanded, Forgets,
     Rests

(* Nothing is held once a join has started, or while there is none.        *)
LEMMA NothingHeld ==
    ASSUME MInv, [Next]_vars
    PROVE  doing'.at \in {"idle", "joined"} => doing'.msg = NoMessage
<1>0. TypeOK /\ DoingTyped /\ (doing.at \in {"idle", "joined"} => doing.msg = NoMessage)
  BY Parts DEF MInv, AllNamed
<1>1. \/ doing' = doing
      \/ doing' = Idle
      \/ \E m : doing' = Start(m)
      \/ doing' = [Idle EXCEPT !.at = "joined"]
      \/ doing' = [doing EXCEPT !.at = "configure"]
      \/ doing' = [doing EXCEPT !.at = "join", !.latched = changePending,
                                !.params = Session(desired, TRUE)]
      \/ doing' = [doing EXCEPT !.params = Outdated(@)]
  <2>1. CASE HandleEvent
    BY <2>1 DEF HandleEvent, HandleMessageLater, HandleMessageDisabled, HandleMessageRejoin,
       HandleMessageJoin, HandleMessageWait, HandleMessageSend, HandleLeave, HandleStart,
       HandleReset, HandleJob, RefuseScan, HandleSuspend, HandleResume
  <2>2. CASE DeleteRecord \/ Configure \/ JoinNetwork
    BY <2>2 DEF DeleteRecord, Configure, JoinNetwork, EndStart
  <2>3. CASE InitEngine \/ OnResetFails \/ OnResetNoSession \/ OnResetRestored
             \/ OnResetMismatch \/ OnJoined \/ JoinAccepted \/ OnJoinFail \/ OnTxDone
    BY <2>3 DEF InitEngine, OnResetFails, OnResetNoSession, OnResetRestored, OnResetMismatch,
       OnJoined, JoinAccepted, OnJoinFail, OnTxDone
  <2>4. CASE InitLr \/ SendMessage \/ PostCommand \/ ChangeSetting \/ SetConfiguration \/ Reboot
             \/ UNCHANGED vars
    BY <2>4 DEF InitLr, SendMessage, PostCommand, ChangeSetting, SetConfiguration, Reboot, vars
  <2> QED BY <2>1, <2>2, <2>3, <2>4 DEF Next, Thread, JoinEnds
<1>2. CASE doing' = doing \/ doing' = Idle \/ (\E m : doing' = Start(m))
           \/ doing' = [Idle EXCEPT !.at = "joined"]
  BY <1>0, <1>2 DEF Idle, Start
<1>3. CASE \/ doing' = [doing EXCEPT !.at = "configure"]
           \/ doing' = [doing EXCEPT !.at = "join", !.latched = changePending,
                                     !.params = Session(desired, TRUE)]
  BY <1>0, <1>3 DEF DoingTyped
<1>4. CASE doing' = [doing EXCEPT !.params = Outdated(@)]
  BY <1>0, <1>4 DEF DoingTyped
<1> QED BY <1>1, <1>2, <1>3, <1>4

LEMMA MInvHolds == Spec => []MInv
<1>1. Init => MInv
  <2> SUFFICES ASSUME Init
               PROVE  MInv
    OBVIOUS
  <2>1. eventQue = <<>> /\ msgQue = <<>> /\ doing = Idle /\ uplinks = <<>>
        /\ made.messages = 0
    BY DEF Init
  <2>2. doing.msg = NoMessage /\ NoMessage.id = 0 /\ Named(NoMessage)
    BY <2>1 DEF Idle, NoMessage, Post, Named
  <2>3. IdsIn(eventQue) = {} /\ IdsIn(msgQue) = {}
    BY <2>1, EmptyIds
  <2>4. Waiting /\ AllNamed
    BY <2>1, <2>2, <2>3, EmptyIds DEF Waiting, AllNamed
  <2>5. DOMAIN uplinks = {}
    BY <2>1
  <2>6. Handed = {} /\ HandedOnce
    BY <2>5 DEF Handed, Range, HandedOnce
  <2>7. Kept = {}
    BY <2>2, <2>3 DEF Kept
  <2>8. Numbered
    BY <2>6, <2>7 DEF Numbered
  <2> QED BY <2>4, <2>6, <2>8, TypeInit DEF MInv
<1>2. MInv /\ [Next]_vars => MInv'
  <2> SUFFICES ASSUME MInv, [Next]_vars
               PROVE  MInv'
    OBVIOUS
  <2>1. TypeOK' /\ Moves
    BY StepMoves, TypeStep DEF MInv
  <2>2. Waiting'
    BY <2>1, MovedQueues DEF Waiting
  <2>3. AllNamed'
    BY <2>1, MovedQueues, NothingHeld DEF AllNamed
  <2> QED BY <2>1, <2>2, <2>3, MovedNumbers DEF MInv
<1> QED BY <1>1, <1>2, PTL DEF Spec

(* No message is handed to the modem twice, however often it is stored and *)
(* rescheduled, whichever joins fail, and whatever the queues lose.        *)
THEOREM HandedOnceCorrect == Spec => []HandedOnce
<1>1. MInv => HandedOnce
  BY DEF MInv
<1> QED BY <1>1, MInvHolds, PTL

(* A queue that is not full has lost nothing to the last move.             *)
LEMMA NothingLost ==
    ASSUME MInv, Moves, enabled, made'.reboots = made.reboots, ~QueueFull'
    PROVE  Kept \subseteq (Kept \cup Handed)'
<1>1. /\ eventQue \in Seq(Entries) /\ msgQue \in Seq(Entries) /\ doing.msg \in Entries
      /\ EventQueMax \in Nat /\ MsgQueMax \in Nat /\ uplinks \in Seq(Nat)
  BY Parts, SizeAssumption DEF MInv, QuesTyped, DoingTyped, GhostTyped
<1>2. /\ Singly(eventQue) /\ Singly(msgQue) /\ NamedIn(eventQue) /\ NamedIn(msgQue)
      /\ IdsIn(eventQue) \cap IdsIn(msgQue) = {}
      /\ doing.msg.id \notin IdsIn(eventQue) \cup IdsIn(msgQue)
      /\ Named(doing.msg)
  BY DEF MInv, Waiting, AllNamed
<1>3. Len(eventQue') # EventQueMax /\ Len(msgQue') # MsgQueMax
  BY DEF QueueFull
<1>4. NoMessage.id = 0
  BY DEF NoMessage, Post
<1>5. \A que \in Seq(Entries) : 0 \notin IdsIn(que)
  BY IdsLemma
<1>6. CASE Stores
  <2>1. /\ Event \in Entries /\ Event.kind = "message" /\ Named(Event)
        /\ IdsIn(eventQue) = ({Event.id} \ {0}) \cup IdsIn(eventQue')
    BY <1>6, TakeIds DEF Stores
  <2>2. Event.id # 0 /\ Event.id \notin IdsIn(msgQue)
    BY <1>2, <2>1 DEF Named
  <2>3. msgQue' = Newest(Append(msgQue, Event), MsgQueMax)
    BY <1>6 DEF Stores, StoreForLater, PutMsg
  <2>4. IdsIn(msgQue') = IdsIn(msgQue) \cup ({Event.id} \ {0})
    BY <1>1, <1>2, <1>3, <2>1, <2>2, <2>3, PutIds
  <2>5. doing'.msg = doing.msg
    BY <1>6 DEF Stores
  <2> QED BY <2>1, <2>4, <2>5 DEF Kept
<1>7. CASE Drops
  <2>1. PICK kind : Takes(kind)
    BY <1>7 DEF Drops
  <2>2. Named(Event) /\ IdsIn(eventQue) = ({Event.id} \ {0}) \cup IdsIn(eventQue')
    BY <2>1, TakeIds
  <2>3. Event.id = 0 /\ msgQue' = msgQue /\ doing'.msg = doing.msg
    BY <1>7, <2>2 DEF Drops, Named
  <2> QED BY <2>2, <2>3 DEF Kept
<1>8. CASE Holds
  <2>1. IdsIn(eventQue) = ({Event.id} \ {0}) \cup IdsIn(eventQue')
    BY <1>8, TakeIds DEF Holds
  <2>2. msgQue' = msgQue /\ doing'.msg = Event /\ doing.msg = NoMessage
    BY <1>8 DEF Holds
  <2> QED BY <1>4, <2>1, <2>2 DEF Kept
<1>9. CASE Sends
  <2>1. /\ Event \in Entries
        /\ IdsIn(eventQue) = ({Event.id} \ {0}) \cup IdsIn(eventQue')
    BY <1>9, TakeIds DEF Sends
  <2>2. msgQue' = msgQue /\ doing'.msg = doing.msg /\ uplinks' = Append(uplinks, Event.id)
    BY <1>9 DEF Sends
  <2>3. Event.id \in Nat
    BY <2>1 DEF Entries
  <2>4. /\ Len(uplinks) \in Nat
        /\ Len(uplinks') = Len(uplinks) + 1 /\ DOMAIN uplinks' = 1 .. Len(uplinks')
        /\ uplinks'[Len(uplinks) + 1] = Event.id
    BY <1>1, <2>2, <2>3, AppendProperties, LenProperties
  <2>5. Len(uplinks) + 1 \in DOMAIN uplinks'
    BY <2>4
  <2>6. Event.id \in Handed'
    BY <2>4, <2>5 DEF Handed, Range
  <2> QED BY <2>1, <2>2, <2>6 DEF Kept
<1>10. CASE Returns
  <2>1. eventQue' = eventQue
    BY <1>10 DEF Returns
  <2>2. \/ doing.msg = NoMessage /\ msgQue' = msgQue
        \/ msgQue' = Newest(Append(msgQue, doing.msg), MsgQueMax)
    BY <1>10 DEF Returns, EndStart, PutMsg
  <2>3. CASE doing.msg = NoMessage /\ msgQue' = msgQue
    BY <1>4, <2>1, <2>3 DEF Kept
  <2>4. CASE msgQue' = Newest(Append(msgQue, doing.msg), MsgQueMax)
    <3>1. doing.msg.id \notin IdsIn(msgQue)
      BY <1>2
    <3>2. IdsIn(msgQue') = IdsIn(msgQue) \cup ({doing.msg.id} \ {0})
      BY <1>1, <1>2, <1>3, <2>4, <3>1, PutIds
    <3> QED BY <2>1, <3>2 DEF Kept
  <2> QED BY <2>2, <2>3, <2>4
<1>11. CASE Reschedules
  <2>1. /\ eventQue \o msgQue \in Seq(Entries)
        /\ IdsIn(eventQue \o msgQue) = IdsIn(eventQue) \cup IdsIn(msgQue)
    BY <1>1, ConcatIds
  <2>2. eventQue' = Newest(eventQue \o msgQue, EventQueMax) /\ doing'.msg = doing.msg
    BY <1>11 DEF Reschedules, RescheduleMessages
  <2>3. eventQue' = eventQue \o msgQue
    BY <1>1, <1>3, <2>1, <2>2, NewestIds
  <2> QED BY <2>1, <2>2, <2>3 DEF Kept
<1>12. CASE \/ Commanded
            \/ Given
  <2>1. PICK e \in Entries : Posts(e) /\ Named(e) /\ e.id \notin IdsIn(eventQue)
    <3>1. CASE Commanded
      BY <1>1, <1>5, <3>1 DEF Commanded, Named
    <3>2. CASE Given
      <4>1. made.messages \in Nat /\ Kept \subseteq 1 .. made.messages
        BY Parts DEF MInv, Numbered, GhostTyped
      <4>2. made.messages + 1 \notin IdsIn(eventQue)
        BY <4>1 DEF Kept
      <4>3. \A join \in BOOLEAN : /\ Message(made.messages + 1, join) \in Entries
                                  /\ Message(made.messages + 1, join).id = made.messages + 1
                                  /\ Named(Message(made.messages + 1, join))
        BY <4>1 DEF Message, Entries, Named
      <4> QED BY <3>2, <4>2, <4>3 DEF Given
    <3> QED BY <1>12, <3>1, <3>2
  <2>2. eventQue' = Newest(Append(eventQue, e), EventQueMax)
    BY <2>1 DEF Posts, PutEvent
  <2>3. IdsIn(eventQue') = IdsIn(eventQue) \cup ({e.id} \ {0})
    BY <1>1, <1>2, <1>3, <2>1, <2>2, PutIds
  <2>4. msgQue' = msgQue /\ doing'.msg = doing.msg
    BY <1>12 DEF Commanded, Given
  <2> QED BY <2>3, <2>4 DEF Kept
<1>13. CASE Rests
  BY <1>13 DEF Rests, Kept
<1>14. ~Forgets
  BY DEF Forgets
<1> QED
  BY <1>6, <1>7, <1>8, <1>9, <1>10, <1>11, <1>12, <1>13, <1>14 DEF Moves

(* While LoRaWAN is enabled and the device does not reboot, a message      *)
(* leaves the queues for the modem or into a full queue only: no failed    *)
(* leave, no interrupted start of a join and no restored session loses it. *)
THEOREM OnlyFullQueues == Spec => OnlyFullQueuesLose
<1>1. MInv /\ [Next]_vars
      => [(enabled /\ made'.reboots = made.reboots)
             => \/ Kept \subseteq (Kept \cup Handed)'
                \/ QueueFull']_vars
  BY StepMoves, NothingLost
<1> QED BY <1>1, MInvHolds, PTL DEF Spec, OnlyFullQueuesLose
=============================================================================
