----------------------------- MODULE FlashRead ------------------------------
(***************************************************************************)
(* Reading the flash log out over LoRaWAN: CMD_FLASH_GET_ALL and           *)
(* CMD_FLASH_GET_FROM_HEAD of flash/flash_interface.c, which the flash     *)
(* thread serves batch by batch while other threads store messages, the    *)
(* communication thread forwards the payloads, and the LoRaWAN engine      *)
(* sends them.  Three bounded queues connect them:                         *)
(*                                                                         *)
(*   flash_que   -> flash thread -> lr_que -> communication thread         *)
(*        ^------- confirm -----------------------'  |                     *)
(*                                            event_que -> LoRaWAN engine  *)
(*                                                                         *)
(* FlashLog says how the log is kept.  Here a message is the number of its *)
(* storing, and all messages have the same size.  The position of a        *)
(* message is its distance from the head: 0 is the newest.                 *)
(***************************************************************************)
EXTENDS Integers, Sequences, FiniteSets

CONSTANTS
    Ports,        \* ports of the stored messages
    NBlocks,      \* erase blocks of the partition
    PerBlock,     \* messages that fill a block
    PerPayload,   \* messages that fill a payload of max_rsp_len bytes
    Batch,        \* FLASH_READ_NUM_OF_MESSAGES_PER_BATCH
    FlashQueMax,  \* size of flash_que
    LrQueMax,     \* size of lr_que
    EventQueMax,  \* size of event_que
    Word,         \* 2^32: start and number of messages are uint32_t
    Half,         \* 2^16: what two bytes of them hold
    Uppers,       \* bound: what a long stored message has at bytes 12 and 13
    Requests,     \* the command the server may send
    Prefills,     \* bound: the ports of the messages stored before it
    MaxStores,    \* bound: messages stored during the transfer
    MaxOthers     \* bound: messages and events of other origin during it

AnyPort == 0

(* FLASH_READ_CONTINUE_MSG_LEN, where a CONTINUE ends, and the place where *)
(* the number of messages, four bytes from byte 10 on, does.               *)
ContinueLen == 12
NumberEnd   == 14

(* A command with the bytes it is sent as, told apart by whether the       *)
(* number of messages is whole in them.                                    *)
Acts == {"store", "all", "head", "continue", "confirm"}
Lens == {ContinueLen, NumberEnd}
Commands == [act : Acts, port : Ports \cup {AnyPort},
             start : 0 .. Word - 1, n : 0 .. Word - 1, len : Lens]
Command(act, port, start, n, len) ==
    [act |-> act, port |-> port, start |-> start % Word, n |-> n % Word, len |-> len]
Confirm == Command("confirm", AnyPort, 0, 0, ContinueLen)

ASSUME SizeAssumption ==
    /\ {NBlocks, PerBlock, PerPayload, Batch, FlashQueMax, LrQueMax} \subseteq Nat \ {0}
    /\ NBlocks >= 2
    /\ EventQueMax \in Nat /\ EventQueMax >= 2
    /\ {MaxStores, MaxOthers} \subseteq Nat
ASSUME WordAssumption == Word \in Nat /\ Word > 2 * NBlocks * PerBlock
ASSUME HalfAssumption == Half \in Nat \ {0} /\ Uppers \subseteq 0 .. Half - 1 /\ Word = Half * Half
ASSUME PortAssumption ==
    /\ Ports \subseteq Nat \ {AnyPort}
    /\ \A s \in Prefills : s \in Seq(Ports) /\ Len(s) <= NBlocks * PerBlock
ASSUME RequestAssumption ==
    Requests \subseteq {c \in Commands :
        \/ c.act = "head" /\ c.len = NumberEnd
        \/ c.act = "all" /\ c.len = ContinueLen}

VARIABLES
    log,        \* the port of every message ever stored, and the oldest still held
    flashQue,   \* commands to the flash thread
    upper,      \* bytes 12 and 13 of the buffer it receives and composes commands in
    lrQue,      \* payloads and answers to the communication thread
    eventQue,   \* events to the LoRaWAN engine
    job,        \* what the flash thread is reading
    server,     \* what the server asked for and has received
    history,    \* what befell the command on its way
    made        \* bound: stores and other messages and events so far

vars == <<log, flashQue, upper, lrQue, eventQue, job, server, history, made>>

-----------------------------------------------------------------------------
(* Queues                                                                  *)

(* thread_put_message(): a full queue is purged first.                     *)
PutMessage(que, max, m) == IF Len(que) < max THEN Append(que, m) ELSE <<m>>

PutFlash(que, m) == PutMessage(que, FlashQueMax, m)

(* prv_put_event_in_que(): a full queue loses its oldest event.            *)
PutEvent(que, e) == Append(IF Len(que) < EventQueMax THEN que ELSE Tail(que), e)

(* What the purges and the lost event throw away: a command that is to be  *)
(* read or continued, and its answer.                                      *)
CommandPurged ==
    Len(flashQue) >= FlashQueMax
        /\ \E i \in 1 .. Len(flashQue) : flashQue[i].act \in {"all", "head", "continue"}

AnswerPurged ==
    Len(lrQue) >= LrQueMax /\ \E i \in 1 .. Len(lrQue) : lrQue[i].what = "answer"

AnswerDisplaced == Len(eventQue) >= EventQueMax /\ Head(eventQue).what = "answer"

Drops(now) == history' = [history EXCEPT !.dropped = @ \/ now]

Payload(ids) == [what |-> "data", ids |-> ids, ok |-> TRUE]
Answer(ok)   == [what |-> "answer", ids |-> {}, ok |-> ok]
Foreign      == [what |-> "other", ids |-> {}, ok |-> TRUE]

(* prv_read_messages_from_head() does not start with fewer than three free *)
(* slots in event_que ...                                                  *)
Busy == Len(eventQue) >= EventQueMax - 2

(* ... and prv_read_block_messages() stops with fewer than two.            *)
FreeBelow(slots) == EventQueMax - Len(eventQue) < slots

FewSlots == FreeBelow(2)

-----------------------------------------------------------------------------
(* The log                                                                 *)

Messages  == log.first .. Len(log.ports)
BlockOf(m) == (m - 1) \div PerBlock
Count     == Cardinality(Messages)             \* flash_nr_msg, buffer written out
On(port)  == {m \in Messages : port \in {AnyPort, log.ports[m]}}
Position(port, m) == Cardinality({k \in On(port) : k > m})

(* The messages at the n positions from start on, towards the tail.        *)
Window(port, start, n) ==
    {m \in On(port) : Position(port, m) \in start .. start + n - 1}

(* A store that opens a block gives the oldest one up if none is free.     *)
Stored(l, port) ==
    LET m == Len(l.ports) + 1
    IN  [ports |-> Append(l.ports, port),
         first |-> IF BlockOf(m) - BlockOf(l.first) = NBlocks
                   THEN l.first + PerBlock ELSE l.first]

(* Blocks are read from the newest to the oldest, a block from its start.  *)
Before(a, b) == BlockOf(a) > BlockOf(b) \/ (BlockOf(a) = BlockOf(b) /\ a < b)
NextOf(left) == CHOOSE m \in left : \A k \in left \ {m} : Before(m, k)

-----------------------------------------------------------------------------
(* The flash thread                                                        *)

Idle == [at |-> "idle", command |-> Confirm, left |-> {}, payload |-> {}, got |-> 0]

(* Faulty variant: positions from the head counted from 1.                  *)
StartForOneBased(start) == IF start > Count THEN Count ELSE start + 1

(* "start" is brought down to the number of messages, and too large an "n" *)
(* is replaced by "start".                                                 *)
StartFor(start) == IF start > Count THEN Count ELSE start
NumberFor(start, n) == IF n > Count THEN StartFor(start) ELSE n

(* What a command still has to read: CONTINUE corrects a number that is    *)
(* more than there is.                                                     *)
Remaining(c) ==
    IF c.act = "continue" /\ c.n > Count THEN (Count - c.start) % Word ELSE c.n

(* Faulty variant: the next batch ends before the last one began.           *)
ContinueCommandSkipping(c, got) ==
    Command("continue", c.port, c.start - got - 1, Remaining(c) - got - 1, ContinueLen)

(* The command for the rest, once "got" messages were read.                *)
ContinueCommand(c, got) ==
    Command("continue", c.port, c.start - got, Remaining(c) - got, ContinueLen)

BatchOf(c) == IF c.act = "continue" THEN Batch ELSE c.n

Wants(ids) == server' = [server EXCEPT !.wanted = ids]

Incoming == Head(flashQue)
Serves(act) == job.at = "idle" /\ flashQue # <<>> /\ Incoming.act = act

(* thread_put_message() and thread_get_flash() copy as many bytes as the   *)
(* message is long: the end of a shorter one stays what it was.            *)
UpperAfter(m) == IF m.len < NumberEnd THEN upper ELSE m.n \div Half

(* So of the number of messages in a CONTINUE only the lower half comes    *)
(* through flash_que; "n" keeps the number it was composed with.           *)
Received(m) == IF m.len < NumberEnd THEN [m EXCEPT !.n = (upper * Half) + (@ % Half)] ELSE m

(* Composing a CONTINUE writes the number whole into the buffer.           *)
PutContinue(que, c) == flashQue' = PutFlash(que, c) /\ upper' = c.n \div Half

(* A long message comes before a CONTINUE that waits.                      *)
Overwrites(m) ==
    m.len = NumberEnd /\ \E i \in 1 .. Len(flashQue) : flashQue[i].act = "continue"

HandleStore ==
    /\ Serves("store")
    /\ log' = Stored(log, Incoming.port)
    /\ flashQue' = Tail(flashQue)
    /\ upper' = UpperAfter(Incoming)
    /\ history' = [history EXCEPT !.overwritten = @ \/ Overwrites(Incoming)]
    /\ UNCHANGED <<lrQue, eventQue, job, server, made>>

(* A confirm that comes when no payload waits for it is no command.        *)
IgnoreConfirm ==
    /\ Serves("confirm")
    /\ flashQue' = Tail(flashQue)
    /\ UNCHANGED <<log, upper, lrQue, eventQue, job, server, history, made>>

(* CMD_FLASH_GET_ALL counts the messages, and leaves the reading to        *)
(* CONTINUE, from the oldest on.                                           *)
GetAllCommand(port) ==
    LET n == Cardinality(On(port)) - 1
    IN  Command("continue", port, n, n, ContinueLen)

HandleGetAll ==
    /\ Serves("all")
    /\ PutContinue(Tail(flashQue), GetAllCommand(Incoming.port))
    /\ Wants(On(Incoming.port))
    /\ UNCHANGED <<log, lrQue, eventQue, job, history, made>>

(* Faulty variant: a command that finds event_que full is not put back.     *)
ComeBackNever(c) == flashQue' = Tail(flashQue) /\ upper' = upper

(* CMD_FLASH_GET_FROM_HEAD and CONTINUE: come back later if event_que has  *)
(* no room, fail if there is no message at "start", or read.               *)
ComeBack(c) == PutContinue(Tail(flashQue), ContinueCommand(c, 0))

Reading(c) ==
    [at |-> "read", command |-> c, payload |-> {}, got |-> 0,
     left |-> Window(c.port, StartFor(c.start), NumberFor(c.start, BatchOf(c)))]

BeginRead(c) ==
    \/ /\ Busy
       /\ ComeBack(c)
       /\ UNCHANGED <<lrQue, job>>
    \/ /\ ~Busy /\ StartFor(c.start) >= Cardinality(On(c.port))
       /\ lrQue' = PutMessage(lrQue, LrQueMax, Answer(FALSE))
       /\ flashQue' = Tail(flashQue) /\ upper' = UpperAfter(c)
       /\ UNCHANGED job
    \/ /\ ~Busy /\ StartFor(c.start) < Cardinality(On(c.port))
       /\ job' = Reading(c)
       /\ flashQue' = Tail(flashQue) /\ upper' = UpperAfter(c)
       /\ UNCHANGED lrQue

HandleGetFromHead ==
    /\ Serves("head")
    /\ BeginRead(Received(Incoming))
    /\ Wants(Window(Incoming.port, Incoming.start, Incoming.n))
    /\ UNCHANGED <<log, eventQue, history, made>>

HandleContinue ==
    /\ Serves("continue")
    /\ BeginRead(Received(Incoming))
    /\ UNCHANGED <<log, eventQue, server, history, made>>

-----------------------------------------------------------------------------
(* Reading a batch.  The payloads are put together in the same buffer, and *)
(* the confirms received in it, but no CONTINUE waits in flash_que then,   *)
(* and the next one is composed anew: "upper" is left alone.               *)

SendPayload ==
    /\ lrQue' = PutMessage(lrQue, LrQueMax, Payload(job.payload))
    /\ UNCHANGED <<log, flashQue, upper, eventQue, history, made>>

BlockDone ==
    job.left # {} => \E m \in job.payload : BlockOf(m) # BlockOf(NextOf(job.left))

Taken(at, payload) ==
    LET m == NextOf(job.left)
    IN  [job EXCEPT !.at = at, !.left = @ \ {m}, !.payload = payload \cup {m}, !.got = @ + 1]

NextMessage == job.at = "read" /\ job.left # {} /\ (job.payload = {} \/ ~BlockDone)

(* event_que has become too full: the batch ends here.                     *)
StopReading ==
    /\ NextMessage /\ FewSlots
    /\ job' = [job EXCEPT !.left = {}]
    /\ server' = [server EXCEPT !.cut = TRUE]
    /\ UNCHANGED <<log, flashQue, upper, lrQue, eventQue, history, made>>

ReadMessage ==
    /\ NextMessage /\ ~FewSlots /\ Cardinality(job.payload) < PerPayload
    /\ job' = Taken("read", job.payload)
    /\ UNCHANGED <<log, flashQue, upper, lrQue, eventQue, server, history, made>>

(* The payload has no room for the message: send it, wait, then go on.     *)
ReadMessageIntoNext ==
    /\ NextMessage /\ ~FewSlots /\ Cardinality(job.payload) = PerPayload
    /\ SendPayload
    /\ job' = Taken("wait", {})
    /\ UNCHANGED server

(* The end of a block sends what is in the payload.                        *)
EndOfBlock ==
    /\ job.at = "read" /\ job.payload # {} /\ BlockDone
    /\ SendPayload
    /\ job' = [job EXCEPT !.at = "wait", !.payload = {}]
    /\ UNCHANGED server

(* Faulty variant: any message ends the wait.                               *)
ResumesOnAny(m) == "read"

(* The wait for the confirm takes every message off flash_que, and drops   *)
(* those that are not the confirm.                                         *)
Resumes(m) == IF m.act = "confirm" THEN "read" ELSE "wait"

AwaitConfirm ==
    /\ job.at = "wait" /\ flashQue # <<>>
    /\ job' = [job EXCEPT !.at = Resumes(Incoming)]
    /\ flashQue' = Tail(flashQue)
    /\ UNCHANGED <<log, upper, lrQue, eventQue, server, history, made>>

(* cold_fix_timeout                                                        *)
AwaitTimeout ==
    /\ job.at = "wait"
    /\ job' = [job EXCEPT !.at = "read"]
    /\ server' = [server EXCEPT !.late = TRUE]
    /\ UNCHANGED <<log, flashQue, upper, lrQue, eventQue, history, made>>

(* The batch is done: go on with the next one, or answer the command.      *)
FinishBatch ==
    /\ job.at = "read" /\ job.left = {} /\ job.payload = {}
    /\ job' = Idle
    /\ IF job.got > 0 /\ job.got < Remaining(job.command)
       THEN PutContinue(flashQue, ContinueCommand(job.command, job.got)) /\ UNCHANGED lrQue
       ELSE lrQue' = PutMessage(lrQue, LrQueMax, Answer(TRUE)) /\ UNCHANGED <<flashQue, upper>>
    /\ UNCHANGED <<log, eventQue, server, history, made>>

FlashThread ==
    \/ HandleStore \/ IgnoreConfirm \/ HandleGetAll \/ HandleGetFromHead \/ HandleContinue
    \/ StopReading \/ ReadMessage \/ ReadMessageIntoNext \/ EndOfBlock
    \/ AwaitConfirm \/ FinishBatch

-----------------------------------------------------------------------------
(* The other threads                                                       *)

(* handle_communication_thread_messages(), MB_MSG_SEND: the message goes   *)
(* to event_que, and a payload of the flash thread is confirmed.           *)
Displaced == IF Len(eventQue) < EventQueMax THEN {} ELSE Head(eventQue).ids

Communication ==
    /\ lrQue # <<>>
    /\ lrQue' = Tail(lrQue)
    /\ eventQue' = PutEvent(eventQue, Head(lrQue))
    /\ flashQue' = IF Head(lrQue).what = "data" THEN PutFlash(flashQue, Confirm) ELSE flashQue
    /\ server' = [server EXCEPT !.lost = @ \cup Displaced]
    /\ Drops(AnswerDisplaced \/ (Head(lrQue).what = "data" /\ CommandPurged))
    /\ UNCHANGED <<log, upper, job, made>>

(* prv_handle_events() takes an event and transmits it.                    *)
Engine ==
    /\ eventQue # <<>>
    /\ eventQue' = Tail(eventQue)
    /\ server' = [server EXCEPT
          !.sent = @ \cup Head(eventQue).ids,
          !.answer = IF Head(eventQue).what # "answer" THEN @
                     ELSE IF Head(eventQue).ok THEN "ok" ELSE "failed"]
    /\ UNCHANGED <<log, flashQue, upper, lrQue, job, history, made>>

(* A downlink brings the command.                                          *)
Request ==
    /\ ~server.asked
    /\ \E c \in Requests :
          /\ flashQue' = PutFlash(flashQue, c)
          /\ server' = [server EXCEPT !.asked = TRUE, !.command = c]
    /\ UNCHANGED <<log, upper, lrQue, eventQue, job, history, made>>

(* Any thread stores a message, a short one or a longer one, with "u" at   *)
(* bytes 12 and 13.                                                        *)
StoreCommands ==
    {Command("store", p, 0, 0, ContinueLen) : p \in Ports}
        \cup {Command("store", p, 0, u * Half, NumberEnd) : p \in Ports, u \in Uppers}

Store ==
    /\ made.stores < MaxStores
    /\ \E c \in StoreCommands : flashQue' = PutFlash(flashQue, c)
    /\ Drops(CommandPurged)
    /\ made' = [made EXCEPT !.stores = @ + 1]
    /\ UNCHANGED <<log, upper, lrQue, eventQue, job, server>>

(* Any thread sends another message over LoRaWAN.                          *)
SendOther ==
    /\ made.others < MaxOthers
    /\ lrQue' = PutMessage(lrQue, LrQueMax, Foreign)
    /\ Drops(AnswerPurged)
    /\ made' = [made EXCEPT !.others = @ + 1]
    /\ UNCHANGED <<log, flashQue, upper, eventQue, job, server>>

(* Any thread, or a timer, calls for another engine event.                 *)
CallEngine ==
    /\ made.others < MaxOthers
    /\ eventQue' = PutEvent(eventQue, Foreign)
    /\ server' = [server EXCEPT !.lost = @ \cup Displaced]
    /\ Drops(AnswerDisplaced)
    /\ made' = [made EXCEPT !.others = @ + 1]
    /\ UNCHANGED <<log, flashQue, upper, lrQue, job>>

Other == SendOther \/ CallEngine

-----------------------------------------------------------------------------
Init ==
    /\ \E ports \in Prefills : log = [ports |-> ports, first |-> 1]
    /\ flashQue = <<>> /\ upper = 0 /\ lrQue = <<>> /\ eventQue = <<>>
    /\ job = Idle
    /\ server = [asked |-> FALSE, command |-> Confirm, wanted |-> {}, sent |-> {},
                 lost |-> {}, answer |-> "none", cut |-> FALSE, late |-> FALSE]
    /\ history = [overwritten |-> FALSE, dropped |-> FALSE]
    /\ made = [stores |-> 0, others |-> 0]

Next ==
    FlashThread \/ AwaitTimeout \/ Communication \/ Engine \/ Request \/ Store \/ Other

Spec == Init /\ [][Next]_vars

(* Each thread runs its loop again and again; nobody is bound to store, to *)
(* send, or to time out.                                                   *)
FairSpec ==
    /\ Spec
    /\ WF_vars(FlashThread) /\ WF_vars(AwaitTimeout)
    /\ WF_vars(Communication) /\ WF_vars(Engine)
-----------------------------------------------------------------------------
(* Properties                                                              *)

(* Until a wait times out, a payload and its confirm keep step: at most    *)
(* one of them is under way, and only while the flash thread waits for it. *)
(* So no confirm ever releases the wait for another payload.               *)
UnderWay ==
    {i \in 1 .. Len(lrQue) : lrQue[i].what = "data"}
        \cup {-i : i \in {j \in 1 .. Len(flashQue) : flashQue[j] = Confirm}}

LockStep ==
    ~server.late => Cardinality(UnderWay) <= (IF job.at = "wait" THEN 1 ELSE 0)

(* No batch ended early, no wait timed out, which is also what becomes of  *)
(* a payload or a confirm that is purged, and no payload was displaced.    *)
Undisturbed == ~server.cut /\ ~server.late /\ server.lost = {}
Missing     == server.wanted \ server.sent

(* A command from the head that is answered with success, met room in      *)
(* event_que and no late confirm, and did not run over the tail, brought   *)
(* exactly the messages it named, whatever was stored meanwhile.           *)
HeadExact ==
    (/\ server.answer = "ok" /\ server.command.act = "head" /\ Undisturbed
     /\ made.others = 0 /\ Cardinality(server.wanted) = server.command.n)
        => server.sent = server.wanted

(* A CMD_FLASH_GET_ALL that ran undisturbed over more messages than twice  *)
(* a batch, while no long message came before a CONTINUE and changed its   *)
(* number, misses, of what the ring still holds, at most a batch of the    *)
(* newest, and one message for each that was stored meanwhile: positions   *)
(* count from a head that every store moves. That holds as long as the     *)
(* count stays above the start of the command: a store that reclaims a     *)
(* block of a fuller ring takes the count below it, the correction of      *)
(* NumberFor then cuts the command to a remainder that may fit into one    *)
(* payload when the count is up again, and it is answered with success.    *)
Gaps == {m \in Missing \cap Messages : \E k \in server.sent : k > m}

CountHolds ==
    server.wanted \subseteq Messages
        \/ Cardinality(server.wanted) <= (NBlocks - 1) * PerBlock + 2

GetAllGaps ==
    (/\ server.answer = "ok" /\ server.command.act = "all" /\ Undisturbed
     /\ ~history.overwritten /\ Cardinality(server.wanted) > 2 * Batch /\ CountHolds)
        => /\ Cardinality(Gaps) <= made.stores
           /\ Cardinality((Missing \cap Messages) \ Gaps) <= Batch

(* A command is answered in the end, however full event_que is when it     *)
(* comes and however late the confirms, also when a payload or a confirm   *)
(* is purged, unless a put on a full queue threw the command or its answer *)
(* away.                                                                   *)
Answered == server.asked ~> (server.answer # "none" \/ history.dropped)

(* settings/README.md, cmd_flash_get_all: "Tracker will start to return    *)
(* all available messages from head to tail": when the command is answered *)
(* with success the server has every message.                              *)
GetAllComplete ==
    (server.answer = "ok" /\ server.command.act = "all" /\ Undisturbed) => Missing = {}
=============================================================================
