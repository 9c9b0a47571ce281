# TLA+ verification of the OpenCollar Edge firmware

The repository is the C firmware (Zephyr, nRF52840 and LR1110) of a wildlife
tracker. This directory holds TLA+ models of its components, the TLC
configurations that check them on small instances, and TLAPS proofs for every
value of their constants.

## The system

Threads (`app/src/main.c`): a main loop (settings, battery, LED, Bluetooth
advertising), `flash`, `sensors`, `communication` (LR1110: LoRaWAN, GNSS, WiFi
scans), `lorawan`, `lp0` (peer-to-peer radio), optionally `satellite`, and
`ble_read` / `ble_write`. They talk through `thread_com` (one bounded `k_msgq`
per thread), through semaphores (`lp0`, `flash` and `lorawan` hand the radio and
the log to each other), through global flags (`thread_operation`), and through
the settings tables, which every thread reads. Two things outlive a reset: the
NVS partition in internal flash and the external flash chip.

| Component | State | Operations | Interacts with | Hard behaviour |
|---|---|---|---|---|
| Flash message log (`flash/flash_interface.c`) | RAM buffer, five positions in RAM and NVS, the external flash | store, read, count, read from head, clear, boot, disable | every thread stores to it; LoRaWAN, BLE and LP0 read it | ring reuse, power cuts between writes, refused writes, reads that span many messages |
| Thread queues (`threads/thread_com`) | seven message queues | put, get, purge | all threads | a full queue loses everything that waits |
| Thread gate (`threads/thread_operation`) | operation and time of the last change | set, get | flash, LP0, communication | a pause that ends by itself |
| Start-up (`main.c`) | start-up semaphores | give, take, reboot on timeout | all threads | order of initialisation |
| Watchdog and status (`threads/thread_watchdog`, `thread_status`) | one report flag per thread | report, feed | all threads | one silent thread starves all |
| Communication (`communication/communication.c`) | LR session, intervals, last messages | join, send, receive, scan, status | lorawan, flash, settings | commands that arrive during a session |
| LR messaging (`communication/lr_messaging`) | outgoing and incoming stores, retry counters | add, send, confirm, remove | communication | retries, order of removal |
| LoRaWAN (`lorawan/lorawan.c`) | engine state, two queues, join record in NVS | join, send, suspend, resume, S-band, modem events | lp0, communication, modem library | events during a transmission, stale joins, crash recovery of the join record |
| LP0 and offload (`lp0/`, `lib/lp0_communication`) | mode, event queue, peer, packets | discover, transfer, acknowledge, timeout | lorawan, flash | six semaphores, radio handover, lost packets |
| Bluetooth (`bt_module/`) | connection, PIN state, scan scheduler | connect, write, validate, scan | all threads by commands | timers against work items |
| Settings (`settings/`) | tables in RAM, NVS image | set, save, migrate, transfer | all | partial writes, version changes |
| Satellite, GPS, outdoor detection, sensors, charging, LED, microphone | measurement state | periodic sampling and sending | communication, flash | timeouts and intervals |

### What makes each component correct

* Flash log: what is read back is what was stored, oldest given up first; the
  positions always describe the chip; no cell is programmed twice; a reset
  costs the buffer only; a boot ends with the log in use.
* Queues: nothing is lost or reordered while there is room.
* LoRaWAN: every message that was accepted is sent or dropped as the oldest;
  every suspend is answered; the stored join state belongs to the current keys.
* LP0: the radio belongs to one of LoRaWAN and LP0; nobody waits for ever; each
  offloaded message arrives once.
* LR messaging: a message stays until it is confirmed or its retries are used
  up, and the one removed is the one that was meant.
* Bluetooth scans: after a scan ends or fails another one is scheduled.

## Plan

| Order | Module | Models | Composes with | Status |
|---|---|---|---|---|
| 1 | `FlashLog`, `FlashLogAbs`, `MCFlashLog`, `FlashLog_proofs` | the log: writing, booting, power cuts, faults | `FlashLogAbs` as the abstract specification | done |
| 2 | `FlashRead`, `MCFlashRead`, `FlashRead_proofs` | reading the log over LoRaWAN: commands, batches, payloads, confirms, three queues | positions of `FlashLog`, abstracted to the order of storing | done |
| 3 | `LorawanSession`, `MCLorawanSession`, `LorawanSession_proofs` | engine states, joins, activation changes, commands, the identity record in NVS | | done |
| 4 | `Lp0Radio`, `MCLp0Radio`, `Lp0Radio_proofs` | who has the radio: LP0 modes and offload, flash thread, interrupts, suspension of the modem, GPS fix | the suspend protocol of `LorawanSession`, the queue of `FlashRead` | done |
| 5 | `LrScan`, `MCLrScan`, `Position_proofs` | what the communication thread asks of the LoRaWAN thread and waits for | `LorawanSession` seen from the other side | done |
| 6 | `LrMessaging`, `MCLrMessaging`, `LrMessaging_proofs` | the two message stores, rounds of repetition, reading by the phone | | done |
| 7 | `BtCmdq`, `MCBtCmdq`, `BtCmdq_proofs` | the search for a heart monitor: timers, work items, result buffer, advertisement | | done |
| 8 | `Satellite`, `MCSatellite`, `Satellite_proofs` | the buffer of messages and the sessions of the satellite modem | | done |
| 9 | `Intervals`, `GpsFix`, `MCGpsFix`, `Position_proofs` | which interval the hour selects; when a GPS fix is tried | `GpsFix` extends `Intervals` | done |
| 10 | `StartUp` | start-up semaphores, time limit, watchdog | | planned |
| 11 | `BleLink` | PIN, disconnect period, `ble_read` and `ble_write` | `LrMessaging`, `BtCmdq` by the phone's presence | planned |
| 12 | `SettingsStore` | setting, saving and migrating a table | | planned |
| 13 | `Charging` | thresholds with hysteresis | | planned |

Abstract specifications: the FIFO log (`FlashLogAbs`, done) and an at-most-once
mailbox for the thread queues.
Theorems worth proving next: those of the planned modules. Every safety property
that the runs check is stated by one.

More than half of the lines of the implementation are firmware images for the
LR1110 kept as C headers; most of the rest is vendor code (the u-blox driver
alone has 4000 lines) and generated settings tables. What can be modelled is the
logic of the threads, some 20000 lines, of which the modules above stand for
5400.

## FlashLog

### State and correspondence

The whole device is one record `dev`. `ram` holds `prv_flash_offset` (`offset`),
`prv_flash_start_offset` (`start`), `prv_block_offset` (`block`),
`prv_left_block_size` (`left`) and `Main_values.flash_nr_msg` (`count`); `nvs`
the five records of the same name, -1 when never written; `flash` the cells of
the external chip; `buf` and `nbuf` are `prv_flash_buffer` up to
`prv_buffer_idx` and `prv_n_msg_buffer`; `enabled` is `prv_flash_enable`.

Every C function is an operator from device to device: `GoToNextBlock`,
`WriteBufferToFlash`, `StoreMessage`, `ClearFlashData`, `TestFlash`,
`InitFlash` and their helpers, in the order in which the code makes its
assignments and writes. A handler runs to its end in one action, because only
the flash thread touches this state. What can happen inside a handler is a power
cut: the operators collect in `trail` the persistent image (NVS and flash) after
each NVS write, each erasure and each programmed cell, and `Cut` restarts the
device from any one of them.

| Action | Code |
|---|---|
| `Boot` | `init_flash`, both attempts of `test_flash` |
| `StoreMsg` | `MB_MSG_STORE`, and `handle_flash_status` storing its own status |
| `Read` | the flush with which every reading command begins |
| `Clear`, `Disable` | `CMD_FLASH_CLEAR`, `CMD_DISABLE_FLASH_TH` |
| `PowerOff` | reset between two handlers |
| `Cut` | power cut inside a handler |

### Abstractions

* The unit is a cell. A message of `n` bytes with its port and timestamp is `n`
  cells that name the message, their place in it, and `n`. Real sizes are
  FLASH_BLOCK_SIZE 4096 and FLASH_BUFFER_SIZE 256; the model's 5 and 4 keep the
  relations that matter (several messages to a block, blocks that do not end on
  a message, messages that do not divide the buffer). The proofs hold for all.
* NOR flash: a cell programmed twice is `Junk`. Different messages are taken to
  differ in every cell.
* A reader that meets the inside of a message stops there; in the code it would
  take the byte for a port, and stop only when it exceeds 32.
* The driver refuses erasures that are not block aligned and writes beyond the
  chip. A write may also be refused at three call sites (`write1`, `write2`,
  `flush`), and all the erasures of one handler together (`erase`). Read errors
  are not modelled: the code ignores them everywhere but in `test_flash`.
* The record of `test_flash` is nine bytes, far below the page of 256:
  `TestSize < PageSize`.
* `FlashLogAbs` sees two sets of ids, the messages a reader would find
  (`RetainedIn`) and those whose last cell is still in the page buffer
  (`PendingIn`). Ids grow with every message, so the order of arrival is the
  order of ids; that a reader meets them in this order is said beside it
  (`InOrder`), and `Implements` is both. `MsgStarts`, the walk of the code from
  message to message through a block, is the least set that holds the block's
  first cell and the cell behind each message in it.
* `test_flash` does not compare the timestamp, and neither does `ReadsBack`
  compare the last cell.

### Runs

| Run | Configuration | Shows |
|---|---|---|
| `flash_log` | 3 blocks of 5 cells, pages of 4, messages of 2 and 3, 8 ids, one refused write | `Geometry`, `NoOverwrite`, `LossOnlyByFault`, `BootSucceeds`, and that the log implements `FlashLogAbs` (`Implements`) |
| `flash_cut` | the same with one power cut inside a handler, and one refused access other than the write that makes room for a message | `FirstLapCutKeepsLog` |

Eight ids are enough to fill the ring of 15 cells, wrap, and give up a block,
with a reset at any point: a boot takes two, of which one is stored, and the
ring is full after four messages of 3 cells more.
Three blocks are the fewest for which the oldest block, the next oldest and the
current one differ. Deadlock is not checked, because the ids run out.

No run states fairness: the log is driven by the messages of other threads and
promises only safety.

`FirstLapCutKeepsLog` speaks of the first lap, before the ring gives up a block:
beyond it the code does not keep it (see Known divergences), nor when the write
that makes room for a message is refused: TLC refutes it then.

### Proofs

`FlashLog_proofs` proves, from the three assumptions on the constants that TLC
evaluates in every run and nothing else,

* `TypeCorrect`: `Spec => []TypeOK`,
* `GeometryHolds`: `Spec => []Geometry`,
* `OneBlockReclaimedHolds`: `Spec => []OneBlockReclaimed`,
* `NeverOverwrites`: `Spec => []NoOverwrite` when no erasure is refused,
* `BootSucceedsAlways`: `Spec => BootSucceeds`,
* `ImplementsAbs`: `Spec => Implements` when no erasure is refused and no message
  is longer than a page,
* `LostOnlyByFault`: `Spec => LossOnlyByFault` with the same hypotheses and three
  blocks or more,
* `FirstLapCutsKeep`: `CutSpec => FirstLapCutKeepsLog` when the write that makes
  room for a message is never refused,

for any number and size of blocks, any page, any messages shorter than two
pages and a block, and any set of refused accesses, erasures included.

None of the first three is inductive alone. `IInv` adds what the code relies on
inside its handlers: switched on, the device is `Sound` (positions consistent,
RAM equal to NVS, buffer at most a page); switched off, NVS is empty or holds a
`Loadable` log. Each operator of the model has a lemma that says it keeps a
device `Sound` (`GoToNextLemma`, `WriteBufferLemma`, `MakeRoomLemma`,
`StoreMessageLemma`, `TestFlashLemma`, `ClearLemma`, `LoadPositionsLemma`,
`InitFlashLemma`). `Sound` takes the set of keys on which RAM and NVS agree: the
boot loads the counter last, and may advance a block before it does.

`NoOverwrite` needs an invariant about the cells ahead, `CInv`: no cell is junk, and
what the next write will meet is erased. Switched on, that is the rest of the
current block (`Clean`); switched off, the rest of the block that the records in
NVS name, because the next boot goes on from them. Its lemmas follow the same
operators (`GoToNextClean` to `InitFlashClean`): a page is programmed in one block
(`ProgrammedClean`), and a new block is erased before anything is written to it
(`GoToNextClean`), even when it had been given up half full. The hypothesis is
that the set of refused accesses has no erasure: with one the ring is written
over what was there, in the model as in the code.

`BootSucceeds` is about any set of refused accesses before the boot. `TestFlash`
may fail on the block it finds, whatever is in it; the second attempt of
`init_flash` starts on a block it has just erased (`FreshBlockTest`), where the
test message fits and reads back (`TestFlashWorks`).

The refinement needs to know what is on the chip, `RInv`. Switched on, the device
has `Content`: each block of the log is a row of whole messages from its first
cell, with no gap, up to the write position in the current block and up to erased
cells in any other; the ids grow along the blocks in the order of reading; what
is in the page buffer is whole messages with later ids; and no id reaches
`nextId`. Switched off, `OffContent` says the same of the positions in NVS, and
that a chip without records is erased. Three things follow.

* What a reader finds. `ReaderFinds` and `ReaderSees`: on a device with `Content`
  the walk meets exactly the messages of the log, in their order, so that
  `RetainedIn` and `PendingIn` (`PendingIsBuffer`) can be replaced by the ids in
  the rows. The walk is a least set and not a recursion, so that no induction
  over data is needed: a smaller closed set would lack a first message.
* What a handler keeps. Each operator has a lemma that it leaves an `Orderly`
  device and says how the ids moved (`GoToOrderly`, `WriteBufferOrderly`,
  `MakeRoomOrderly`, `StoreOrderly`, `TestOrderly`, `LoadOrderly`, `BootOrderly`,
  `ClearOrderly`).
* What a step does. `HandlerMoves`, `HandlerStep` and `Stepped` turn these moves
  into a step of `FlashLogAbs` or a stutter, action by action.

`LossOnlyByFault` comes from the same lemmas and one more fact (`OneOn`, `TwoOn`):
in a handler without a refused access either the start stays and nothing leaves
the log, or one or two blocks were entered and the start is just behind the last.

The hypotheses are those the code meets or the property needs. With a refused
erasure the ring is written over. A message longer than a page would leave its
first page on flash when a reset or a refused write takes the rest; the longest
payload is 250 bytes (`prv_get_max_payload`) and five more for port and
time, below the 256 of FLASH_BUFFER_SIZE. With two blocks, a store that moves on
twice brings the start back to where it was; the partition is the whole external
flash, 16 MB in blocks of 4 KB.

`FirstLapCutKeepsLog` is about `CutSpec`, and about every image a handler passes
through, its `trail`. Up to the first cut the invariants of `Spec` hold
(`UncutInv`), and one more: what is in the buffer fits in the rest of the block
(`Fits`), so that a handler leaves the block at most once. That is where the
hypothesis is needed, and the only place: erasures and other writes may be
refused. `Covers` says what an image must keep for a reader to find what it
found before: the start, a block and a write position no earlier, and the cells
below the old write position. Each operator only adds images that do (`CutStore`,
`CutErase`, `CutWrite`, `CutGoTo` to `CutStoreMessage`), whichever of the NVS
records were saved by then. `FurtherWalk` compares the two walks of a reader: the
walk is a least set, and one that reaches further over the same cells is closed
for the shorter one too, so that nothing need be known about what is on the chip.

Only proved: `TypeOK` and `OneBlockReclaimed`.
All but the last are about `Spec`; under `CutSpec`, with a power cut inside a handler,
`Geometry` does not hold (first of the Known divergences).

## FlashRead

### State and correspondence

A server asks for the log with one downlink. The flash thread answers in
payloads that the communication thread hands to the LoRaWAN engine; three
bounded queues lie between them.

| Variable | Code |
|---|---|
| `flashQue`, `lrQue` | `flash_que` and `lr_que` of `thread_com.c`: a put on a full queue purges it |
| `eventQue` | `event_que` of `lorawan.c`: a put on a full queue drops the oldest event |
| `upper` | bytes 12 and 13 of `prv_flash_payload`, in which the flash thread receives and composes commands |
| `log` | the port of every message ever stored, and the number of the oldest one still on flash |
| `job` | where the flash thread is in `prv_read_messages_from_head`: idle, reading, or in the wait of `prv_send_payload`; the command it serves, what is left of the window, the payload being filled, and the messages read so far |
| `server` | what was asked for, what the engine has taken, what was displaced from `event_que`, the answer; `cut` when a batch was ended by a full `event_que`, `late` when a wait timed out |
| `history` | whether a long message came before a CONTINUE that waited (`overwritten`), and whether a put on a full queue threw away a command that was to be read or its answer (`dropped`) |

| Action | Code |
|---|---|
| `HandleStore`, `IgnoreConfirm`, `HandleGetAll`, `HandleGetFromHead`, `HandleContinue` | the branches of `prv_flash_parse_message` |
| `ReadMessage`, `ReadMessageIntoNext`, `EndOfBlock`, `StopReading` | one turn of the loop of `prv_read_block_messages` |
| `AwaitConfirm`, `AwaitTimeout` | the wait of `prv_send_payload` for a confirm, up to `cold_fix_timeout` |
| `FinishBatch` | what follows a read: a CONTINUE for the rest, or the confirm of the command |
| `Communication` | MB_MSG_SEND in `handle_communication_thread_messages` |
| `Engine` | `prv_lorawan_handle_events` takes an event |
| `Request`, `Store` | a downlink; a message to store by any other thread |
| `SendOther`, `CallEngine` | any thread sends another message, through `lr_que`; any thread or timer posts another engine event |

A message is the number of its storing, and `PerBlock` of them fill a block, so
the block of a message follows from its number. The walk over the blocks is the
set of messages left of the window and the order `Before` in which the code
meets them: newest block first, each block from its start. The busy checks of
`prv_read_block_messages` are made for every message that is read; for those it
skips they would see the same queue.

A CONTINUE is sent with 12 bytes, and its number of messages ends at byte 13. So
`n` of the CONTINUE that is read has the lower half of the `n` that was sent and
the upper half in `upper` (`Received`): that of the message handled before, if it
was long enough (`UpperAfter`), or else what composing the CONTINUE left there
(`PutContinue`). Stored messages are short, or long with any of `Uppers` in those
two bytes. The payloads of a read are put together in the same buffer, and the
wait for a confirm receives in it; neither matters, because no CONTINUE waits in
`flash_que` during a read and the next one is composed anew. Short are the confirms,
answers and flash status messages; CMD_FLASH_GET_FROM_HEAD is long, and is the
command itself.

Abstractions: a payload holds `PerPayload` messages instead of `max_rsp_len`
bytes; the engine is always ready to take an event or not, by its own choice,
which covers duty cycle and a suspended radio; an empty payload (a first message
longer than the maximum) does not occur. `Word` stands for 2^32 and `Half` for
2^16; a long message has 14 bytes or more, so that it never changes one of the
two bytes alone. There is one read command, so no second one changes the buffer.
Messages to `lr_que` with another action than MB_MSG_SEND (commands from the
phone) are taken like those that are sent. An offload over LP0 also reads into
`prv_flash_payload`; it is in `Lp0Radio`, and not combined with a read over
LoRaWAN.

### Runs

| Run | Configuration | Shows |
|---|---|---|
| `flash_read` | no message or 6 messages on two ports, 3 blocks of 2, payloads of one message, batches of 2, `flash_que` of 2, `lr_que` of 1, `event_que` of 4, words of 4 bits, three commands, two stores (short or long), one other message or event, any number of timeouts, under `FairSpec` | `LockStep`, `HeadExact`, `GetAllGaps`, `Answered` |
| `flash_get_all` | CMD_FLASH_GET_ALL alone | `GetAllComplete` is violated |

Six messages fill the ring, so that a store gives up a block in the middle of a
read. A batch of two is the smallest that lies in two blocks, and a queue of four
the smallest in which both busy checks (fewer than three free slots, fewer than
two) differ from full and from empty. The real queues hold 4, 4 and 8 entries;
the run makes them smaller so that few messages fill them: two stores purge a
CONTINUE that waits in `flash_que`, another message purges a payload or an answer
from `lr_que`, and an event displaces an answer from `event_que`. A purged payload
or confirm ends in a timeout; a purged command or answer is `dropped`. With words
of four bits, an upper half of 3 makes any number larger than the count, which is
what a stored message of 14 bytes or more does to it in the code. Five of the six
messages are on the port that CMD_FLASH_GET_ALL asks for, more than two batches,
and the first store gives up two of them. Deadlock is not checked: a command
that has been answered leaves nothing to do.

Fairness, assumed for `Answered` only: each of the three threads takes a step
when it can (their loops have no other condition), and a wait that goes on ends
with its timeout. Stores, other messages, events and the request itself are not
fair.

`Answered` is not what `settings/README.md:508` promises ("When all messages are
send, confirmation message, "msg_cmd_confirm", will be received"): the code does
not keep that (see Known divergences). It says that an answer is missing only if
a put on a full queue threw the command or the answer away: no path of a handler,
no timeout, no purged payload or confirm and no refusal by a busy `event_que`
forgets it.

What the positive properties leave open is as telling as what they say:
`GetAllGaps` leaves out the transfers in which a long message came before a
CONTINUE that waits (see Known divergences), and those with a timeout or a
displaced payload. It allows a message to be skipped for each store during the transfer,
and a batch of the newest to be missing. It leaves out the rings in which
`CountHolds` is false (see Known divergences); with blocks of two messages, as in
the run, there are none.

### Finding

CMD_FLASH_GET_ALL over LoRaWAN is confirmed without the newest messages ever
having been sent; a log of one message sends nothing (`flash_get_all`). The
code starts at the oldest message with `count - 1` messages to read and stops
after as many as it has read, while every batch reads towards the tail.

`HeadExact` speaks of commands that were not interrupted: a
CMD_FLASH_GET_FROM_HEAD that found `event_que` busy continues towards the head
(`start - err` in `prv_flash_parse_message`) although it reads towards the tail.

### Proofs

`FlashRead_proofs` proves, for logs, queues, batches and payloads of any size, any
commands and any number of stores, other messages, events and timeouts, from the
assumptions of the module,

* `TypeCorrect`: `Spec => [](TypeOK /\ Held)`,
* `LockStepCorrect`: `Spec => []LockStep`,
* `HeadCorrect`: `Spec => []HeadExact`,
* `GetAllCorrect`: `Spec => []GetAllGaps`.

`LockStep` alone forgets which side has the token. `OneUnderWay` says that, while
no wait has timed out, `lr_que` holds at most one payload and `flash_que` at most
one confirm, never both, and neither unless the flash thread waits; a purge of
either queue only takes away. It needs `Orders`, the commands that can be in
`flash_que`: every message with the code of a confirm is one.

`HeadExact` speaks of the end of a command. `Phases` says where an undisturbed
one is before: it waits (`Pending`), finds no room in `event_que` ever
(`Starved`), asked for more than there was (`Off`), is being read (`Under`), is
over (`Over`) or has failed (`Failed`). `Under` accounts for the messages: those
wanted are those sent, in `event_que`, in `lr_que`, in the payload and left to
read, and as many have been read as are not left, so that the batch cannot end
early; `Over` keeps the answer behind the last of them. There is one lemma per
phase (`PendingStep` to `FailedStep`), and lemmas about the queues (`PutFacts`,
`PutEventFacts`, `OnceTail`, `OncePut`), the log (`WindowFacts`, `StoredFacts`) and
the order of reading (`NextFacts`, by well-foundedness of the naturals).

`GetAllGaps` is about positions that move with every store. `Transfer` says where
an undisturbed CMD_FLASH_GET_ALL is: it waits (`WaitingAll`), the rest of it waits
in `flash_que` (`QueuedAll`), a batch is read (`ReadingAll`), the last one was
(`DoneAll`), or it has failed. A transfer whose payload was purged from `lr_que` is
`Stuck`: only a timeout leads on from there, and then it is not undisturbed. The
premise that no long message came before a CONTINUE (`Calm`) is what keeps the
number: as long as it holds, `upper` is the upper half of the number in the
CONTINUE that waits (`UpperKept`), and what is received is what was sent; the
handling of a long message with a CONTINUE behind it ends the premise
(`OverwrittenBefore`). It counts against what the server has or will get
without another read: the messages newer than all of that (`Fresh`) and the wanted
ones passed by (`Gone`). What is passed by, and the stores that still wait in
`flash_que` (`Queued`), never exceed the stores made since the request, and before
a batch all three together exceed them by no more than the start and the size of
the batch, so that one batch passes by no message but for stores.
`ReadingReaches` says so of a single read: from position a it leaves at most a
newer messages behind, and passes by none unless more than a + `Batch` were newer.
The window slides only as long as the code corrects neither the start nor the
number (`FitsFacts`, `BigCount`). That is what `CountHolds` is needed for, and with
it how much the ring holds at least (`Ring`, `RingHolds`). The lemmas on
positions (`Greatest`, `PositionTaken`, `WindowSize`) take a first or a last
message where a recursive argument would count, by `Smallest`: a set of naturals
has a least element.

Only model-checked: `Answered`, which is liveness.

## LorawanSession

### State and correspondence

The LoRaWAN thread of `lorawan/lorawan.c` with everything that can interleave
with it: threads that post events or change the settings, the modem that calls
back while its engine runs, and reboots.

| Variable | Code |
|---|---|
| `state`, `enabled`, `joining`, `failed`, `waitTxDone`, `vhfQueued` | `state`, `lorawan_enabled`, `lorawan_joining`, `lorawan_join_failed_counter`, `lorawan_wait_tx_done`, `prv_vhf_burst_queued` |
| `chipSem` | `lora_chip_suspended_sem` |
| `eventQue`, `msgQue` | `event_que`, `msg_que` |
| `desired`, `changePending` | `lorawan_cfg` (its activation settings), `lorawan_activation_change_pending` |
| `attempt`, `joined` | `join_attempt_configuration`, `joined_configuration`, each with its valid flag (`NoConfig` is invalid) |
| `nvs` | the stored setting, the identity record `STORAGE_lorawan_joined_cfg`, and the session in the modem's context |
| `modem` | the session, the join under way, and whether the reset callback is still to come |
| `doing` | where the thread is between two steps of `prv_start_join`, or before `on_modem_network_joined` |
| `uplinks`, `faulty`, `made` | history: what was handed to the modem, which calls have failed, bounds |

A session carries the settings it was joined with, and whether these have been
changed since (`fresh`), also when they were changed back. The code cannot see
`fresh`; the properties ask whether its latch and its record amount to it.

| Action | Code |
|---|---|
| `HandleMessageLater` to `HandleMessageSend` | the branches of LORAWAN_EVENT_MESSAGE |
| `HandleLeave`, `HandleStart`, `HandleReset`, `HandleSuspend`, `HandleResume` | the commands of the same names |
| `HandleJob`, `RefuseScan` | scans, S-band messages and VHF bursts, which suspend and resume the modem around a use of the radio |
| `DeleteRecord`, `Configure`, `JoinNetwork` | the three steps of `prv_start_join`, between which other threads run |
| `InitEngine` | LORAWAN_INIT |
| `OnResetFails`, `OnResetNoSession`, `OnResetRestored`, `OnResetMismatch` | the ways through `on_modem_reset` |
| `JoinAccepted`, `OnJoined`, `OnJoinFail`, `OnTxDone` | the modem ends a join or a transmission, and its callback |
| `InitLr` | the start in `init_lr` of `communication.c` |
| `SendMessage`, `PostCommand` | `lorawan_send_message` and the other functions that post an event |
| `ChangeSetting`, `SetConfiguration` | a new activation setting is stored, and then passed to `lorawan_set_configuration` |
| `Reboot` | a reset or power loss between any two of these steps |

The modem is external; what the code in `src/` relies on is assumed of it: its
session survives a reboot in its own context; leaving ends the session and a
join, and may or may not have reached the context; it reports its reset before
anything else; and a change of its status and the callback that reports it
belong to one run of the engine, so no event is taken between the two. A power
loss may come between them.

Any of ten calls may fail (`Faults`), as many of them as `MaxFaults`. The calls
are those whose error the code looks at, or whose effect can be missing: leave,
join, configure, suspend, resume, the uplink, the first call of
`on_modem_reset`, and the access to the identity record.

Left out: the ADR profile, downlink data (`FlashRead` has the request it
brings), the firmware update, the contents of messages, CRC collisions of keys,
and the wait for the duty cycle in `send_frame`, which the engine has switched
off.

### Runs

| Run | Configuration | Shows |
|---|---|---|
| `lorawan_session` | two settings, queues of 2, two join attempts, one message, two commands, one change, one reboot, one failing call, under `FairSpec` | `RecordMatchesSession`, `HandedOnce`, `UplinkOnFreshSession`, `OnlyFullQueuesLose`, `JoinSettles`, `Rejoins` |

Two settings are enough for a change, which with a reboot meets a join and a
restored session; that a second change meets the first, or changes back, is left
to the proofs, which have any number of them. Two commands let a scan be taken
after the suspension that was queued before it. Queues of 2
can be full with one event of each kind. Deadlock is not checked: with the
messages and commands used up the device rests.

Fairness: the thread's loop runs on (`Thread`), the modem ends what it is at
(`JoinEnds`, `OnTxDone`), start-up reaches `init_lr`, and whoever stored a
setting calls `lorawan_set_configuration`. Nobody is bound to post a message or
a command: a suspended modem may stay suspended, and both liveness properties
except that state. `Rejoins` also excepts a call that failed, since nothing but
the next message tries again.

`UplinkOnFreshSession` holds with one exception that the code makes: when
`smtc_modem_dm_set_info_interval` fails, `on_modem_reset` returns before it has
compared the restored session with the settings, and the latch, which is in RAM
only, does not know of a change made before the reboot.

### Proofs

`LorawanSession_proofs` proves, for any settings, sizes of queues, number of
messages, commands, changes, reboots and failing calls,

* `TypeCorrect`: `Spec => []TypeOK`,
* `RecordCorrect`: `Spec => []RecordMatchesSession`,
* `UplinkFresh`: `Spec => UplinkOnFreshSession`,
* `JoiningKnown`: `Spec => []JoiningIsKnown`,
* `HandedOnceCorrect`: `Spec => []HandedOnce`,
* `OnlyFullQueues`: `Spec => OnlyFullQueuesLose`,

from the four assumptions on the constants. The inductive invariant `IInv` says
why the record is right and the latch sufficient:

* `RecordGone`: from the deletion at the start of a join until
  `on_modem_network_joined` there is no record, so that no moment of a join can
  leave a wrong one;
* `AttemptNamesJoin`: the settings that will be recorded are those of the join
  under way, of the join just requested, or of the session just accepted;
* `StaleIsLatched`: while the latch is clear, an outdated session is one that
  `on_modem_reset` is still to compare (and will find different), an outdated
  join is one that is being replaced, and an outdated context is one whose
  record does not name the present settings;
* `Positions` and `Unstarted`: in which states the thread can be inside a
  handler, and what cannot have happened before `init_lr`.

`TypeStep` proves the types part by part; the rest has one lemma per action or
group of actions (`HandlersKeep`, `StartKeeps`, `InitEngineKeeps`,
`OnResetKeeps`, `MismatchKeeps`, `JoinAcceptedKeeps`, `OnJoinedKeeps`,
`OnJoinFailKeeps`, `InitLrKeeps`, `SetConfigurationKeeps`, `RebootKeeps`), and
`JInv` adds what `JoiningKnown` needs. TLC has checked `IInv` as an invariant of
the configuration of `lorawan_session` with two failing calls.

The messages have an invariant of their own, `MInv`. What the start of a join
holds in its hands (`doing.msg`) counts like a queue: `Waiting` says that no
message is in two of the three places or twice in one, `Numbered` that those
waiting or handed over have been given and those waiting were not handed over,
and `AllNamed` that only a start of a join holds a message, which has a number
unlike any command. The proof does not go through the actions one by one:
`StepMoves` says that a step stores the event for later, drops it, holds it,
hands it over, puts back what it held, reschedules all that waits, takes in a
new one, forgets everything at a reboot, or leaves the messages alone; what each
of these moves does to the numbers in a queue is said by `PutIds`, `TakeIds`,
`ConcatIds` and `NewestIds`, and both theorems follow from the moves.

Only model-checked: the two liveness properties; only proved: `TypeOK` and
`JoiningIsKnown`.

## Lp0Radio

### State and correspondence

The LR1110 has one radio. The LoRaWAN thread, the LP0 thread, the flash thread
(during an offload) and a GPS fix hand it to each other through the event queue
of the LoRaWAN thread and six semaphores.

| Variable | Code |
|---|---|
| `mode`, `lp0Que`, `ping`, `role` | `prv_mode`, `lp0_event_que`, `ping_event_timer`, `lp0_node_params[0]` |
| `lp0` | where the LP0 thread is (`at`) and for what (`job`); still starting (`boot`); it holds the suspended modem (`suspended`); the role LP0 works in (`offload`) and the messages of a test fill still to store (`fill`) |
| `task`, `air`, `irq` | `prv_current_task` of `lp0_communication.c`, whether the chip works on it, and the messages of a test fill the interrupt thread has still to store |
| `sem` | `chip` is `lora_chip_suspended_sem`, `done` `lp0_tx_rx_done_sem`, `send` `flash_send_lp0`, `start` `flash_offload_start_lp0`, `over` `flash_offload_done_lp0`, `save` `lp0_flash_save_sem` |
| `lr`, `lrQue` | state, `lorawan_enabled` and modem of the LoRaWAN thread, where it is, and `event_que` |
| `flash`, `flashQue` | where the flash thread is in an offload, payloads left, and `flash_que` |
| `gps`, `paused` | a GPS fix of the communication thread, and `com_thread_operation` |
| `upset` | history: cases the code has no answer to |

| Action | Code |
|---|---|
| `LorawanThread` | MODEM_SUSPEND, MODEM_RESUME, jobs and uplinks of `prv_lorawan_handle_events`, and `on_modem_tx_done` |
| `Lp0Thread` | the loop of `lp0.c`: start, events, discovery with its two receive windows, transfer, offload, fill, station |
| `IrqThread` | `prv_lora_irq_process` and the callbacks of LP0: sent, received, timed out |
| `FlashThread` | `prv_read_all_messages` and `prv_read_block` when they offload the log over LP0 |
| `GpsThread`, `GateExpires` | suspension around a fix, and the pause that ends by itself |
| `Lp0Event`, `PingTimer`, `LorawanEvent`, `SetMode`, `SetRole`, `Store` | what other threads, timers and commands do |

Zephyr schedules these threads by priority: interrupts (5), the LoRaWAN thread
(6), LP0 and all others (7). A step of a lower thread is taken only when those
above rest or wait. Time is abstracted to what the order of timeouts tells
apart: the 180 s the LoRaWAN thread waits for a radio run out only while LP0 is
outside a transmission, and the 450 s that LP0 waits for the modem only when
nothing else happens.

`upset` names each case in which the code keeps a promise only by luck: a fix
or a radio job during LP0 (`fix`, `job`), a chip that refuses (`fault`), a
reception left open (`open`), an old "done" taken for a new one (`stale`), an acknowledgement while starting (`boot`), a
second one (`twice`), a purged `flash_que` (`purged`), a full `lp0_event_que`
(`dropped`) or `event_que` (`lost`), a mode set from outside (`mode`). Each
property lists those it excepts, and TLC finds it violated if any one is left
out of its list; for `lost` that takes an `event_que` of one entry, and three
events in `OffloadEnds`.

LP0 waits up to 15 s for the end of a transmission or a reception. The chip
reports both sooner, unless the modulation is slow, the chip failed to start, or
the interrupt thread is storing a test fill and waits for the flash thread,
which has no higher priority than LP0: these waits end then as well. And LP0
waits 450 s for the modem: a request to suspend that was pushed out of
`event_que` while the modem waited for the end of an uplink is never served,
and LP0 sends all the same.

Abstractions: S-band events of LP0 are left out, because nobody posts them;
what is sent is a kind of packet; `lp0_update_communication_settings` and what
is written to the SD card are left out.

### Runs

| Run | Configuration | Shows |
|---|---|---|
| `lp0_radio` | all roles and packets, queues of 2, two payloads, a fill of two, two events from outside of any kind, under `FairSpec` | `RadioExclusive`, `OffloadPaired`, `OffloadServed`, `OffloadEnds`, `RadioReturns` |

Two events are enough for an acknowledgement that starts an offload, or a
message, and something that comes in between; the ping timer, whose discoveries
come on top of them, is not counted. Every exception named above happens with
two, but for the one said above.
Deadlock is not checked: without events from outside all threads wait.

Fairness: the threads are scheduled (`LorawanThread`, `IrqStored`, `Lp0Thread`,
`FlashThread`), the ping timer expires, the chip reports a transmission and the
timeout of a reception that has one, and a fix ends. Receptions without a
timeout and everything from outside are not fair.

### Proofs

`Lp0Radio_proofs` proves, for any roles, packets, modes, queue sizes, number of
payloads and of events from outside, from `RoleAssumption`, `SizeAssumption` and
`InputAssumption`,

* `TypeCorrect`: `Spec => []TypeOK`,
* `Paired`: `Spec => []OffloadPaired`,
* `PingsTimed`: `Spec => []PingsGoOn`,
* `OneUser`: `Spec => []RadioExclusive`,
* `NobodyForgotten`: `Spec => []OffloadServed`.

The inductive invariant is `TypeOK /\ Sending /\ OffloadPaired /\ PingsGoOn /\
RInv /\ OInv`. `Sending` says that a flash thread whose payload has been sent
still counts it: without it the type of `flash` is not inductive. There is a
step lemma per part of `TypeOK` (`ModeStep` to `LeftStep`), one for each of the
next conjuncts (`SendingStep`, `PairedStep`, `PingsStep`), and `QueuedTail` and
`QueuedAppend` say what a queue holds after an event is taken or put.

`RInv` says why the radio has one user. A use of it goes through six stages:
the modem has it (`LorawanHas`), LP0 has asked (`Requested`), the modem is
suspended and the semaphore given (`Granted`), LP0 has taken it (`Lp0Has`), has
asked for the resumption and given the semaphore back (`Returned`), and the
modem runs and still has to take it (`Retaking`). `Handover` ties each place of
the LP0 thread to the stages it can be found in: in all of them at most one of
"suspend" and "resume" is in `event_que`, and no stage but `Retaking` keeps the
LoRaWAN thread from its events, so that LP0, which has the lower priority, never
sees `Returned` or `Retaking` when it asks again. `Tasks` says that no task is
recorded before LP0 has the radio and none outlasts it. Both hold until one of
the exceptions of `RadioExclusive` happens (`Spoilt`). `PendingPut` and
`PendingTake` are about the queue; `LorawanHands`, `Lp0Hands` and `OthersHand`
move the stages on; `TasksStep` needs `OffloadPaired` for the flash thread.

`OInv` says, while nobody sets the mode, what LP0 relies on it for in each place
(`ModeFits`), that a device has nothing on the air outside a use but what the
flash thread sends (`Air`: this is why no late acknowledgement changes the mode
under a transfer), and that an offload is asked for once and not before the end
of the one before has been taken note of (`Requests`). `FlashPut` and `FlashTake`
are about `flash_que`.

Trying to prove `RadioExclusive` for queues of any size showed that it is false
of a full `event_que`: the exception `lost`, and what happens when it does, were
found that way. Only model-checked: the two liveness properties; only proved:
`TypeOK` and `PingsGoOn`.

## LrScan

### State and correspondence

The communication thread asks the LoRaWAN thread for a scan, an almanac update,
an S-band message, silence during a GPS fix, or a restart, and looks every 100
ms at a flag that says it is done.

| Variable | Code |
|---|---|
| `state`, `enabled`, `que`, `burst` | `state`, `lorawan_enabled`, `event_que`, `prv_vhf_burst_queued` |
| `run` | what the LoRaWAN thread is at, and the parts of an S-band message still to send |
| `comm` | the loop in which the communication thread waits |
| `done` | `lr_gnss_done`, `lr_wifi_done`, `lr_almanac_update_done`, `lr_s_band_done` |
| `lp0` | the LP0 thread has suspended the modem |
| `answer`, `lost` | history: the request a flag was last set for; events purged, skipped or refused |

`CommAsks` are the functions that post (`AskScan`, `AskAlmanac`, `AskFix`,
`AskReset`, `AskBurst`, `Post`), `CommGoesOn` the ends of their waits
(`ScanAnswered`, `SecondMessage`, `SecondAnswered`, `AlmanacTimeout`,
`FixStarts`, `FixEnds`, `LorawanUp`), `LorawanThread` the branches of
`prv_lorawan_handle_events` (`EngineStart`, `EngineInit`, `Suspend`, `Resume`,
`Retaken`, `Uplink`, `Leave`, `SkipJob`, `JobStarts`, `JobEnds`). The engine sleeps
in every transfer to the chip, so that all threads may run between any two
events. Joins and the contents of messages are in `LorawanSession`, not here.

### Run

`lr_scan`: `event_que` of 3, S-band messages in both modes, four events of any
kind: `ModemBack`, `OwnAnswer`, `WaitEnds`. A queue of 3 can hold a suspension, a
resumption and a scan, and is full with one more. Fairness (`LFairSpec`): both threads are
scheduled, jobs end within a timeout, and LP0 gives the modem back (its own
side is `RadioReturns`). Deadlock is not checked: with nothing asked all rest.

What the properties except is what the code does not survive. A purged scan, a
scan skipped because LoRaWAN was disabled meanwhile (`lorawan.c:667`), and a
resume by LP0 that crosses the suspension of a fix (`communication.c:1132`) leave
the communication thread in a loop without an end. The flag of the almanac is
never lowered, and a message in both S-band modes answers twice
(`communication.c:735`), so that `OwnAnswer` holds for GNSS and Wi-Fi only.

### Proofs

`Position_proofs` proves about `LSpec`, for any size of `event_que`, one part or
two in an S-band message, and any number of requests, faults and restarts, from
`ScanAssumption`,

* `ModemComesBack`: `LSpec => []ModemBack`,
* `OwnAnswers`: `LSpec => OwnAnswer`.

Both speak of the moment when the queue has been emptied; the invariant `LInv`
has to say what is in it before.

* `Returns`: unless a resume or a restart was lost, and while neither LP0 nor a fix
  has the radio, every suspension in the queue has a resume or a restart behind it
  (`Undone`), and when nothing in it steers the modem (`Silent`), the modem is
  up or a radio job that ends with a resume is under way (`Up`). Taking the oldest
  event keeps this, since what undoes it is behind it (`TakeLeaves`). A put keeps
  it because a full queue loses the oldest events first: it can only lose what
  undoes a suspension after the suspension (`SendSteers`).
* `Starting`: before the start event has been taken the communication thread waits
  for it, and only LP0 may have put something; the start event is the oldest.
* `Restarting`: a restart is the last event of the queue only while the
  communication thread waits for it, and the engine is set up with LoRaWAN
  disabled only while somebody waits for it or something is in the queue.
* `Awaited`: an event that asks for a GNSS or Wi-Fi scan is in the
  queue, or under way, at most once, only while the communication thread waits
  for it with its flag down, and with the number of its request.

The lemmas about the queue (`SendJoins`, `JoinedKeeps`, `SendSteers`, `SendAsks`,
`SendKeeps`, `TakeLeaves`, `TakeKeeps`) are used by the steps, one for each action.
Only model-checked: `WaitEnds`, which is liveness.

## LrMessaging

### State and correspondence

`out` and `in` are the stores `outgoing_msg_que` and `incoming_msg_que`,
`sendIdx` and `nextNr` are `send_idx` and `outgoing_seq_nr`, `count` the setting
`lr_messaging_retry_count`, `nMes` the value `n_mes`, `mainQue` the queue of the
main thread. `round` and `reading` say how far the communication thread is in
`prv_lr_send_messages` and in CMD_READ_ALL_LR_MESSAGES.

| Action | Code |
|---|---|
| `StoreOutgoing`, `StoreIncoming` | MB_MSG_STORE for the two stores |
| `StartRound`, `SendMessage` | `prv_lr_send_messages`, `lr_messaging_send_outgoing_msg` |
| `ReadAll`, `ReadMessage` | CMD_READ_ALL_LR_MESSAGES |
| `Deliver`, `Link`, `SetCount` | the main thread, the phone, a new setting |

### Run

`lr_messaging`: stores of 3, retry counts 1 to 3, two sequence numbers of received
messages, `main_que` of 2, six events: `LeavesAfterRetries`, `RoundSendsEach`,
`UnreadCounted`. Six events store three messages, change the setting twice and
repeat a message. The code removes the first message of the store after a last
repetition, with the comment that it must be the one sent last: this proves
true even when the setting changes in the middle of a round.

Slots is a bound of the model and not a check of the code (see Known
divergences). There is no fairness: when rounds are sent is up to timers.

### Proofs

`LrMessaging_proofs` proves, for stores and queues of any size, any retry counts
and any number of messages, from `MessagingAssumption` (5 slots are fewer than
46, the length the store is compared with),

* `TypeCorrect`: `Spec => []TypeOK`,
* `RoundCorrect`: `Spec => []RoundSendsEach`,
* `UnreadCorrect`: `Spec => []UnreadCounted`,
* `LeavesCorrect`: `Spec => LeavesAfterRetries`.

None is inductive alone. `RoundFollows` says that in a round the store holds the
last of the messages it began with and that `send_idx` points at the first of
them not yet sent. `OldestMost` says that older messages have been sent at least
as often as newer ones, and once more when only they have had their turn: this is
why the first of the store is the one to remove, and it survives a change of the
setting because a removal moves the whole order down. For the received messages
`InOrder` follows their arrival from the store over `main_que` to the phone,
`NoTwice` keeps their numbers apart, and `Counted` and `ReadsAll` tie `n_mes` and
the read to the length of the store. Nothing here is only model-checked.

## BtCmdq

### State and correspondence

Five threads work at the search for a heart monitor: the communication thread
switches it (`comm`, `on`), two timers submit two work items to the system work
queue (`scanTimer`, `stopTimer`, `work`, `at`), the receiving thread of the stack
collects results (`rx`, `buf`, `count`), and the thread of the Bluetooth module
sends them, scans for other devices and switches the advertisement (`ble`). What
the stack does is in `scanning`, `adv` and `linked`.

| Action | Code |
|---|---|
| `SetCmdq`, `CommThread` | `handle_bt_cmdq`, `bt_cmdq_start_operation`, `bt_cmdq_stop_operation` |
| `ScanTimerFires`, `StopTimerFires` | `prv_scan_timer_cb`, `prv_scan_stop_timer_cb` |
| `WorkQueue` | `prv_work_scan_start_handler`, `prv_work_scan_stop_handler`, split where they call the stack |
| `Heard`, `RxThread` | `prv_scan_cb` and the saving of a result |
| `Compose`, `Leftover`, `CopyOne`, `ClearRest`, `Removed` | sending the results, and `prv_reorder_and_clean_results_buffer` |
| `SingleScan`, `SingleEnds` | `bt_scan` |
| `SetAdv`, `SetInterval`, `Connects`, `Disconnects` | settings and the phone |

Types of scan differ in durations, which are left out.

### Run

`bt_cmdq`: a buffer of 3, one result to a message, four events or failures of any
kind, under `FairSpec`: `ResultsKept`, `AdvertisesAsSet`, `SearchGoesOn`,
`ScanEnds`. A message with room for one of three results makes the code move
what is left while another result arrives. Fairness: timers expire and each
thread goes on with what it has begun. Deadlock is not checked: a search that
is off does nothing.

The properties except what the code gives up. Three early returns of
`prv_work_scan_start_handler` (`bt_cmdq.c:286-303`) end the search for good, and
so does Bluetooth that does not start, which leaves `prv_cmdq_scan_enabled` set
(`bt_cmdq.c:406`). A scan switches the advertisement on even when `ble_adv` is
off. Results saved while others are removed are lost. Disabling does not stop
`scan_timer`, so that one more scan may begin. A single scan that ends stops the
scan of the search.

### Proofs

`BtCmdq_proofs` proves, for buffers and messages of any size and any number of
inputs and faults, from `CmdqAssumption`,

* `TypeCorrect`: `Spec => []TypeOK`,
* `AdvertisementCorrect`: `Spec => []AdvertisesAsSet`,
* `ResultsCorrect`: `Spec => []ResultsKept`.

`AdvFollows` is the advertisement's invariant away from rest: either it is as set,
or a work item, a timer or the work queue itself will still restart it, or the
stack refused. For the results the invariant describes the buffer while it is
sent and cleaned in three passes: what has not been sent lies at the places up to
`Front` and from `Rear` on (`Live`), ascending and above all that was sent
(`InOrder`); as long as no result came during a removal, what was sent and what
is live make up a stretch without a gap (`Complete`). `Phases` bounds the indices
of the three loops by the present count, which `rx` may raise between any two of
their steps. Only model-checked: `SearchGoesOn` and `ScanEnds`, which are liveness.

## Satellite

### State and correspondence

The satellite thread gathers messages in `sat_buf` and sends them through an
Iridium modem, in sessions that may also fetch a message for the device.

| Variable | Code |
|---|---|
| `que` | `satellite_que`: a put on a full queue purges it |
| `buf` | `sat_buf`: for each message in it a number and a size |
| `enabled`, `retry` | the settings `satellite_enabled`, `satellite_retry` |
| `sat` | where the thread is in `satellite_send_buffer` (`at`), and its local variables: tries, messages received, whether more wait |
| `modem` | the messages the modem holds, whether one was fetched, how often it was handed on |
| `gateway` | the sessions that reached the gateway, each a sequence of messages |
| `hist`, `left` | history: messages posted, lost on purpose, of which the modem took no copy, of which it may keep one; the bound |

| Action | Code |
|---|---|
| `AddMessage`, `StartSend`, `Test` | the commands of `satellite_handle_commands` |
| `SwitchOn`, `Write` | `satellite_check_communication`, `satellite_configure_port`, `satellite_queue_bytes_message` |
| `Sent`, `SessionFails`, `SessionSucceeds` | `satellite_try_extended_sbd_session` and its retries |
| `Receive` | `satellite_receive` |
| `SwitchOff` | `satellite_disable` |
| `PostMessage`, `PostSend`, `SetEnabled`, `SetRetry` | other threads and commands |

The modem is external. Each answer of it that the code waits for may be missing,
whether or not the modem did what it was told; a session may reach the gateway
and its answer not the device. Between a message and the next the modem keeps
what it was given. Sizes are units of a buffer of `Cap`.

### Runs

| Run | Configuration | Shows |
|---|---|---|
| `satellite` | a buffer of 4, sizes 1, 2 and 4, `satellite_que` of 2, one or two retries, three messages read at most, five events or faults | `NothingLost`, `OnceAtGateway`, `ExecutedOnce`, `SendEnds` |
| `satellite_write` | no messages for the device | `ClearedIsSent` is violated |

Sizes 1, 2 and 4 let one message displace several and several fit a place left
by one. Five events send a message that was displaced by another through a
session that fails once. Fairness: the thread goes on with what it has begun,
since each wait for the modem has a time limit. The properties hold of sessions
without end: `Receives` bounds what the code reads, not what the gateway has.
Deadlock is not checked: with nothing to send the thread waits.

### Finding

`satellite_queue_bytes_message` returns `-EIO`, which as a `bool` is true. A
message that the modem did not take is followed by an empty session, and the
success of it clears the buffer (`satellite_write`).

### Proofs

`Satellite_proofs` proves, from `SatelliteAssumption` alone,

* `SatelliteTypes`: `Spec => []TypeOK`,
* `NoneLost`: `Spec => []NothingLost`,
* `OnceInOrder`: `Spec => []OnceAtGateway`,
* `HandedAtMostOnce`: `Spec => []ExecutedOnce`.

Beside these the invariant says that the modem holds nothing that is not in the
buffer except copies of what may be sent again (`ModemFollows`), that numbers are
given out in turn (`Counted`), and that the gateway, the buffer and the queue
hold messages in the order of their numbers (`InOrder`). `SendEnds` is only
model-checked.

## Intervals and GpsFix

### State and correspondence

`Intervals` is the choice between the two intervals of a day, which exists three
times in the code, as operators on an hour and two starts. `Selected` is the
reference definition: the interval that started last. `GpsFix` uses it and models
when the u-blox receiver is switched on and a fix is tried.

| Variable | Code |
|---|---|
| `set` | `ublox_send_interval`, `ublox_send_interval_2`, `ublox_active_tracking`, and the settings that say what motion is good for (`mode`) |
| `day` | the hour, `ublox_multiple_intervals`, and the starts of the two intervals |
| `ctx` | `prv_ctx`; `failed` is history: fixes that failed since a success or a reset |
| `pin` | power of the receiver and of its backup memory (`gpio_dev_vbck`) |
| `clock` | time since the last try, and whether there was one |
| `motion` | times since the last motions, and `prv_gps_motion_get_fix` |
| `what`, `left` | history: whether the last step tried a fix, and why; the bound |

| Action | Code |
|---|---|
| `GpsReset`, `CommandFix`, `GpsStop`, `InitGpsModule` | CMD_RESET_GPS, CMD_GET_UBLOX_FIX, the operation modes of the communication thread |
| `Settings` | new settings |
| `handle_ublox_gps` | `gps_send_interval`, in its order: active tracking, giving up (`GivesUp`), counted motions (`MotionFix`), the interval (`Periodic`), with `gps_get_fix` where it says so |
| `Motion` | `gps_motion_triggered_event_handler`, in a thread of its own |
| `Tick`, `HourPasses` | time |

Abstractions: a fix is one step, because only the communication thread touches
`prv_ctx`; whether it succeeds, and whether the last one is too old for a hot
fix, is open. The retry settings are constants. A command for a fix of a device
that is disabled initializes it, as `init_gps_module` does. The second look at
`prv_gps_motion_get_fix` (`gps.c:992`) is folded into the first.
CONFIG_OUTDOOR_DETECTION is off, and the board has an accelerometer. Whether
the last motion looks recent is left open in mode `skip`, because the code
compares times in different units (see Known divergences).

### Run

`gps_fix`: one hot and one cold retry, send intervals of 0 and 1 that are corrected
to a minimum of 2, a day of three hours in which interval 1 starts at two and
interval 2 at one, or both at one, a fix after two motions or after two intervals without one,
two commands or changes of settings of any kind, under `FairSpec`: `TriesEnd`,
`HotHasData`, `GpsAsDescribed`, `MotionServed`, `FixesGoOn`. An interval of 0 is
off; one below the minimum is corrected; a maximum above the minimum leaves
room for one step of the backoff. Two commands are enough to reset in the middle
of retries or to change the mode with a request pending. Other starts are left to the proof.
Fairness: the communication thread goes round
(`handle_ublox_gps`), and time passes (`Tick`); motions, hours and commands are
not fair. Deadlock is checked.

`FixesGoOn` excepts a motionless device with two intervals: a change of interval
resets the count of skipped fixes, so that hours that change often enough
postpone the next fix for ever.

### Proofs

`Position_proofs`, which also holds the proofs about `LrScan`, first proves that the comparisons of `gps.c` select what
`Selected` says for a day of any length (`GpsSelects`), and that those of `vhf.c`
and `satellite.c` do when the two intervals start at different hours
(`VhfSelects`). Then it proves, for any retries, periods, motions and hours, from
`HoursAssumption`, `CountsAssumption`, `PeriodsAssumption` and `InputsAssumption`,

* `TypeCorrect`: `Spec => []TypeOK`,
* `TriesAreLimited`: `Spec => []TriesEnd`,
* `HotFixHasData`: `Spec => []HotHasData`,
* `OffUnlessTracking`: `Spec => []OffBetweenFixes`,
* `MotionsFit`: `Spec => []AgesFit`,
* `IntervalFollowed`: `Spec => []GpsAsDescribed`.

`TriesEnd` is not inductive: `Sound` adds that each failure is counted by one of
the two counters of retries, that a hot fix is due only while it has a try left,
and that a receiver that has not given up has a cold one. `FreshSound`,
`ColdSound`, `HotSound` and `RecordSound` say that the parts of the code that
write `prv_ctx` keep it sound, `FixSound` that a whole fix does. `Few` says that
fewer motions are kept than it takes for a fix. Only model-checked: the two
liveness properties.

## Known divergences

Where the code departs from what one would expect of it, without a run of its
own; a document that states the opposite is named. The properties above leave
them out.

* The five NVS records of the log are not written together. A power cut inside
  `prv_go_to_next_block` or `prv_write_buffer_to_flash` can leave an offset of the
  new block with the space left of the old one. The next block then starts off an
  erase boundary, its erasure is refused, and a boot can end with the log
  disabled.
* After a refused write at the end of a block the new message stays in a buffer
  for which the block has no room left. The next message then leaves two blocks
  at once, one for the buffer (`flash_interface.c:909`) and one for itself
  (`flash_interface.c:999`), and may give up the oldest block one earlier.
* `prv_go_to_next_block` moves the start before it counts the messages that it is
  about to erase, and so counts those of the block that stays: from the second
  lap on the counter of messages may be off (`flash_interface.c:867`).
* The number of messages falls by most of a block when a store reclaims one. A
  CONTINUE of CMD_FLASH_GET_ALL that was to start above the number that is left
  then corrects what remains to `count - start` (`flash_interface.c:1569`), which
  wraps around below zero and, once new messages have brought the count up
  again, is as little as one message: the command is answered with success after
  its next batch. It takes a block of three messages or more, a transfer that
  finds `event_que` busy, and stores in between.
* The number of messages in a CONTINUE does not travel whole.
  FLASH_READ_CONTINUE_MSG_LEN is 12 (`flash_interface.c:55`), and the number is at
  bytes 10 to 13 (`flash_interface.c:52`), as four bytes after the comment at
  `flash_interface.c:1532`. The queue copies 12 (`thread_com.c:30`,
  `thread_com.c:168`). A stored message of 14 bytes or more that is handled before
  the CONTINUE leaves its own bytes 12 and 13 there: the number is then larger
  than the count, is replaced by `count - start` (`flash_interface.c:1570`), and a
  transfer of which one batch reads as many as that is confirmed with success
  while almost all of the log was not sent.
* A read command may never be confirmed, against `settings/README.md:508`. What is
  left of it waits as a CONTINUE in `flash_que`, and messages to store that fill
  this queue of four while the flash thread is busy purge it (`thread_com.c:60`).
  The same happens to the confirmation in `lr_que` (`thread_com.c:54`) and, one
  event at a time, in `event_que` (`lorawan.c:400`).
* The confirm of a read command is the third event after a check that
  guaranteed two slots of `event_que`, and may displace a payload
  (`flash_interface.c:494`).
* A message handled while the modem is suspended goes to `msg_que`, and a resume
  does not bring it back: it waits for the next join while newer ones are sent.
* A VHF burst displaced from a full `event_que` leaves `prv_vhf_burst_queued`
  set, and no burst is posted until a reboot.
* Whether the device is joining is asked when a burst, a scan or an S-band
  message is posted, not when it is handled: jobs run during a join
  (`lorawan.c:926`).
* The capacity check of `lr_messaging` compares the number of messages with the
  length of a message (46) and not with the 5 slots of the store
  (`lr_messaging.c:117`). What happens beyond is not defined, and not modelled.
* `lp0_offload_station_discovery` does not reset `lp0_tx_rx_done_sem` as
  `lp0_offload_device_discovery_mode` does (`lp0_offload.c:553`). A "done" left by
  an earlier use of the radio ends the first watch of a station at once. The
  second is refused with -EBUSY because the reception of the first is still
  recorded, and nobody looks at the error: the station is deaf, with LoRaWAN
  suspended, while `lp0/README.md:65` has it "in a continuous RX mode, listening
  for all messages".
* After the third message that was read, one more session of the satellite modem
  fetches a fourth from the gateway, which is dropped when the modem is switched
  off (`satellite.c:810-821`).
* VHF bursts and satellite messages whose two intervals start at the same hour
  use interval 2 (`vhf.c:73`, `satellite.c:1195`), where comments (`vhf.c:58`,
  `satellite.c:1180`) and `lorawan/vhf/README.md:140` say interval 1;
  `gps.c:405` has `>=`.
* The backoff after a failed cold fix is undone: each round reads the interval
  from the settings again (`gps.c:363`), against `gps_ublox/README.md:176`.
* CMD_RESET_GPS during active tracking switches the receiver off
  (`gps.c:622`); it stays off, and all fixes fail, until tracking is switched off
  and on (`gps.c:437`), against `gps_ublox/README.md:187`.
* Whether a motion is recent is decided by subtracting a unix time in seconds
  from the time since the boot in milliseconds (`gps.c:1030`,
  `lis2dw12_sensor.c:105`), so that fixes are not skipped as
  `gps_ublox/README.md:202` describes.
* A receiver that has given up no longer notices that the interval changes
  (`gps.c:956`), so that the change does not reset it; and a change of interval
  resets the count of skipped fixes.

## Not modelled

`PROJECT.json` lists every component with its status and what is left of it.
The start-up handshake, the Bluetooth connection, the settings store and
charging are planned (see Plan). Liveness stays with TLC
everywhere: fairness and ENABLED are out of the prover's reach, and so is what
needs induction over a sequence, such as the walk through a block of the log.
Vendor code (the Semtech
stack, the u-blox driver, minmea, SEGGER), generated tables, drivers that only
move data, formatting and logging stay out.
