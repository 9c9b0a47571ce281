------------------------------ MODULE FlashLog ------------------------------
(***************************************************************************)
(* The message log of flash/flash_interface.c: a ring of erase blocks on   *)
(* the external flash, a page-sized RAM buffer in front of it, and the     *)
(* five positions that are kept both in RAM and, one NVS record each, in   *)
(* internal flash.                                                         *)
(*                                                                         *)
(* One operator per C function.  Each takes the whole device (a record)    *)
(* and returns the device it leaves.  "trail" collects the persistent      *)
(* images (external flash and NVS) the function passes through, one for    *)
(* every write: a power cut in the middle of a handler leaves the device   *)
(* with one of them.                                                       *)
(*                                                                         *)
(* The unit of size is a cell.  A message of n cells is the cells          *)
(* <<id, 1, n>> .. <<id, n, n>>: the first one holds port and length, the  *)
(* last one the timestamp.  Ids grow with every message the log is given.  *)
(***************************************************************************)
EXTENDS Naturals, Integers, Sequences, FiniteSets

CONSTANTS
    NBlocks,      \* erase blocks of the message partition
    BlockSize,    \* FLASH_BLOCK_SIZE
    PageSize,     \* FLASH_BUFFER_SIZE
    Sizes,        \* sizes of the messages other threads store
    TestSize,     \* size of the record test_flash() stores at boot
    MaxMsgs,      \* bound: ids given out
    MaxFaults,    \* bound: driver calls that fail
    FaultSites,   \* bound: the calls that may fail, a subset of Sites
    MaxCuts       \* bound: power cuts in the middle of a handler

Sites == {"write1", "write2", "flush", "erase"}

ASSUME GeometryAssumption ==
    /\ NBlocks \in Nat /\ NBlocks >= 2
    /\ BlockSize \in Nat /\ PageSize \in Nat /\ TestSize \in Nat
    /\ 2 <= PageSize /\ PageSize <= BlockSize
    /\ 2 <= TestSize /\ TestSize < PageSize
ASSUME SizesAssumption ==
    \A n \in Sizes : n \in Nat /\ 2 <= n /\ n <= BlockSize /\ n < 2 * PageSize
ASSUME BoundsAssumption ==
    /\ MaxMsgs \in Nat /\ MaxFaults \in Nat /\ MaxCuts \in Nat
    /\ FaultSites \subseteq Sites

VARIABLES
    dev,      \* the device: RAM, NVS and external flash
    power,    \* "off" | "on"
    nextId,   \* id of the next message
    faults,   \* driver calls that have failed
    cuts      \* handlers interrupted by a power cut

vars == <<dev, power, nextId, faults, cuts>>

-----------------------------------------------------------------------------
(* Cells, positions, the device                                            *)

Size    == NBlocks * BlockSize
Offsets == 0 .. Size - 1
Blocks  == {k * BlockSize : k \in 0 .. NBlocks - 1}
NoVal   == -1                      \* an NVS record that was never written

Erased == <<0, 0, 0>>
Junk   == <<0, 1, 0>>              \* a cell programmed twice
MsgCells(id, n) == [i \in 1 .. n |-> <<id, i, n>>]
Cells           == (0 .. MaxMsgs + 1) \X (0 .. BlockSize) \X (0 .. BlockSize)
IsHead(cell)    == cell[1] > 0 /\ cell[2] = 1

Keys    == {"offset", "start", "block", "left", "count"}
NoRam   == [k \in Keys |-> 0]
NoNvs   == [k \in Keys |-> NoVal]

Positions == [Keys -> Nat]
Records   == [Keys -> Nat \cup {NoVal}]
Chip      == [Offsets -> Cells]
Images    == [nvs : Records, flash : Chip]
Devices   == [ram : Positions, nvs : Records, flash : Chip, buf : Seq(Cells),
              nbuf : Nat, enabled : BOOLEAN, trail : SUBSET Images]

(* RAM is lost: static initialisers, positions still to be loaded.         *)
PoweredDown(img) ==
    [ram |-> NoRam, nvs |-> img.nvs, flash |-> img.flash, buf |-> <<>>,
     nbuf |-> 0, enabled |-> FALSE, trail |-> {}]

FactoryImage == [nvs |-> NoNvs, flash |-> [o \in Offsets |-> Erased]]

Image(d) == [nvs |-> d.nvs, flash |-> d.flash]

(* A position is set in RAM and saved in its NVS record.                   *)
Store(d, k, v) ==
    LET n == [d.nvs EXCEPT ![k] = v]
    IN  [d EXCEPT !.ram[k] = v, !.nvs = n,
                  !.trail = @ \cup {[nvs |-> n, flash |-> d.flash]}]

(* At boot a position is loaded, or set and saved when NVS has none.       *)
Load(d, k, default) ==
    IF d.nvs[k] = NoVal THEN Store(d, k, default)
    ELSE [d EXCEPT !.ram[k] = d.nvs[k]]

-----------------------------------------------------------------------------
(* The external flash: NOR cells, programmed once between erasures.  The   *)
(* driver refuses an erase that is not block aligned and any access beyond *)
(* the end of the chip.                                                    *)

EraseBlock(d, o, fail) ==
    IF fail \/ o % BlockSize # 0 \/ o + BlockSize > Size THEN d
    ELSE LET f == [p \in Offsets |-> IF o <= p /\ p < o + BlockSize
                                     THEN Erased ELSE d.flash[p]]
         IN  [d EXCEPT !.flash = f,
                       !.trail = @ \cup {[nvs |-> d.nvs, flash |-> f]}]

Programmed(flash, o, cells) ==
    [p \in Offsets |->
        IF o <= p /\ p < o + Len(cells)
        THEN IF flash[p] = Erased THEN cells[p - o + 1] ELSE Junk
        ELSE flash[p]]

(* A power cut during the write leaves a prefix of the cells programmed.   *)
WriteCells(d, o, cells) ==
    [d EXCEPT !.flash = Programmed(d.flash, o, cells),
              !.trail = @ \cup
                 {[nvs |-> d.nvs,
                   flash |-> Programmed(d.flash, o, SubSeq(cells, 1, i))]
                  : i \in 0 .. Len(cells)}]

-----------------------------------------------------------------------------
(* Reading a block: from its first cell, message after message, up to the  *)
(* write position in the current block and to the block's end in any other.*)

BlockEnd(d, b) ==
    IF b = d.ram.block THEN d.ram.offset ELSE b + BlockSize

(* The message starts the walk visits: the least set that holds b and,     *)
(* with a start, the place just after that message.                        *)
MsgStarts(d, b) ==
    LET In == b .. BlockEnd(d, b) - 1
        HeadAt(o) == o \in In /\ o \in Offsets /\ IsHead(d.flash[o])
        Closed(S) == /\ HeadAt(b) => b \in S
                     /\ \A o \in S : LET e == o + d.flash[o][3]
                                     IN  HeadAt(e) => e \in S
    IN  {o \in In : HeadAt(o) /\ \A S \in SUBSET {p \in In : HeadAt(p)} :
                                     Closed(S) => o \in S}

CompleteMsgs(d, b) ==
    {o \in MsgStarts(d, b) : o + d.flash[o][3] <= BlockEnd(d, b)}

NrMsgInBlock(d, b) == Cardinality(CompleteMsgs(d, b))

-----------------------------------------------------------------------------
(* Moving to the next block                                                *)

NextBlock(b) == IF b + BlockSize >= Size THEN 0 ELSE b + BlockSize

(* The counter is corrected by what is in the block the start is at now.   *)
Discount(s) ==
    LET N == NrMsgInBlock(s, s.ram.start)
    IN  IF N <= s.ram.count THEN Store(s, "count", s.ram.count - N) ELSE s

ReclaimOldest(d) == Discount(Store(d, "start", NextBlock(d.ram.start)))

(* Faulty variant: the start moves whenever a block is entered.            *)
MoveStartAlways(d, next) == ReclaimOldest(d)

(* The ring is full when the block about to be erased is the oldest one.   *)
MoveStart(d, next) == IF d.ram.start = next THEN ReclaimOldest(d) ELSE d

(* Faulty variant: the space left is not reset for the new block.          *)
EnterBlockStaleLeft(d, next, fail) ==
    EraseBlock(MoveStart(Store(Store(d, "offset", next), "block", next), next),
               next, fail)

(* Faulty variant: the new block is not erased.                            *)
EnterBlockUnerased(d, next, fail) ==
    Store(MoveStart(Store(Store(d, "offset", next), "block", next), next),
          "left", BlockSize)

EnterBlock(d, next, fail) ==
    Store(EraseBlock(MoveStart(Store(Store(d, "offset", next), "block", next),
                               next),
                     next, fail),
          "left", BlockSize)

EndOfBlock(d) ==
    IF d.ram.offset + d.ram.left >= Size THEN 0 ELSE d.ram.offset + d.ram.left

GoToNextBlock(d, F) ==
    IF d.enabled THEN EnterBlock(d, EndOfBlock(d), "erase" \in F) ELSE d

-----------------------------------------------------------------------------
(* Writing.  A function that can fail returns the device and "err".        *)

(* The positions after n more cells, which complete d.nbuf messages.       *)
Advance(d, n) ==
    Store(Store(Store(d, "offset", d.ram.offset + n), "left", d.ram.left - n),
          "count", d.ram.count + d.nbuf)

NoBuffer(d) == [d EXCEPT !.buf = <<>>, !.nbuf = 0]

(* Faulty variant: the buffer is not reset after it was written.           *)
WriteOutKeepsBuffer(d, works) ==
    LET ok == works /\ d.ram.offset + Len(d.buf) <= Size
        w  == Advance(WriteCells(d, d.ram.offset, d.buf), Len(d.buf))
    IN  [dev |-> IF ok THEN w ELSE d, err |-> ~ok]

(* The buffer is forgotten whether or not the write succeeds.              *)
WriteOut(d, works) ==
    LET ok == works /\ d.ram.offset + Len(d.buf) <= Size
        w  == Advance(WriteCells(d, d.ram.offset, d.buf), Len(d.buf))
    IN  [dev |-> NoBuffer(IF ok THEN w ELSE d), err |-> ~ok]

WriteBufferToFlash(d, site, F) ==
    IF d.enabled
    THEN WriteOut(IF Len(d.buf) > d.ram.left THEN GoToNextBlock(d, F) ELSE d,
                  site \notin F)
    ELSE [dev |-> d, err |-> TRUE]

(* After a refused write the current block is kept.                        *)
LeaveBlock(w, F) == IF w.err THEN w.dev ELSE GoToNextBlock(w.dev, F)

(* Faulty variant: the buffer is dropped, not written, at a block's end.   *)
MakeRoomDropping(d, n, F) ==
    IF Len(d.buf) + n > d.ram.left THEN GoToNextBlock(NoBuffer(d), F)
    ELSE IF Len(d.buf) + n > PageSize
         THEN WriteBufferToFlash(d, "write1", F).dev
         ELSE d

(* Room is made in the block, or in the buffer.                            *)
MakeRoom(d, n, F) ==
    IF Len(d.buf) + n > d.ram.left
    THEN LeaveBlock(WriteBufferToFlash(d, "write1", F), F)
    ELSE IF Len(d.buf) + n > PageSize
         THEN WriteBufferToFlash(d, "write1", F).dev
         ELSE d

Buffered(d, cells) == [d EXCEPT !.buf = cells, !.nbuf = @ + 1]

(* A write that fails inside the byte loop ends the loop.                  *)
KeepRest(w, rest) ==
    IF w.err THEN w ELSE [dev |-> Buffered(w.dev, rest), err |-> FALSE]

(* The byte loop flushes when the buffer is exactly full; n < 2 * PageSize *)
(* makes that happen at most once per message.                             *)
AddCells(d, all, F) ==
    IF Len(all) < PageSize
    THEN [dev |-> Buffered(d, all), err |-> FALSE]
    ELSE KeepRest(WriteBufferToFlash([d EXCEPT !.buf = SubSeq(all, 1, PageSize)],
                                     "write2", F),
                  SubSeq(all, PageSize + 1, Len(all)))

AddMessage(d, cells, F) == AddCells(d, d.buf \o cells, F)

StoreMessage(d, id, n, F) ==
    IF d.enabled THEN AddMessage(MakeRoom(d, n, F), MsgCells(id, n), F)
    ELSE [dev |-> d, err |-> TRUE]

ClearFlashData(d, F) ==
    IF ~d.enabled THEN d
    ELSE LET a == Store(Store(d, "offset", 0), "start", 0)
             b == Store(Store(a, "left", BlockSize), "block", 0)
         IN  NoBuffer(EraseBlock(Store(b, "count", 0), 0, "erase" \in F))

-----------------------------------------------------------------------------
(* Booting                                                                 *)

(* The record just written is read back; its timestamp is not compared.    *)
ReadsBack(d, id) ==
    LET o == d.ram.offset - TestSize
    IN  \A i \in 1 .. TestSize - 1 :
            o + i - 1 \in Offsets /\ d.flash[o + i - 1] = <<id, i, TestSize>>

Compared(w, id) == [dev |-> w.dev, err |-> w.err \/ ~ReadsBack(w.dev, id)]

FlushAndCompare(s, id, F) ==
    IF s.err THEN s ELSE Compared(WriteBufferToFlash(s.dev, "flush", F), id)

TestFlash(d, id, F) ==
    FlushAndCompare(StoreMessage(d, id, TestSize, F), id, F)

(* A missing start record resets the write position, not the start.        *)
LoadStart(d) ==
    IF d.nvs.start = NoVal
    THEN Store([d EXCEPT !.ram.offset = 0], "start", d.ram.start)
    ELSE Load(d, "start", 0)

EraseFirst(d, fail) ==
    IF d.ram.offset = 0 THEN [EraseBlock(d, 0, fail) EXCEPT !.enabled = ~fail]
    ELSE d

LeaveFullPartition(d, F) ==
    IF d.ram.offset >= Size THEN GoToNextBlock(d, F) ELSE d

LoadPositions(d, F) ==
    LET a == LoadStart(Load([d EXCEPT !.enabled = TRUE], "offset", 0))
        b == EraseFirst(a, "erase" \in F)
        c == Load(Load(b, "left", BlockSize), "block", 0)
    IN  Load(NoBuffer(LeaveFullPartition(c, F)), "count", 0)

DisabledOnError(t) == [t.dev EXCEPT !.enabled = @ /\ ~t.err]

(* The second attempt, in the next block.                                  *)
Retry(t, id, G) ==
    IF t.err THEN DisabledOnError(TestFlash(GoToNextBlock(t.dev, G), id, G))
    ELSE t.dev

(* F and G are the faults of the first and of the second attempt.          *)
InitFlash(d, id, F, G) ==
    Retry(TestFlash(LoadPositions(d, F), id, F), id + 1, G)

-----------------------------------------------------------------------------
(* Steps                                                                   *)

FaultSets == {F \in SUBSET FaultSites : faults + Cardinality(F) <= MaxFaults}
Failed(n) == faults' = faults + n

Init ==
    /\ dev = PoweredDown(FactoryImage)
    /\ power = "off"
    /\ nextId = 1 /\ faults = 0 /\ cuts = 0

(* A handler runs to its end ...                                           *)
Completed(d) ==
    /\ dev' = [d EXCEPT !.trail = {}]
    /\ power' = "on"
    /\ UNCHANGED cuts

(* ... or the power fails just after one of its writes.                    *)
CutDuring(d) ==
    /\ cuts < MaxCuts
    /\ \E img \in d.trail : dev' = PoweredDown(img)
    /\ power' = "off"
    /\ cuts' = cuts + 1

(* init_flash() in the flash thread's initialisation.                      *)
BootTo(Ends(_)) ==
    /\ power = "off"
    /\ nextId + 1 <= MaxMsgs
    /\ \E F, G \in FaultSets :
          /\ faults + Cardinality(F) + Cardinality(G) <= MaxFaults
          /\ Failed(Cardinality(F) + Cardinality(G))
          /\ Ends(InitFlash(dev, nextId, F, G))
    /\ nextId' = nextId + 2

(* MB_MSG_STORE, and the status message the thread stores by itself.       *)
StoreTo(Ends(_)) ==
    /\ power = "on"
    /\ nextId <= MaxMsgs
    /\ \E n \in Sizes, F \in FaultSets :
          /\ Failed(Cardinality(F))
          /\ Ends(StoreMessage(dev, nextId, n, F).dev)
    /\ nextId' = nextId + 1

(* Every command that reads the log first writes the buffer out.           *)
ReadTo(Ends(_)) ==
    /\ power = "on"
    /\ \E F \in FaultSets :
          /\ Failed(Cardinality(F))
          /\ Ends(WriteBufferToFlash(dev, "flush", F).dev)
    /\ UNCHANGED nextId

(* CMD_FLASH_CLEAR                                                         *)
ClearTo(Ends(_)) ==
    /\ power = "on"
    /\ \E F \in FaultSets :
          /\ Failed(Cardinality(F))
          /\ Ends(ClearFlashData(dev, F))
    /\ UNCHANGED nextId

Boot  == BootTo(Completed)
StoreMsg == StoreTo(Completed)
Read  == ReadTo(Completed)
Clear == ClearTo(Completed)

(* CMD_DISABLE_FLASH_TH                                                    *)
Disable ==
    /\ power = "on" /\ dev.enabled
    /\ dev' = [dev EXCEPT !.enabled = FALSE]
    /\ UNCHANGED <<power, nextId, faults, cuts>>

(* Reset or power loss while no handler runs: the buffer is lost.          *)
PowerOff ==
    /\ power = "on"
    /\ dev' = PoweredDown(Image(dev))
    /\ power' = "off"
    /\ UNCHANGED <<nextId, faults, cuts>>

Next == Boot \/ StoreMsg \/ Read \/ Clear \/ Disable \/ PowerOff

Spec == Init /\ [][Next]_vars

(* The same log when the power may also fail inside a handler.             *)
Cut == \/ BootTo(CutDuring)  \/ StoreTo(CutDuring)
       \/ ReadTo(CutDuring)  \/ ClearTo(CutDuring)

CutSpec == Init /\ [][Next \/ Cut]_vars

-----------------------------------------------------------------------------
(* What a reader finds                                                     *)

(* The device as the code would see it, positions loaded from NVS when the *)
(* power is off.                                                           *)
SeenOf(d, p) == IF p = "on" THEN d ELSE [d EXCEPT !.ram = d.nvs]
IsFresh(d, p) == p = "off" /\ d.nvs = NoNvs

Seen  == SeenOf(dev, power)
Fresh == IsFresh(dev, power)

LogBlocks(d) ==
    {(d.ram.start + k * BlockSize) % Size :
        k \in 0 .. ((d.ram.block - d.ram.start) % Size) \div BlockSize}

(* The complete messages of the log, and how far behind the start a walk   *)
(* through the blocks finds the one at o.                                  *)
Starts(d)    == UNION {CompleteMsgs(d, b) : b \in LogBlocks(d)}
Walked(d, o) == (o - d.ram.start) % Size

RetainedIn(d, p) ==
    IF IsFresh(d, p) THEN {}
    ELSE {d.flash[o][1] : o \in Starts(SeenOf(d, p))}

(* The messages whose last cell is still in the buffer.                    *)
PendingIn(d) ==
    {d.buf[i][1] : i \in {j \in 1 .. Len(d.buf) : d.buf[j][2] = d.buf[j][3]}}

-----------------------------------------------------------------------------
(* Properties                                                              *)

(* Every variable keeps its shape; the buffer never holds a full page      *)
(* between two handlers (prv_add_byte_to_buffer flushes it).               *)
TypeOK ==
    /\ power \in {"off", "on"}
    /\ nextId \in 1 .. MaxMsgs + 1
    /\ faults \in Nat /\ cuts \in Nat
    /\ dev \in Devices /\ Len(dev.buf) < PageSize /\ dev.trail = {}

(* The positions agree with each other, whatever the sequence of stores,   *)
(* wraps, clears, resets and failed flash accesses that led here: the      *)
(* write position is in the current block, and prv_left_block_size is the  *)
(* rest of that block.                                                     *)
Consistent(p) ==
    /\ p.block \in Blocks /\ p.start \in Blocks
    /\ p.offset \in p.block .. p.block + BlockSize
    /\ p.left = p.block + BlockSize - p.offset

(* ... and NVS holds what RAM holds, so that a reset finds the same log.   *)
Geometry ==
    /\ power = "on" => Consistent(dev.ram) /\ dev.nvs = dev.ram
    /\ power = "off" => dev.nvs = NoNvs \/ Consistent(dev.nvs)

(* The oldest block is the one after the current block as soon as the ring *)
(* has been full once: go_to_next_block gives up one block at a time, even *)
(* when it is called twice in a row.                                       *)
StartFollows(p) == p.start = 0 \/ p.start = NextBlock(p.block)

OneBlockReclaimed == ~Fresh => StartFollows(Seen.ram)

(* No cell is programmed twice between two erasures: what is written       *)
(* always lands on erased flash, after wraps, clears and resets too.       *)
NoOverwrite == \A o \in Offsets : dev.flash[o] # Junk

(* A boot during which no flash access fails ends with the log in use:     *)
(* flash_interface.h, init_flash: "Read current writing position from      *)
(* internal memory and clear next block if required."                      *)
BootSucceeds ==
    [][(power = "off" /\ power' = "on" /\ faults' = faults) => dev'.enabled]_vars

(* A reader who walks through the blocks from the start finds every        *)
(* message once, in the order in which they were stored.                   *)
InOrder ==
    ~Fresh => \A o, w \in Starts(Seen) :
                 Walked(Seen, o) < Walked(Seen, w)
                    => dev.flash[o][1] < dev.flash[w][1]

Abs == INSTANCE FlashLogAbs WITH log  <- RetainedIn(dev, power),
                                 pend <- PendingIn(dev),
                                 next <- nextId

(* The log keeps the promises of FlashLogAbs, in this order.               *)
Implements == Abs!Spec /\ []InOrder

(* Between two resets, and as long as no flash access fails, a message     *)
(* that was stored leaves the log only by CMD_FLASH_CLEAR, or through the  *)
(* old end of the log in a step that moves the start; and the start moves  *)
(* only once the ring has no free block left.                              *)
LossOnlyByFault ==
    [][(power = "on" /\ power' = "on" /\ faults' = faults /\ dev.enabled)
          => \/ Abs!Clear
             \/ /\ Abs!Keep
                /\ dev.ram.start = dev'.ram.start =>
                      RetainedIn(dev, power) \subseteq RetainedIn(dev', power')
                /\ dev.ram.start # dev'.ram.start =>
                      dev'.ram.start = NextBlock(dev'.ram.block)]_vars

(* In the first lap of the ring, a power cut inside a handler other than   *)
(* CMD_FLASH_CLEAR leaves every message that was on flash where a reader   *)
(* finds it; as long as no write is refused that makes room for a message, *)
(* after which prv_flash_store_message may leave two blocks at once.       *)
FirstLapCutKeepsLog ==
    [][(/\ cuts = 0 /\ cuts' = 1 /\ power = "on"
        /\ dev.ram.start = 0 /\ dev.ram.block + BlockSize < Size
        /\ (StoreTo(CutDuring) \/ ReadTo(CutDuring)))
          => RetainedIn(dev, power) \subseteq RetainedIn(dev', power')]_vars
=============================================================================
