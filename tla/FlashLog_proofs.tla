--------------------------- MODULE FlashLog_proofs ---------------------------
(***************************************************************************)
(* Proofs about FlashLog for every value of its constants: however many    *)
(* blocks, whatever their size, the page's and the messages', and however  *)
(* many flash accesses fail.                                               *)
(***************************************************************************)
EXTENDS FlashLog, FiniteSetTheorems, WellFoundedInduction, TLAPS

-----------------------------------------------------------------------------
(* Arithmetic of block positions                                           *)

(* A block lies within the partition, and the next one is a block.         *)
LEMMA BlockArithmetic ==
    /\ Size \in Nat /\ 0 \in Blocks
    /\ \A b \in Blocks : /\ b \in Nat /\ b \in Offsets
                         /\ b + BlockSize <= Size
                         /\ b + BlockSize < Size => b + BlockSize \in Blocks
                         /\ NextBlock(b) \in Blocks
                         /\ b % BlockSize = 0
<1> USE GeometryAssumption
<1>1. Size \in Nat
  BY DEF Size
<1>2. 0 \in Blocks
  <2>1. 0 \in 0 .. NBlocks - 1 /\ 0 * BlockSize = 0
    OBVIOUS
  <2> QED BY <2>1 DEF Blocks
<1>3. ASSUME NEW b \in Blocks
      PROVE  /\ b \in Nat /\ b \in Offsets
             /\ b + BlockSize <= Size
             /\ b + BlockSize < Size => b + BlockSize \in Blocks
             /\ NextBlock(b) \in Blocks
             /\ b % BlockSize = 0
  <2>1. PICK k \in 0 .. NBlocks - 1 : b = k * BlockSize
    BY DEF Blocks
  <2>2. b \in Nat
    BY <2>1
  <2>3. b + BlockSize = (k + 1) * BlockSize
    BY <2>1
  <2>4. (k + 1) * BlockSize <= NBlocks * BlockSize
    <3>1. PICK j \in Nat : NBlocks = k + 1 + j
      <4>1. NBlocks - (k + 1) \in Nat /\ NBlocks = k + 1 + (NBlocks - (k + 1))
        OBVIOUS
      <4> QED BY <4>1
    <3>2. NBlocks * BlockSize = (k + 1) * BlockSize + j * BlockSize
      BY <3>1
    <3>3. j * BlockSize \in Nat
      BY <3>1
    <3> QED BY <3>2, <3>3
  <2>5. b + BlockSize <= Size
    BY <2>3, <2>4 DEF Size
  <2>6. ASSUME b + BlockSize < Size PROVE b + BlockSize \in Blocks
    <3>1. k + 1 # NBlocks
      BY <2>3, <2>6 DEF Size
    <3>2. k + 1 \in 0 .. NBlocks - 1
      BY <3>1
    <3> QED BY <2>3, <3>2 DEF Blocks
  <2>7. NextBlock(b) \in Blocks
    BY <1>1, <1>2, <2>2, <2>6 DEF NextBlock
  <2>8. b \in Offsets
    BY <1>1, <2>2, <2>5 DEF Offsets
  <2>9. b % BlockSize = 0
    <3> DEFINE q == b \div BlockSize
               m == b % BlockSize
    <3>1. q \in Int /\ m \in 0 .. BlockSize - 1 /\ b = BlockSize * q + m
      BY <2>2
    <3> HIDE DEF q, m
    <3>2. m = BlockSize * (k - q) /\ k - q \in Int
      BY <2>1, <3>1
    <3>3. ~(k - q >= 1)
      <4>1. ASSUME k - q >= 1 PROVE FALSE
        <5>1. BlockSize * (k - q) >= BlockSize
          BY <3>1, <4>1
        <5> QED BY <3>1, <3>2, <5>1
      <4> QED BY <4>1
    <3>4. ~(k - q <= -1)
      <4>1. ASSUME k - q <= -1 PROVE FALSE
        <5>1. BlockSize * (k - q) <= -BlockSize
          BY <3>1, <4>1
        <5> QED BY <3>1, <3>2, <5>1
      <4> QED BY <4>1
    <3>5. k - q = 0
      BY <3>1, <3>2, <3>3, <3>4
    <3>6. m = 0
      BY <3>2, <3>5
    <3> QED BY <3>6 DEF m
  <2> QED BY <2>2, <2>5, <2>6, <2>7, <2>8, <2>9
<1> QED BY <1>1, <1>2, <1>3

-----------------------------------------------------------------------------
(* What the primitives do to a device                                      *)

(* Store sets one position, the same in RAM and in NVS.                    *)
LEMMA StoreLemma ==
    ASSUME NEW d \in Devices, NEW k \in Keys, NEW v \in Nat
    PROVE  /\ Store(d, k, v) \in Devices
           /\ Store(d, k, v).ram = [d.ram EXCEPT ![k] = v]
           /\ Store(d, k, v).nvs = [d.nvs EXCEPT ![k] = v]
           /\ Store(d, k, v).flash = d.flash
           /\ Store(d, k, v).buf = d.buf
           /\ Store(d, k, v).nbuf = d.nbuf
           /\ Store(d, k, v).enabled = d.enabled
<1> DEFINE n == [d.nvs EXCEPT ![k] = v]
           i == [nvs |-> n, flash |-> d.flash]
<1>1. n \in Records /\ [d.ram EXCEPT ![k] = v] \in Positions
  BY DEF Devices, Records, Positions
<1>2. i \in Images
  BY <1>1 DEF Devices, Images
<1>3. d.trail \cup {i} \in SUBSET Images
  BY <1>2 DEF Devices
<1> HIDE DEF n, i
<1>4. Store(d, k, v) = [d EXCEPT !.ram[k] = v, !.nvs = n, !.trail = @ \cup {i}]
  BY DEF Store, n, i
<1> QED BY <1>1, <1>3, <1>4 DEF Devices, n

(* The flash after the block at o was erased.                              *)
BlockErased(flash, o) ==
    [p \in Offsets |-> IF o <= p /\ p < o + BlockSize THEN Erased ELSE flash[p]]

(* Erasing changes cells only, and a block of the partition can be erased. *)
LEMMA EraseLemma ==
    ASSUME NEW d \in Devices, NEW o, NEW fail
    PROVE  /\ EraseBlock(d, o, fail) \in Devices
           /\ EraseBlock(d, o, fail).ram = d.ram
           /\ EraseBlock(d, o, fail).nvs = d.nvs
           /\ EraseBlock(d, o, fail).buf = d.buf
           /\ EraseBlock(d, o, fail).nbuf = d.nbuf
           /\ EraseBlock(d, o, fail).enabled = d.enabled
           /\ ~fail /\ o \in Blocks =>
                 EraseBlock(d, o, fail).flash = BlockErased(d.flash, o)
<1> DEFINE f == [p \in Offsets |-> IF o <= p /\ p < o + BlockSize
                                   THEN Erased ELSE d.flash[p]]
           i == [nvs |-> d.nvs, flash |-> f]
           e == [d EXCEPT !.flash = f, !.trail = @ \cup {i}]
<1>1. f \in Chip
  <2>1. Erased \in Cells
    BY GeometryAssumption, BoundsAssumption DEF Erased, Cells
  <2>2. \A p \in Offsets : d.flash[p] \in Cells
    BY DEF Devices, Chip
  <2> QED BY <2>1, <2>2 DEF Chip
<1>2. i \in Images
  BY <1>1 DEF Devices, Images
<1>3. d.trail \cup {i} \in SUBSET Images
  BY <1>2 DEF Devices
<1> HIDE DEF f, i
<1>4. /\ e \in Devices /\ e.ram = d.ram /\ e.nvs = d.nvs /\ e.buf = d.buf
      /\ e.nbuf = d.nbuf /\ e.enabled = d.enabled /\ e.flash = f
  BY <1>1, <1>3 DEF Devices
<1>5. EraseBlock(d, o, fail) = d \/ EraseBlock(d, o, fail) = e
  BY DEF EraseBlock, f, i
<1>6. ASSUME ~fail, o \in Blocks PROVE EraseBlock(d, o, fail) = e
  <2>1. o % BlockSize = 0 /\ ~(o + BlockSize > Size)
    BY <1>6, BlockArithmetic, GeometryAssumption
  <2> QED BY <1>6, <2>1 DEF EraseBlock, f, i
<1>7. f = BlockErased(d.flash, o)
  BY DEF f, BlockErased
<1> HIDE DEF e
<1> QED BY <1>4, <1>5, <1>6, <1>7

(* Programming cells yields cells.                                         *)
LEMMA ProgrammedType ==
    ASSUME NEW flash \in Chip, NEW o \in Nat, NEW cells \in Seq(Cells)
    PROVE  Programmed(flash, o, cells) \in Chip
<1>1. Junk \in Cells
  BY GeometryAssumption, BoundsAssumption DEF Junk, Cells
<1>2. ASSUME NEW p \in Offsets, o <= p, p < o + Len(cells)
      PROVE  cells[p - o + 1] \in Cells
  <2>1. p \in Nat
    BY BlockArithmetic DEF Offsets
  <2>2. p - o + 1 \in 1 .. Len(cells)
    BY <1>2, <2>1
  <2> QED BY <2>2
<1>3. \A p \in Offsets : flash[p] \in Cells
  BY DEF Chip
<1> QED BY <1>1, <1>2, <1>3 DEF Programmed, Chip

(* Writing changes cells only.                                             *)
LEMMA WriteCellsLemma ==
    ASSUME NEW d \in Devices, NEW o \in Nat, NEW cells \in Seq(Cells)
    PROVE  /\ WriteCells(d, o, cells) \in Devices
           /\ WriteCells(d, o, cells).ram = d.ram
           /\ WriteCells(d, o, cells).nvs = d.nvs
           /\ WriteCells(d, o, cells).buf = d.buf
           /\ WriteCells(d, o, cells).nbuf = d.nbuf
           /\ WriteCells(d, o, cells).enabled = d.enabled
           /\ WriteCells(d, o, cells).flash = Programmed(d.flash, o, cells)
<1> DEFINE f == Programmed(d.flash, o, cells)
           g(i) == Programmed(d.flash, o, SubSeq(cells, 1, i))
           T == {[nvs |-> d.nvs, flash |-> g(i)] : i \in 0 .. Len(cells)}
<1>1. f \in Chip
  BY ProgrammedType DEF Devices
<1>2. \A i \in 0 .. Len(cells) : g(i) \in Chip
  <2>1. ASSUME NEW i \in 0 .. Len(cells)
        PROVE  SubSeq(cells, 1, i) \in Seq(Cells)
    OBVIOUS
  <2> QED BY <2>1, ProgrammedType DEF Devices
<1> HIDE DEF g, f
<1>3. T \in SUBSET Images
  BY <1>2 DEF Devices, Images
<1> HIDE DEF T
<1>4. d.trail \cup T \in SUBSET Images
  BY <1>3 DEF Devices
<1>5. WriteCells(d, o, cells) = [d EXCEPT !.flash = f, !.trail = @ \cup T]
  BY DEF WriteCells, f, g, T
<1>6. /\ WriteCells(d, o, cells) \in Devices
      /\ WriteCells(d, o, cells).ram = d.ram
      /\ WriteCells(d, o, cells).nvs = d.nvs
      /\ WriteCells(d, o, cells).buf = d.buf
      /\ WriteCells(d, o, cells).nbuf = d.nbuf
      /\ WriteCells(d, o, cells).enabled = d.enabled
      /\ WriteCells(d, o, cells).flash = f
  BY <1>1, <1>4, <1>5 DEF Devices
<1> QED BY <1>6 DEF f

(* The messages of a block can be counted.                                 *)
LEMMA CountType ==
    ASSUME NEW d \in Devices, NEW b \in Nat
    PROVE  NrMsgInBlock(d, b) \in Nat
<1> DEFINE e == BlockEnd(d, b) - 1
<1>1. e \in Int
  BY GeometryAssumption DEF BlockEnd, Devices, Positions, Keys
<1> HIDE DEF e
<1>2. IsFiniteSet(b .. e)
  BY <1>1, FS_Interval
<1>3. CompleteMsgs(d, b) \in SUBSET (b .. e)
  BY DEF CompleteMsgs, MsgStarts, e
<1> QED BY <1>2, <1>3, FS_Subset, FS_CardinalityType DEF NrMsgInBlock

-----------------------------------------------------------------------------
(* The invariant of a device that is switched on                           *)

(* RAM and NVS agree on the positions in K.  During the boot, the counter  *)
(* is loaded last: until then K is every key but "count".                  *)
Agree(d, K) == \A k \in K : d.nvs[k] = d.ram[k]

Sound(d, K) ==
    /\ d \in Devices
    /\ Consistent(d.ram)
    /\ StartFollows(d.ram)
    /\ Agree(d, K)
    /\ Len(d.buf) <= PageSize

(* Giving up the oldest block moves the start to the next one.             *)
LEMMA ReclaimLemma ==
    ASSUME NEW d \in Devices, d.ram.start \in Blocks, NEW K \in SUBSET Keys,
           Agree(d, K)
    PROVE  LET r == ReclaimOldest(d)
           IN  /\ r \in Devices /\ Agree(r, K)
               /\ r.ram.start = NextBlock(d.ram.start)
               /\ r.ram.offset = d.ram.offset /\ r.ram.block = d.ram.block
               /\ r.ram.left = d.ram.left
               /\ r.buf = d.buf /\ r.nbuf = d.nbuf /\ r.enabled = d.enabled
               /\ r.flash = d.flash
<1> DEFINE s == Store(d, "start", NextBlock(d.ram.start))
           N == NrMsgInBlock(s, s.ram.start)
           t == Store(s, "count", s.ram.count - N)
<1>1. "start" \in Keys /\ "count" \in Keys
  BY DEF Keys
<1>2. NextBlock(d.ram.start) \in Blocks /\ NextBlock(d.ram.start) \in Nat
  BY BlockArithmetic
<1>3. /\ s \in Devices /\ s.ram = [d.ram EXCEPT !["start"] = NextBlock(d.ram.start)]
      /\ s.nvs = [d.nvs EXCEPT !["start"] = NextBlock(d.ram.start)]
      /\ s.buf = d.buf /\ s.nbuf = d.nbuf /\ s.enabled = d.enabled
      /\ s.flash = d.flash
  BY <1>1, <1>2, StoreLemma
<1> HIDE DEF s
<1>4. s.ram.start \in Nat /\ N \in Nat /\ s.ram.count \in Nat
  <2>1. s.ram.start \in Nat /\ s.ram.count \in Nat
    BY <1>3 DEF Devices, Positions, Keys
  <2> QED BY <1>3, <2>1, CountType
<1> HIDE DEF N
<1>5. ASSUME N <= s.ram.count
      PROVE  /\ t \in Devices
             /\ t.ram = [s.ram EXCEPT !["count"] = s.ram.count - N]
             /\ t.nvs = [s.nvs EXCEPT !["count"] = s.ram.count - N]
             /\ t.buf = s.buf /\ t.nbuf = s.nbuf /\ t.enabled = s.enabled
             /\ t.flash = s.flash
  <2>1. s.ram.count - N \in Nat
    BY <1>4, <1>5
  <2> QED BY <1>1, <1>3, <2>1, StoreLemma
<1> HIDE DEF t
<1>6. ReclaimOldest(d) = IF N <= s.ram.count THEN t ELSE s
  BY DEF ReclaimOldest, Discount, s, N, t
<1>7. /\ d.ram \in Positions /\ d.nvs \in Records
      /\ s.ram \in Positions /\ s.nvs \in Records
  BY <1>3 DEF Devices
<1>8. Agree(s, K)
  BY <1>3, <1>7 DEF Agree, Positions, Records
<1>9. /\ s.ram.start = NextBlock(d.ram.start)
      /\ s.ram.offset = d.ram.offset /\ s.ram.block = d.ram.block
      /\ s.ram.left = d.ram.left
  BY <1>3, <1>7 DEF Positions, Keys
<1>10. CASE N <= s.ram.count
  <2>1. Agree(t, K)
    BY <1>5, <1>7, <1>8, <1>10 DEF Agree, Positions, Records
  <2>2. /\ t.ram.start = s.ram.start
        /\ t.ram.offset = s.ram.offset /\ t.ram.block = s.ram.block
        /\ t.ram.left = s.ram.left
    BY <1>5, <1>7, <1>10 DEF Positions, Keys
  <2> QED BY <1>3, <1>5, <1>6, <1>9, <1>10, <2>1, <2>2
<1>11. CASE ~(N <= s.ram.count)
  BY <1>3, <1>6, <1>8, <1>9, <1>11
<1> QED BY <1>10, <1>11

(* Setting a position keeps RAM and NVS in agreement.                      *)
LEMMA StoreAgrees ==
    ASSUME NEW d \in Devices, NEW k \in Keys, NEW v \in Nat,
           NEW K \in SUBSET Keys, Agree(d, K)
    PROVE  Agree(Store(d, k, v), K)
<1> DEFINE s == Store(d, k, v)
<1>1. d.ram \in Positions /\ d.nvs \in Records
  BY DEF Devices
<1>2. s.ram = [d.ram EXCEPT ![k] = v] /\ s.nvs = [d.nvs EXCEPT ![k] = v]
  BY StoreLemma
<1> HIDE DEF s
<1>3. /\ \A j \in Keys : s.ram[j] = IF j = k THEN v ELSE d.ram[j]
      /\ \A j \in Keys : s.nvs[j] = IF j = k THEN v ELSE d.nvs[j]
  BY <1>1, <1>2 DEF Positions, Records
<1>4. \A j \in K : s.nvs[j] = s.ram[j]
  BY <1>3 DEF Agree
<1>5. Agree(s, K)
  BY <1>4 DEF Agree
<1> QED BY <1>5 DEF s

(* Moving to the next block leaves a sound device at the start of a block. *)
LEMMA GoToNextLemma ==
    ASSUME NEW K \in SUBSET Keys, NEW d, Sound(d, K), NEW F
    PROVE  LET g == GoToNextBlock(d, F)
           IN  /\ Sound(g, K) /\ (d.enabled => g.ram.left = BlockSize)
               /\ g.buf = d.buf /\ g.nbuf = d.nbuf /\ g.enabled = d.enabled
               /\ d.enabled =>
                     /\ g.ram.block = NextBlock(d.ram.block)
                     /\ g.ram.offset = g.ram.block
                     /\ g.ram.start = IF d.ram.start = NextBlock(d.ram.block)
                                      THEN NextBlock(NextBlock(d.ram.block))
                                      ELSE d.ram.start
               /\ d.enabled /\ "erase" \notin F =>
                     g.flash = BlockErased(d.flash, NextBlock(d.ram.block))
<1>0. /\ "offset" \in Keys /\ "start" \in Keys /\ "block" \in Keys
      /\ "left" \in Keys
  BY DEF Keys
<1> DEFINE end  == d.ram.offset + d.ram.left
           next == IF end >= Size THEN 0 ELSE end
           a0 == Store(d, "offset", next)
           a == Store(a0, "block", next)
           b == IF a.ram.start = next THEN ReclaimOldest(a) ELSE a
           fail == "erase" \in F
           e == EraseBlock(b, next, fail)
           g == Store(e, "left", BlockSize)
<1>1. d \in Devices /\ Agree(d, K) /\ d.ram.block \in Blocks /\ d.ram.start \in Blocks
  BY DEF Sound, Consistent
<1>2. next = NextBlock(d.ram.block) /\ next \in Blocks /\ next \in Nat
  <2>1. end = d.ram.block + BlockSize
    <3>1. /\ d.ram.block \in Nat /\ BlockSize \in Nat /\ d.ram.offset \in Int
          /\ d.ram.left = d.ram.block + BlockSize - d.ram.offset
      BY BlockArithmetic, GeometryAssumption DEF Sound, Consistent
    <3> QED BY <3>1
  <2>2. next = NextBlock(d.ram.block)
    BY <2>1 DEF NextBlock
  <2> QED BY <1>1, <2>2, BlockArithmetic
<1> HIDE DEF next
<1>3. /\ a0 \in Devices /\ Agree(a0, K)
      /\ a0.ram.offset = next /\ a0.ram.start = d.ram.start
      /\ a0.buf = d.buf /\ a0.nbuf = d.nbuf /\ a0.enabled = d.enabled
      /\ a0.flash = d.flash
  <2>1. /\ a0 \in Devices /\ a0.ram = [d.ram EXCEPT !["offset"] = next]
        /\ a0.buf = d.buf /\ a0.nbuf = d.nbuf /\ a0.enabled = d.enabled
        /\ a0.flash = d.flash
    <3>1. d \in Devices /\ "offset" \in Keys /\ next \in Nat
      BY <1>0, <1>1, <1>2
    <3> QED BY <3>1, StoreLemma
  <2>2. Agree(a0, K)
    BY <1>0, <1>1, <1>2, StoreAgrees
  <2> QED BY <2>1, <2>2, <1>1 DEF Devices, Positions, Keys
<1> HIDE DEF a0
<1>4. /\ a \in Devices /\ Agree(a, K)
      /\ a.ram.offset = next /\ a.ram.block = next /\ a.ram.start = d.ram.start
      /\ a.buf = d.buf /\ a.nbuf = d.nbuf /\ a.enabled = d.enabled
      /\ a.flash = d.flash
  <2>1. /\ a \in Devices /\ a.ram = [a0.ram EXCEPT !["block"] = next]
        /\ a.buf = a0.buf /\ a.nbuf = a0.nbuf /\ a.enabled = a0.enabled
        /\ a.flash = a0.flash
    <3>1. a0 \in Devices /\ "block" \in Keys /\ next \in Nat
      BY <1>0, <1>2, <1>3
    <3> QED BY <3>1, StoreLemma
  <2>2. Agree(a, K)
    BY <1>0, <1>2, <1>3, StoreAgrees
  <2> HIDE DEF a
  <2> QED BY <2>1, <2>2, <1>3 DEF Devices, Positions, Keys
<1> HIDE DEF a
<1>5. /\ b \in Devices /\ Agree(b, K)
      /\ b.ram.offset = next /\ b.ram.block = next
      /\ b.ram.start = IF d.ram.start = next THEN NextBlock(next) ELSE d.ram.start
      /\ b.buf = d.buf /\ b.nbuf = d.nbuf /\ b.enabled = d.enabled
      /\ b.flash = d.flash
  <2>1. CASE a.ram.start = next
    BY <1>1, <1>4, <2>1, ReclaimLemma
  <2>2. CASE a.ram.start # next
    BY <1>4, <2>2
  <2> QED BY <2>1, <2>2
<1> HIDE DEF b
<1>6. /\ e \in Devices /\ Agree(e, K) /\ e.ram = b.ram
      /\ e.buf = d.buf /\ e.nbuf = d.nbuf /\ e.enabled = d.enabled
      /\ ~fail => e.flash = BlockErased(d.flash, next)
  <2> HIDE DEF fail
  <2>1. /\ e \in Devices /\ e.ram = b.ram /\ e.nvs = b.nvs
        /\ e.buf = b.buf /\ e.nbuf = b.nbuf /\ e.enabled = b.enabled
        /\ ~fail => e.flash = BlockErased(b.flash, next)
    BY <1>2, <1>5, EraseLemma
  <2> HIDE DEF e
  <2> QED BY <2>1, <1>5 DEF Agree
<1> HIDE DEF e
<1>7. BlockSize \in Nat
  BY GeometryAssumption
<1>8. /\ g \in Devices /\ Agree(g, K)
      /\ g.ram.offset = next /\ g.ram.block = next /\ g.ram.left = BlockSize
      /\ g.ram.start = IF d.ram.start = next THEN NextBlock(next) ELSE d.ram.start
      /\ g.buf = d.buf /\ g.nbuf = d.nbuf /\ g.enabled = d.enabled
      /\ ~fail => g.flash = BlockErased(d.flash, next)
  <2>1. /\ g \in Devices /\ g.ram = [e.ram EXCEPT !["left"] = BlockSize]
        /\ g.buf = e.buf /\ g.nbuf = e.nbuf /\ g.enabled = e.enabled
        /\ g.flash = e.flash
    <3>1. e \in Devices /\ "left" \in Keys /\ BlockSize \in Nat
      BY <1>0, <1>6, <1>7
    <3> QED BY <3>1, StoreLemma
  <2>2. Agree(g, K)
    BY <1>0, <1>6, <1>7, StoreAgrees
  <2> HIDE DEF g
  <2> QED BY <2>1, <2>2, <1>5, <1>6 DEF Devices, Positions, Keys
<1>9. GoToNextBlock(d, F) = IF ~d.enabled THEN d ELSE g
  BY DEF GoToNextBlock, EnterBlock, MoveStart, EndOfBlock, g, e, fail, b, a,
         a0, next
<1> HIDE DEF g
<1>10. g.ram.start \in Blocks
  BY <1>1, <1>2, <1>8, BlockArithmetic
<1>11. Consistent(g.ram)
  BY <1>2, <1>7, <1>8, <1>10, BlockArithmetic DEF Consistent
<1>12. StartFollows(g.ram)
  BY <1>2, <1>8 DEF Sound, StartFollows
<1>13. Sound(g, K)
  BY <1>8, <1>11, <1>12 DEF Sound
<1>14. CASE d.enabled
  <2> DEFINE h == GoToNextBlock(d, F)
  <2>1. h = g
    BY <1>9, <1>14
  <2> HIDE DEF h
  <2>2. /\ h.ram.block = NextBlock(d.ram.block)
        /\ h.ram.offset = h.ram.block
        /\ h.ram.start = IF d.ram.start = NextBlock(d.ram.block)
                         THEN NextBlock(NextBlock(d.ram.block))
                         ELSE d.ram.start
    BY <1>2, <1>8, <2>1
  <2>3. "erase" \notin F => h.flash = BlockErased(d.flash, NextBlock(d.ram.block))
    BY <1>2, <1>8, <2>1 DEF fail
  <2>4. /\ Sound(h, K) /\ h.ram.left = BlockSize
        /\ h.buf = d.buf /\ h.nbuf = d.nbuf /\ h.enabled = d.enabled
    BY <1>8, <1>13, <2>1
  <2> QED BY <2>2, <2>3, <2>4 DEF h
<1>15. CASE ~d.enabled
  BY <1>9, <1>15
<1> QED BY <1>14, <1>15

(* No cell was programmed twice, the rest of the current block is erased,  *)
(* and what waits in the buffer are cells of messages.                     *)
NoJunk(flash)     == \A p \in Offsets : flash[p] # Junk
Blank(flash, pos) == \A p \in Offsets :
                        pos.offset <= p /\ p < pos.block + BlockSize
                           => flash[p] = Erased
CleanBuf(b)       == \A i \in 1 .. Len(b) : b[i] # Junk

Clean(d) == NoJunk(d.flash) /\ Blank(d.flash, d.ram) /\ CleanBuf(d.buf)

(* Erasing a block never makes a flash worse.                              *)
LEMMA ErasedClean ==
    ASSUME NEW flash, NEW o
    PROVE  /\ NoJunk(flash) => NoJunk(BlockErased(flash, o))
           /\ \A pos : Blank(flash, pos) => Blank(BlockErased(flash, o), pos)
           /\ \A pos : pos.offset = o /\ pos.block = o
                         => Blank(BlockErased(flash, o), pos)
<1>1. Erased # Junk
  BY DEF Erased, Junk
<1>2. NoJunk(flash) => NoJunk(BlockErased(flash, o))
  BY <1>1 DEF NoJunk, BlockErased
<1>3. \A pos : Blank(flash, pos) => Blank(BlockErased(flash, o), pos)
  BY DEF Blank, BlockErased
<1>4. \A pos : pos.offset = o /\ pos.block = o => Blank(BlockErased(flash, o), pos)
  BY DEF Blank, BlockErased
<1> QED BY <1>2, <1>3, <1>4

(* The next block is entered erased.                                       *)
LEMMA GoToNextClean ==
    ASSUME NEW K \in SUBSET Keys, NEW d, Sound(d, K), NEW F, "erase" \notin F
    PROVE  LET g == GoToNextBlock(d, F)
           IN  /\ Clean(d) => Clean(g)
               /\ NoJunk(d.flash) => NoJunk(g.flash)
               /\ d.enabled => Blank(g.flash, g.ram)
<1> DEFINE g == GoToNextBlock(d, F)
<1>1. CASE ~d.enabled
  <2>1. g = d
    BY <1>1 DEF GoToNextBlock
  <2> QED BY <1>1, <2>1
<1>2. CASE d.enabled
  <2>1. /\ Sound(g, K) /\ g.ram.left = BlockSize /\ g.buf = d.buf
        /\ g.ram.block = NextBlock(d.ram.block)
        /\ g.flash = BlockErased(d.flash, NextBlock(d.ram.block))
    BY <1>2, GoToNextLemma
  <2> HIDE DEF g
  <2>2. g.ram.offset = g.ram.block
    <3>1. /\ g.ram.block \in Nat /\ BlockSize \in Nat
          /\ g.ram.left = g.ram.block + BlockSize - g.ram.offset
          /\ g.ram.offset \in g.ram.block .. g.ram.block + BlockSize
      BY <2>1, BlockArithmetic, GeometryAssumption DEF Sound, Consistent
    <3> QED BY <2>1, <3>1
  <2>3. Blank(g.flash, g.ram)
    BY <2>1, <2>2, ErasedClean
  <2>4. NoJunk(d.flash) => NoJunk(g.flash)
    BY <2>1, ErasedClean
  <2> QED BY <2>1, <2>3, <2>4 DEF Clean, g
<1> QED BY <1>1, <1>2

(* Forgetting or replacing the buffer keeps a device sound.                *)
LEMMA BufferLemma ==
    ASSUME NEW K, NEW d, Sound(d, K),
           NEW u \in Seq(Cells), Len(u) <= PageSize, NEW n \in Nat
    PROVE  Sound([d EXCEPT !.buf = u, !.nbuf = n], K)
<1> DEFINE x == [d EXCEPT !.buf = u, !.nbuf = n]
<1>1. /\ x \in Devices /\ x.ram = d.ram /\ x.nvs = d.nvs /\ x.buf = u
  BY DEF Sound, Devices
<1> HIDE DEF x
<1> QED BY <1>1 DEF Sound, Agree, x

(* Advancing the write position by n cells within the block.               *)
LEMMA AdvanceLemma ==
    ASSUME NEW K \in SUBSET Keys, NEW d, Sound(d, K),
           NEW n \in Nat, n <= d.ram.left
    PROVE  /\ Sound(Advance(d, n), K)
           /\ Advance(d, n).enabled = d.enabled
           /\ Advance(d, n).flash = d.flash
           /\ Advance(d, n).ram.offset = d.ram.offset + n
           /\ Advance(d, n).ram.block = d.ram.block
           /\ Advance(d, n).ram.start = d.ram.start
           /\ Advance(d, n).ram.left = d.ram.left - n
<1> DEFINE m == d.nbuf
           a == Store(d, "offset", d.ram.offset + n)
           b == Store(a, "left", d.ram.left - n)
           c == Store(b, "count", d.ram.count + m)
<1>1. "offset" \in Keys /\ "left" \in Keys /\ "count" \in Keys
  BY DEF Keys
<1>2. d \in Devices /\ Agree(d, K)
  BY DEF Sound
<1>3. /\ d.ram.offset \in Nat /\ d.ram.left \in Nat /\ d.ram.count \in Nat
      /\ m \in Nat
  BY <1>1, <1>2 DEF Devices, Positions
<1> HIDE DEF m
<1>4. /\ d.ram.offset + n \in Nat /\ d.ram.left - n \in Nat
      /\ d.ram.count + m \in Nat
  BY <1>3
<1>5. /\ a \in Devices /\ a.ram = [d.ram EXCEPT !["offset"] = d.ram.offset + n]
      /\ a.buf = d.buf /\ Agree(a, K) /\ a.enabled = d.enabled
      /\ a.flash = d.flash
  <2> DEFINE v == d.ram.offset + n
  <2>1. d \in Devices /\ "offset" \in Keys /\ v \in Nat /\ Agree(d, K)
    BY <1>1, <1>2, <1>4
  <2> HIDE DEF v
  <2>2. Agree(Store(d, "offset", v), K)
    BY <2>1, StoreAgrees
  <2>3. /\ Store(d, "offset", v) \in Devices
        /\ Store(d, "offset", v).ram = [d.ram EXCEPT !["offset"] = v]
        /\ Store(d, "offset", v).buf = d.buf
        /\ Store(d, "offset", v).enabled = d.enabled
        /\ Store(d, "offset", v).flash = d.flash
    BY <2>1, StoreLemma
  <2> QED BY <2>2, <2>3 DEF v
<1> HIDE DEF a
<1>6. /\ b \in Devices /\ b.ram = [a.ram EXCEPT !["left"] = d.ram.left - n]
      /\ b.buf = a.buf /\ Agree(b, K) /\ b.enabled = a.enabled
      /\ b.flash = a.flash
  <2> DEFINE v == d.ram.left - n
  <2>1. a \in Devices /\ "left" \in Keys /\ v \in Nat /\ Agree(a, K)
    BY <1>1, <1>5, <1>4
  <2> HIDE DEF v
  <2>2. Agree(Store(a, "left", v), K)
    BY <2>1, StoreAgrees
  <2>3. /\ Store(a, "left", v) \in Devices
        /\ Store(a, "left", v).ram = [a.ram EXCEPT !["left"] = v]
        /\ Store(a, "left", v).buf = a.buf
        /\ Store(a, "left", v).enabled = a.enabled
        /\ Store(a, "left", v).flash = a.flash
    BY <2>1, StoreLemma
  <2> QED BY <2>2, <2>3 DEF v
<1> HIDE DEF b
<1>7. /\ c \in Devices /\ c.ram = [b.ram EXCEPT !["count"] = d.ram.count + m]
      /\ c.buf = b.buf /\ Agree(c, K) /\ c.enabled = b.enabled
      /\ c.flash = b.flash
  <2> DEFINE v == d.ram.count + m
  <2>1. b \in Devices /\ "count" \in Keys /\ v \in Nat /\ Agree(b, K)
    BY <1>1, <1>6, <1>4
  <2> HIDE DEF v
  <2>2. Agree(Store(b, "count", v), K)
    BY <2>1, StoreAgrees
  <2>3. /\ Store(b, "count", v) \in Devices
        /\ Store(b, "count", v).ram = [b.ram EXCEPT !["count"] = v]
        /\ Store(b, "count", v).buf = b.buf
        /\ Store(b, "count", v).enabled = b.enabled
        /\ Store(b, "count", v).flash = b.flash
    BY <2>1, StoreLemma
  <2> QED BY <2>2, <2>3 DEF v
<1> HIDE DEF c
<1>8. /\ c.ram.offset = d.ram.offset + n /\ c.ram.left = d.ram.left - n
      /\ c.ram.block = d.ram.block /\ c.ram.start = d.ram.start
  BY <1>2, <1>5, <1>6, <1>7 DEF Devices, Positions, Keys
<1>9. Consistent(c.ram)
  <2>1. /\ d.ram.block \in Nat /\ BlockSize \in Nat
        /\ d.ram.left = d.ram.block + BlockSize - d.ram.offset
        /\ d.ram.offset \in d.ram.block .. d.ram.block + BlockSize
    BY BlockArithmetic, GeometryAssumption DEF Sound, Consistent
  <2>2. /\ c.ram.offset \in c.ram.block .. c.ram.block + BlockSize
        /\ c.ram.left = c.ram.block + BlockSize - c.ram.offset
    BY <1>3, <1>8, <2>1
  <2> QED BY <1>8, <2>2 DEF Sound, Consistent
<1>10. StartFollows(c.ram)
  BY <1>8 DEF Sound, StartFollows
<1>11. Sound(c, K)
  BY <1>5, <1>6, <1>7, <1>9, <1>10 DEF Sound
<1>12. c.enabled = d.enabled /\ c.flash = d.flash
  BY <1>5, <1>6, <1>7
<1>13. Advance(d, n) = c
  BY DEF Advance, a, b, c, m
<1> QED BY <1>8, <1>11, <1>12, <1>13

(* Forgetting the buffer.                                                  *)
LEMMA NoBufferLemma ==
    ASSUME NEW K, NEW d, Sound(d, K)
    PROVE  /\ Sound(NoBuffer(d), K) /\ NoBuffer(d).buf = <<>>
           /\ NoBuffer(d).enabled = d.enabled
           /\ NoBuffer(d).ram = d.ram /\ NoBuffer(d).flash = d.flash
<1>1. <<>> \in Seq(Cells) /\ Len(<<>>) <= PageSize /\ 0 \in Nat
  BY GeometryAssumption
<1>2. Sound([d EXCEPT !.buf = <<>>, !.nbuf = 0], K)
  BY <1>1, BufferLemma
<1>3. NoBuffer(d) = [d EXCEPT !.buf = <<>>, !.nbuf = 0]
  BY DEF NoBuffer
<1>4. d \in Devices
  BY DEF Sound
<1>5. NoBuffer(d).buf = <<>>
  BY <1>3, <1>4 DEF Devices
<1>6. /\ NoBuffer(d).enabled = d.enabled
      /\ NoBuffer(d).ram = d.ram /\ NoBuffer(d).flash = d.flash
  BY <1>3, <1>4 DEF Devices
<1> QED BY <1>2, <1>3, <1>5, <1>6

(* A buffer that fits in the block is written, or refused.                 *)
LEMMA WriteOutLemma ==
    ASSUME NEW K \in SUBSET Keys, NEW d, Sound(d, K),
           Len(d.buf) <= d.ram.left, NEW works
    PROVE  LET w == WriteOut(d, works)
           IN  /\ Sound(w.dev, K) /\ w.dev.buf = <<>>
               /\ w.dev.enabled = d.enabled
<1> DEFINE n  == Len(d.buf)
           o  == d.ram.offset
           w1 == WriteCells(d, o, d.buf)
           w2 == Advance(w1, n)
           ok == works /\ d.ram.offset + Len(d.buf) <= Size
           x  == IF ok THEN w2 ELSE d
           y  == NoBuffer(x)
<1>1. /\ d \in Devices /\ o \in Nat /\ d.ram.left \in Nat
      /\ d.buf \in Seq(Cells) /\ n \in Nat
  BY DEF Sound, Devices, Positions, Keys
<1>2. WriteOut(d, works).dev = y
  BY DEF WriteOut
<1>3. /\ w1 \in Devices /\ w1.ram = d.ram /\ w1.nvs = d.nvs /\ w1.buf = d.buf
      /\ w1.enabled = d.enabled
  <2> HIDE DEF o
  <2> QED BY <1>1, WriteCellsLemma
<1> HIDE DEF w1
<1>4. Sound(w1, K)
  BY <1>3 DEF Sound, Agree
<1>5. Sound(w2, K) /\ w2.enabled = w1.enabled
  <2>1. n \in Nat /\ n <= w1.ram.left
    BY <1>1, <1>3
  <2> HIDE DEF n
  <2> QED BY <1>4, <2>1, AdvanceLemma
<1> HIDE DEF w2, ok
<1>6. Sound(x, K) /\ x.enabled = d.enabled
  BY <1>3, <1>5
<1> HIDE DEF x
<1>7. Sound(y, K) /\ y.buf = <<>> /\ y.enabled = x.enabled
  BY <1>6, NoBufferLemma
<1> HIDE DEF y
<1> QED BY <1>2, <1>6, <1>7

(* Writing the buffer out keeps a device sound, and forgets the buffer.    *)
LEMMA WriteBufferLemma ==
    ASSUME NEW K \in SUBSET Keys, NEW d, Sound(d, K), NEW site, NEW F
    PROVE  LET w == WriteBufferToFlash(d, site, F)
           IN  /\ Sound(w.dev, K) /\ (d.enabled => w.dev.buf = <<>>)
               /\ w.dev.enabled = d.enabled
<1> DEFINE e == IF Len(d.buf) > d.ram.left THEN GoToNextBlock(d, F) ELSE d
           works == site \notin F
           w == WriteOut(e, works)
<1>1. CASE ~d.enabled
  BY <1>1 DEF WriteBufferToFlash
<1>2. CASE d.enabled
  <2>1. /\ PageSize \in Nat /\ BlockSize \in Nat /\ PageSize <= BlockSize
    BY GeometryAssumption
  <2>2. /\ d.buf \in Seq(Cells) /\ Len(d.buf) <= PageSize /\ d.ram.left \in Nat
    BY DEF Sound, Devices, Positions, Keys
  <2>3. /\ Sound(e, K) /\ Len(e.buf) <= e.ram.left /\ e.enabled = d.enabled
    <3>1. CASE Len(d.buf) > d.ram.left
      <4>1. /\ Sound(e, K) /\ e.ram.left = BlockSize /\ e.buf = d.buf
            /\ e.enabled = d.enabled
        BY <1>2, <3>1, GoToNextLemma
      <4> HIDE DEF e
      <4> QED BY <2>1, <2>2, <4>1
    <3>2. CASE ~(Len(d.buf) > d.ram.left)
      BY <2>2, <3>2
    <3> QED BY <3>1, <3>2
  <2>4. WriteBufferToFlash(d, site, F) = w
    BY <1>2 DEF WriteBufferToFlash
  <2> HIDE DEF e, works
  <2>5. /\ Sound(w.dev, K) /\ w.dev.buf = <<>> /\ w.dev.enabled = e.enabled
    BY <2>3, WriteOutLemma
  <2> HIDE DEF w
  <2> QED BY <2>3, <2>4, <2>5
<1> QED BY <1>1, <1>2

(* After making room the buffer is empty or takes the whole message.       *)
LEMMA MakeRoomLemma ==
    ASSUME NEW K \in SUBSET Keys, NEW d, Sound(d, K), NEW n \in Nat, NEW F
    PROVE  LET r == MakeRoom(d, n, F)
           IN  /\ Sound(r, K)
               /\ d.enabled => r.buf = <<>> \/ Len(r.buf) + n <= PageSize
               /\ r.enabled = d.enabled
<1> DEFINE w == WriteBufferToFlash(d, "write1", F)
           g == GoToNextBlock(w.dev, F)
           r == MakeRoom(d, n, F)
<1>1. /\ Sound(w.dev, K) /\ (d.enabled => w.dev.buf = <<>>)
      /\ w.dev.enabled = d.enabled
  BY WriteBufferLemma
<1>2. Sound(g, K) /\ g.buf = w.dev.buf /\ g.enabled = w.dev.enabled
  <2> DEFINE wd == w.dev
  <2>1. Sound(wd, K)
    BY <1>1
  <2> HIDE DEF wd
  <2>2. LET h == GoToNextBlock(wd, F)
        IN  Sound(h, K) /\ h.buf = wd.buf /\ h.enabled = wd.enabled
    BY <2>1, GoToNextLemma
  <2> QED BY <2>2 DEF wd
<1>3. r = IF Len(d.buf) + n > d.ram.left
          THEN IF w.err THEN w.dev ELSE g
          ELSE IF Len(d.buf) + n > PageSize THEN w.dev ELSE d
  BY DEF MakeRoom, LeaveBlock
<1> HIDE DEF w, g, r
<1>4. Len(d.buf) \in Nat /\ PageSize \in Nat
  BY GeometryAssumption DEF Sound, Devices
<1>5. r = w.dev \/ r = g \/ (r = d /\ Len(d.buf) + n <= PageSize)
  BY <1>3, <1>4
<1> QED BY <1>1, <1>2, <1>5 DEF r

(* The cells of a message.                                                 *)
LEMMA MsgCellsType ==
    ASSUME NEW id \in 0 .. MaxMsgs + 1, NEW n \in Nat, n <= BlockSize
    PROVE  MsgCells(id, n) \in Seq(Cells) /\ Len(MsgCells(id, n)) = n
<1>1. \A i \in 1 .. n : <<id, i, n>> \in Cells
  BY GeometryAssumption, BoundsAssumption DEF Cells
<1> QED BY <1>1 DEF MsgCells

(* Storing a message keeps a device sound; the buffer stays below a page.  *)
LEMMA StoreMessageLemma ==
    ASSUME NEW K \in SUBSET Keys, NEW d, Sound(d, K), Len(d.buf) < PageSize,
           NEW id \in 0 .. MaxMsgs + 1,
           NEW n \in Nat, n <= BlockSize, n < 2 * PageSize, NEW F
    PROVE  LET m == StoreMessage(d, id, n, F)
           IN  Sound(m.dev, K) /\ Len(m.dev.buf) < PageSize
<1> DEFINE r   == MakeRoom(d, n, F)
           all == r.buf \o MsgCells(id, n)
           hd  == SubSeq(all, 1, PageSize)
           tl  == SubSeq(all, PageSize + 1, Len(all))
           p   == [r EXCEPT !.buf = hd]
           w   == WriteBufferToFlash(p, "write2", F)
           x   == [r EXCEPT !.buf = all, !.nbuf = r.nbuf + 1]
           y   == [w.dev EXCEPT !.buf = tl, !.nbuf = w.dev.nbuf + 1]
<1>0. PageSize \in Nat /\ PageSize >= 2
  BY GeometryAssumption
<1>1. /\ Sound(r, K) /\ (d.enabled => r.buf = <<>> \/ Len(r.buf) + n <= PageSize)
      /\ r.enabled = d.enabled
  BY MakeRoomLemma
<1>2. r \in Devices /\ r.buf \in Seq(Cells) /\ r.nbuf \in Nat
  BY <1>1 DEF Sound, Devices
<1>3. MsgCells(id, n) \in Seq(Cells) /\ Len(MsgCells(id, n)) = n
  BY MsgCellsType
<1> HIDE DEF r
<1>4. all \in Seq(Cells) /\ Len(all) = Len(r.buf) + n
  BY <1>2, <1>3
<1>5. StoreMessage(d, id, n, F).dev =
        IF ~d.enabled THEN d
        ELSE IF Len(all) < PageSize THEN x
        ELSE IF w.err THEN w.dev ELSE y
  BY DEF StoreMessage, AddMessage, AddCells, KeepRest, Buffered, r
<1>6. CASE ~d.enabled
  BY <1>5, <1>6
<1>7. CASE d.enabled /\ Len(all) < PageSize
  <2> HIDE DEF all
  <2>1. all \in Seq(Cells) /\ Len(all) <= PageSize /\ r.nbuf + 1 \in Nat
    BY <1>0, <1>2, <1>4, <1>7
  <2>2. Sound(x, K)
    BY <1>1, <2>1, BufferLemma
  <2>3. x.buf = all
    BY <1>2
  <2> QED BY <1>5, <1>7, <2>2, <2>3
<1>8. CASE d.enabled /\ ~(Len(all) < PageSize)
  <2>1. Len(all) < 2 * PageSize
    <3>1. CASE r.buf = <<>>
      BY <1>4, <3>1
    <3>2. CASE Len(r.buf) + n <= PageSize
      BY <1>0, <1>4, <3>2
    <3> QED BY <1>1, <1>8, <3>1, <3>2
  <2> HIDE DEF all
  <2>2. hd \in Seq(Cells) /\ Len(hd) = PageSize
    BY <1>0, <1>4, <1>8
  <2>3. tl \in Seq(Cells) /\ Len(tl) < PageSize
    BY <1>0, <1>4, <1>8, <2>1
  <2> HIDE DEF hd, tl
  <2>4. Sound(p, K)
    <3>1. Sound([r EXCEPT !.buf = hd, !.nbuf = r.nbuf], K)
      <4>1. Sound(r, K) /\ hd \in Seq(Cells) /\ Len(hd) <= PageSize /\ r.nbuf \in Nat
        BY <1>0, <1>1, <1>2, <2>2
      <4> QED BY <4>1, BufferLemma
    <3>2. p = [r EXCEPT !.buf = hd, !.nbuf = r.nbuf]
      BY <1>2 DEF Devices
    <3> QED BY <3>1, <3>2
  <2>5. p.enabled
    <3>1. p.enabled = r.enabled
      BY <1>2 DEF Devices
    <3> QED BY <1>1, <1>8, <3>1
  <2> HIDE DEF p
  <2>6. Sound(w.dev, K) /\ w.dev.buf = <<>>
    BY <2>4, <2>5, WriteBufferLemma
  <2> HIDE DEF w
  <2>7. w.dev \in Devices /\ w.dev.nbuf + 1 \in Nat
    BY <2>6 DEF Sound, Devices
  <2>8. Sound(y, K) /\ y.buf = tl
    <3>1. Len(tl) <= PageSize
      BY <1>0, <2>3
    <3>2. Sound(y, K)
      BY <2>3, <2>6, <2>7, <3>1, BufferLemma
    <3>3. y.buf = tl
      BY <2>7 DEF Devices
    <3> QED BY <3>2, <3>3
  <2>9. Len(w.dev.buf) < PageSize
    BY <1>0, <2>6
  <2> QED BY <1>5, <1>8, <2>3, <2>6, <2>8, <2>9
<1> QED BY <1>6, <1>7, <1>8
(* Writing out keeps the buffer below a page, enabled or not.              *)
LEMMA FlushLemma ==
    ASSUME NEW K \in SUBSET Keys, NEW d, Sound(d, K), Len(d.buf) < PageSize,
           NEW site, NEW F
    PROVE  LET w == WriteBufferToFlash(d, site, F)
           IN  Sound(w.dev, K) /\ Len(w.dev.buf) < PageSize
<1> DEFINE w == WriteBufferToFlash(d, site, F)
<1>1. CASE ~d.enabled
  BY <1>1 DEF WriteBufferToFlash
<1>2. CASE d.enabled
  <2>1. Sound(w.dev, K) /\ w.dev.buf = <<>>
    BY <1>2, WriteBufferLemma
  <2> HIDE DEF w
  <2>2. Len(w.dev.buf) < PageSize
    BY <2>1, GeometryAssumption
  <2> QED BY <2>1, <2>2 DEF w
<1> QED BY <1>1, <1>2

(* Storing the test record and reading it back keeps a device sound.       *)
LEMMA TestFlashLemma ==
    ASSUME NEW K \in SUBSET Keys, NEW d, Sound(d, K), Len(d.buf) < PageSize,
           NEW id \in 0 .. MaxMsgs + 1, NEW F
    PROVE  LET t == TestFlash(d, id, F)
           IN  Sound(t.dev, K) /\ Len(t.dev.buf) < PageSize
<1> DEFINE s == StoreMessage(d, id, TestSize, F)
           w == WriteBufferToFlash(s.dev, "flush", F)
<1>1. TestSize \in Nat /\ TestSize <= BlockSize /\ TestSize < 2 * PageSize
  BY GeometryAssumption
<1>2. Sound(s.dev, K) /\ Len(s.dev.buf) < PageSize
  BY <1>1, StoreMessageLemma
<1>3. TestFlash(d, id, F).dev = IF s.err THEN s.dev ELSE w.dev
  BY DEF TestFlash, FlushAndCompare, Compared
<1> HIDE DEF s
<1>4. Sound(w.dev, K) /\ Len(w.dev.buf) < PageSize
  <2> DEFINE sd == s.dev
  <2>1. Sound(sd, K) /\ Len(sd.buf) < PageSize
    BY <1>2
  <2> HIDE DEF sd
  <2>2. LET v == WriteBufferToFlash(sd, "flush", F)
        IN  Sound(v.dev, K) /\ Len(v.dev.buf) < PageSize
    BY <2>1, FlushLemma
  <2> QED BY <2>2 DEF sd
<1> HIDE DEF w
<1> QED BY <1>2, <1>3, <1>4

(* A sound device stays sound when only its trail or "enabled" changes.    *)
LEMMA OtherFields ==
    ASSUME NEW K, NEW d, Sound(d, K), NEW T \in SUBSET Images, NEW v \in BOOLEAN
    PROVE  /\ Sound([d EXCEPT !.trail = T], K)
           /\ Sound([d EXCEPT !.enabled = v], K)
           /\ [d EXCEPT !.trail = T].buf = d.buf
           /\ [d EXCEPT !.enabled = v].buf = d.buf
           /\ [d EXCEPT !.trail = T].flash = d.flash
           /\ [d EXCEPT !.trail = T].ram = d.ram
           /\ [d EXCEPT !.enabled = v].flash = d.flash
           /\ [d EXCEPT !.enabled = v].ram = d.ram
           /\ [d EXCEPT !.enabled = v].enabled = v
<1> DEFINE x == [d EXCEPT !.trail = T]
           y == [d EXCEPT !.enabled = v]
<1>1. /\ x \in Devices /\ x.ram = d.ram /\ x.nvs = d.nvs /\ x.buf = d.buf
      /\ x.flash = d.flash
  BY DEF Sound, Devices
<1>2. /\ y \in Devices /\ y.ram = d.ram /\ y.nvs = d.nvs /\ y.buf = d.buf
      /\ y.flash = d.flash /\ y.enabled = v
  BY DEF Sound, Devices
<1> HIDE DEF x, y
<1>3. Sound(x, K) /\ Sound(y, K)
  BY <1>1, <1>2 DEF Sound, Agree
<1> QED BY <1>1, <1>2, <1>3 DEF x, y

(* The same step with everything that follows from it.                     *)
LEMMA SaveLemma ==
    ASSUME NEW d \in Devices, NEW k \in Keys, NEW v \in Nat,
           NEW K \in SUBSET Keys, Agree(d, K)
    PROVE  LET s == Store(d, k, v)
           IN  /\ s \in Devices /\ Agree(s, K) /\ s.buf = d.buf
               /\ s.flash = d.flash
               /\ \A j \in Keys : s.ram[j] = IF j = k THEN v ELSE d.ram[j]
<1> DEFINE s == Store(d, k, v)
<1>1. Agree(s, K)
  BY StoreAgrees
<1>2. /\ s \in Devices /\ s.buf = d.buf /\ s.ram = [d.ram EXCEPT ![k] = v]
      /\ s.flash = d.flash
  BY StoreLemma
<1> HIDE DEF s
<1>3. \A j \in Keys : s.ram[j] = IF j = k THEN v ELSE d.ram[j]
  BY <1>2 DEF Devices, Positions
<1> QED BY <1>1, <1>2, <1>3 DEF s

(* Clearing the log keeps a device sound.                                  *)
LEMMA ClearLemma ==
    ASSUME NEW K \in SUBSET Keys, NEW d, Sound(d, K), Len(d.buf) < PageSize,
           NEW F
    PROVE  LET c == ClearFlashData(d, F)
           IN  /\ Sound(c, K) /\ Len(c.buf) < PageSize
               /\ "erase" \notin F /\ Clean(d) => Clean(c)
               /\ d.enabled =>
                     /\ c.buf = <<>> /\ c.ram.offset = 0 /\ c.ram.start = 0
                     /\ c.ram.block = 0
                     /\ "erase" \notin F => c.flash = BlockErased(d.flash, 0)
               /\ ~d.enabled => c = d
<1> DEFINE a1 == Store(d, "offset", 0)
           a2 == Store(a1, "start", 0)
           a3 == Store(a2, "left", BlockSize)
           a4 == Store(a3, "block", 0)
           a5 == Store(a4, "count", 0)
           fail == "erase" \in F
           e  == EraseBlock(a5, 0, fail)
           c  == NoBuffer(e)
<1>0. /\ "offset" \in Keys /\ "start" \in Keys /\ "block" \in Keys
      /\ "left" \in Keys /\ "count" \in Keys
      /\ BlockSize \in Nat /\ 0 \in Nat
  BY GeometryAssumption DEF Keys
<1>1. d \in Devices /\ Agree(d, K)
  BY DEF Sound
<1>2. /\ a1 \in Devices /\ Agree(a1, K) /\ a1.buf = d.buf /\ a1.flash = d.flash
      /\ \A j \in Keys : a1.ram[j] = IF j = "offset" THEN 0 ELSE d.ram[j]
  <2>1. d \in Devices /\ "offset" \in Keys /\ 0 \in Nat /\ Agree(d, K)
    BY <1>0, <1>1
  <2> QED BY <2>1, SaveLemma
<1> HIDE DEF a1
<1>3. /\ a2 \in Devices /\ Agree(a2, K) /\ a2.buf = a1.buf /\ a2.flash = a1.flash
      /\ \A j \in Keys : a2.ram[j] = IF j = "start" THEN 0 ELSE a1.ram[j]
  <2>1. a1 \in Devices /\ "start" \in Keys /\ 0 \in Nat /\ Agree(a1, K)
    BY <1>0, <1>2
  <2> QED BY <2>1, SaveLemma
<1> HIDE DEF a2
<1>4. /\ a3 \in Devices /\ Agree(a3, K)
      /\ a3.buf = a2.buf /\ a3.flash = a2.flash
      /\ \A j \in Keys : a3.ram[j] = IF j = "left" THEN BlockSize ELSE a2.ram[j]
  <2>1. a2 \in Devices /\ "left" \in Keys /\ BlockSize \in Nat /\ Agree(a2, K)
    BY <1>0, <1>3
  <2> QED BY <2>1, SaveLemma
<1> HIDE DEF a3
<1>5. /\ a4 \in Devices /\ Agree(a4, K) /\ a4.buf = a3.buf /\ a4.flash = a3.flash
      /\ \A j \in Keys : a4.ram[j] = IF j = "block" THEN 0 ELSE a3.ram[j]
  <2>1. a3 \in Devices /\ "block" \in Keys /\ 0 \in Nat /\ Agree(a3, K)
    BY <1>0, <1>4
  <2> QED BY <2>1, SaveLemma
<1> HIDE DEF a4
<1>6. /\ a5 \in Devices /\ Agree(a5, K) /\ a5.buf = a4.buf /\ a5.flash = a4.flash
      /\ \A j \in Keys : a5.ram[j] = IF j = "count" THEN 0 ELSE a4.ram[j]
  <2>1. a4 \in Devices /\ "count" \in Keys /\ 0 \in Nat /\ Agree(a4, K)
    BY <1>0, <1>5
  <2> QED BY <2>1, SaveLemma
<1> HIDE DEF a5
<1>7. /\ a5.ram.offset = 0 /\ a5.ram.start = 0 /\ a5.ram.block = 0
      /\ a5.ram.left = BlockSize /\ a5.buf = d.buf /\ a5.flash = d.flash
  BY <1>0, <1>2, <1>3, <1>4, <1>5, <1>6
<1>8. Consistent(a5.ram) /\ StartFollows(a5.ram)
  BY <1>0, <1>7, BlockArithmetic DEF Consistent, StartFollows
<1>9. /\ Sound(e, K) /\ e.ram = a5.ram
      /\ ~fail => e.flash = BlockErased(d.flash, 0)
  <2> HIDE DEF fail
  <2>1. /\ e \in Devices /\ e.ram = a5.ram /\ e.nvs = a5.nvs /\ e.buf = a5.buf
        /\ ~fail => e.flash = BlockErased(a5.flash, 0)
    BY <1>6, EraseLemma, BlockArithmetic
  <2> HIDE DEF e
  <2> QED BY <1>6, <1>7, <1>8, <2>1 DEF Sound, Agree
<1> HIDE DEF e
<1>10. /\ Sound(c, K) /\ c.buf = <<>>
       /\ c.ram = e.ram /\ c.flash = e.flash
  BY <1>9, NoBufferLemma
<1> HIDE DEF c
<1>11. Len(c.buf) < PageSize
  BY <1>10, GeometryAssumption
<1>12. ClearFlashData(d, F) = IF ~d.enabled THEN d ELSE c
  BY DEF ClearFlashData, c, e, fail, a5, a4, a3, a2, a1
<1>13. ASSUME "erase" \notin F, Clean(d) PROVE Clean(c)
  <2>1. c.ram.offset = 0 /\ c.ram.block = 0
    BY <1>7, <1>9, <1>10
  <2>2. c.flash = BlockErased(d.flash, 0)
    BY <1>9, <1>10, <1>13 DEF fail
  <2>3. CleanBuf(c.buf)
    BY <1>10 DEF CleanBuf
  <2> QED BY <1>13, <2>1, <2>2, <2>3, ErasedClean DEF Clean
<1>14. /\ c.ram.offset = 0 /\ c.ram.start = 0 /\ c.ram.block = 0
       /\ "erase" \notin F => c.flash = BlockErased(d.flash, 0)
  BY <1>7, <1>9, <1>10 DEF fail
<1> QED BY <1>10, <1>11, <1>12, <1>13, <1>14
-----------------------------------------------------------------------------
(* Booting                                                                 *)

(* A position is loaded from its record, or set to the default and saved.  *)
LEMMA LoadLemma ==
    ASSUME NEW d \in Devices, NEW k \in Keys, NEW v \in Nat
    PROVE  LET l == Load(d, k, v)
               x == IF d.nvs[k] = NoVal THEN v ELSE d.nvs[k]
           IN  /\ l \in Devices /\ l.buf = d.buf
               /\ l.flash = d.flash /\ l.enabled = d.enabled
               /\ \A j \in Keys : l.ram[j] = IF j = k THEN x ELSE d.ram[j]
               /\ \A j \in Keys : l.nvs[j] = IF j = k THEN x ELSE d.nvs[j]
<1> DEFINE s == Store(d, k, v)
           r == [d EXCEPT !.ram[k] = d.nvs[k]]
<1>1. CASE d.nvs[k] = NoVal
  <2>1. /\ s \in Devices /\ s.buf = d.buf /\ s.ram = [d.ram EXCEPT ![k] = v]
        /\ s.nvs = [d.nvs EXCEPT ![k] = v]
        /\ s.flash = d.flash /\ s.enabled = d.enabled
    BY StoreLemma
  <2> HIDE DEF s
  <2>2. /\ \A j \in Keys : s.ram[j] = IF j = k THEN v ELSE d.ram[j]
        /\ \A j \in Keys : s.nvs[j] = IF j = k THEN v ELSE d.nvs[j]
    BY <2>1 DEF Devices, Positions, Records
  <2>3. Load(d, k, v) = s
    BY <1>1 DEF Load, s
  <2> QED BY <1>1, <2>1, <2>2, <2>3
<1>2. CASE d.nvs[k] # NoVal
  <2>1. d.nvs[k] \in Nat
    BY <1>2 DEF Devices, Records
  <2>2. [d.ram EXCEPT ![k] = d.nvs[k]] \in Positions
    BY <2>1 DEF Devices, Positions
  <2>3. /\ r \in Devices /\ r.buf = d.buf /\ r.nvs = d.nvs
        /\ r.ram = [d.ram EXCEPT ![k] = d.nvs[k]]
        /\ r.flash = d.flash /\ r.enabled = d.enabled
    BY <2>2 DEF Devices
  <2> HIDE DEF r
  <2>4. \A j \in Keys : r.ram[j] = IF j = k THEN d.nvs[k] ELSE d.ram[j]
    BY <2>3 DEF Devices, Positions
  <2>5. Load(d, k, v) = r
    BY <1>2 DEF Load, r
  <2> QED BY <1>2, <2>3, <2>4, <2>5
<1> QED BY <1>1, <1>2

(* What NVS holds when the power is off: nothing, or all five positions of *)
(* a log that was in use.                                                  *)
Loadable(nvs) ==
    \/ nvs = NoNvs
    \/ nvs \in Positions /\ Consistent(nvs) /\ StartFollows(nvs)

SamePlaces(p, q) == p.offset = q.offset /\ p.start = q.start /\ p.block = q.block

(* The positions are loaded as c, and only a full partition is left for    *)
(* the next block.                                                         *)
Loaded(d, c, p, F) ==
    LET e == IF c.ram.offset >= Size THEN GoToNextBlock(c, F) ELSE c
    IN  /\ Sound(c, Keys \ {"count"}) /\ c.buf = <<>> /\ c.enabled
        /\ d.nvs = NoNvs => c.ram.offset = 0 /\ c.ram.start = 0
                            /\ c.ram.block = 0
        /\ d.nvs # NoNvs => SamePlaces(c.ram, d.nvs)
        /\ c.flash = IF c.ram.offset = 0 THEN BlockErased(d.flash, 0)
                     ELSE d.flash
        /\ p.flash = e.flash /\ SamePlaces(p.ram, e.ram) /\ p.enabled

(* Loading the positions gives a sound device with an empty buffer.        *)
LEMMA LoadPositionsLemma ==
    ASSUME NEW d \in Devices, d.ram = NoRam, d.buf = <<>>, Loadable(d.nvs), NEW F
    PROVE  LET p == LoadPositions(d, F)
           IN  /\ Sound(p, Keys) /\ p.buf = <<>>
               /\ "erase" \notin F => p.enabled
               /\ /\ "erase" \notin F /\ NoJunk(d.flash)
                  /\ d.nvs # NoNvs => Blank(d.flash, d.nvs)
                  => Clean(p)
               /\ "erase" \notin F => \E c : Loaded(d, c, p, F)
<1> DEFINE K    == Keys \ {"count"}
           d0   == [d EXCEPT !.enabled = TRUE]
           a1   == Load(d0, "offset", 0)
           a    == LoadStart(a1)
           fail == "erase" \in F
           b0   == EraseBlock(a, 0, fail)
           b1   == [b0 EXCEPT !.enabled = ~fail]
           b    == IF a.ram.offset = 0 THEN b1 ELSE a
           c1   == Load(b, "left", BlockSize)
           c    == Load(c1, "block", 0)
           g    == GoToNextBlock(c, F)
           e    == IF c.ram.offset >= Size THEN g ELSE c
           f    == NoBuffer(e)
           h    == Load(f, "count", 0)
           Val(k, v) == IF d.nvs[k] = NoVal THEN v ELSE d.nvs[k]
<1>0. /\ "offset" \in Keys /\ "start" \in Keys /\ "block" \in Keys
      /\ "left" \in Keys /\ "count" \in Keys
      /\ BlockSize \in Nat /\ 0 \in Nat
  BY GeometryAssumption DEF Keys
<1>1. d0 \in Devices /\ d0.ram = d.ram /\ d0.nvs = d.nvs /\ d0.buf = <<>>
      /\ d0.flash = d.flash /\ d0.enabled
  BY DEF Devices
<1> HIDE DEF d0
<1>2. /\ a1 \in Devices /\ a1.buf = <<>>
      /\ a1.flash = d.flash /\ a1.enabled
      /\ \A j \in Keys : a1.ram[j] = IF j = "offset" THEN Val("offset", 0) ELSE 0
      /\ \A j \in Keys :
            a1.nvs[j] = IF j = "offset" THEN Val("offset", 0) ELSE d.nvs[j]
  <2>1. d0 \in Devices /\ "offset" \in Keys /\ 0 \in Nat
    BY <1>0, <1>1
  <2>2. /\ a1 \in Devices /\ a1.buf = d0.buf
        /\ a1.flash = d0.flash /\ a1.enabled = d0.enabled
        /\ \A j \in Keys : a1.ram[j] = IF j = "offset"
             THEN (IF d0.nvs["offset"] = NoVal THEN 0 ELSE d0.nvs["offset"])
             ELSE d0.ram[j]
        /\ \A j \in Keys : a1.nvs[j] = IF j = "offset"
             THEN (IF d0.nvs["offset"] = NoVal THEN 0 ELSE d0.nvs["offset"])
             ELSE d0.nvs[j]
    BY <2>1, LoadLemma
  <2> HIDE DEF a1
  <2>3. \A j \in Keys : d0.ram[j] = 0
    BY <1>1 DEF NoRam
  <2> QED BY <1>1, <2>2, <2>3
<1> HIDE DEF a1
<1>3. /\ a \in Devices /\ a.buf = <<>>
      /\ a.flash = d.flash /\ a.enabled
      /\ \A j \in Keys : a.ram[j] = IF j = "start" THEN Val("start", 0)
                                    ELSE a1.ram[j]
      /\ \A j \in Keys : a.nvs[j] = IF j = "start" THEN Val("start", 0)
                                    ELSE a1.nvs[j]
  <2>1. a1.nvs["start"] = d.nvs["start"] /\ a1.nvs.start = d.nvs["start"]
    BY <1>0, <1>2
  <2>2. a = Load(a1, "start", 0)
    <3>1. CASE d.nvs["start"] = NoVal
      <4>1. d.nvs = NoNvs
        BY <1>0, <3>1 DEF Loadable, Positions, NoVal
      <4>2. a1.ram["offset"] = 0 /\ a1.ram["start"] = 0
        BY <1>0, <1>2, <4>1 DEF NoNvs
      <4>3. [a1 EXCEPT !.ram.offset = 0] = a1
        BY <1>2, <4>2 DEF Devices, Positions
      <4>4. a1.ram.start = 0
        BY <4>2
      <4> QED BY <2>1, <3>1, <4>3, <4>4 DEF LoadStart, Load
    <3>2. CASE d.nvs["start"] # NoVal
      BY <2>1, <3>2 DEF LoadStart
    <3> QED BY <3>1, <3>2
  <2>3. a1 \in Devices /\ "start" \in Keys /\ 0 \in Nat
    BY <1>0, <1>2
  <2> DEFINE l == Load(a1, "start", 0)
  <2>4. /\ l \in Devices /\ l.buf = a1.buf
        /\ l.flash = a1.flash /\ l.enabled = a1.enabled
        /\ \A j \in Keys : l.ram[j] = IF j = "start"
             THEN (IF a1.nvs["start"] = NoVal THEN 0 ELSE a1.nvs["start"])
             ELSE a1.ram[j]
        /\ \A j \in Keys : l.nvs[j] = IF j = "start"
             THEN (IF a1.nvs["start"] = NoVal THEN 0 ELSE a1.nvs["start"])
             ELSE a1.nvs[j]
    BY <2>3, LoadLemma
  <2> HIDE DEF l, a
  <2> QED BY <1>2, <2>1, <2>2, <2>4 DEF l
<1> HIDE DEF a
<1>4. /\ b \in Devices /\ b.buf = <<>> /\ b.ram = a.ram /\ b.nvs = a.nvs
      /\ ~fail => b.enabled
      /\ ~fail => b.flash = d.flash \/ b.flash = BlockErased(d.flash, 0)
      /\ a.ram.offset # 0 => b.flash = d.flash
  <2> HIDE DEF fail
  <2>1. /\ b0 \in Devices /\ b0.ram = a.ram /\ b0.nvs = a.nvs /\ b0.buf = a.buf
        /\ ~fail => b0.flash = BlockErased(a.flash, 0)
    BY <1>3, EraseLemma, BlockArithmetic
  <2> HIDE DEF b0
  <2>2. /\ b1 \in Devices /\ b1.ram = b0.ram /\ b1.nvs = b0.nvs
        /\ b1.buf = b0.buf /\ b1.flash = b0.flash /\ b1.enabled = ~fail
    BY <2>1 DEF Devices
  <2> HIDE DEF b1
  <2> QED BY <1>3, <2>1, <2>2
<1>16. ~fail /\ a.ram.offset = 0 => b.flash = BlockErased(d.flash, 0)
  <2> HIDE DEF fail
  <2>1. b0 \in Devices /\ (~fail => b0.flash = BlockErased(a.flash, 0))
    BY <1>3, EraseLemma, BlockArithmetic
  <2> HIDE DEF b0
  <2>2. b1.flash = b0.flash
    BY <2>1 DEF Devices
  <2> HIDE DEF b1
  <2> QED BY <1>3, <2>1, <2>2
<1> HIDE DEF b
<1>5. /\ c1 \in Devices /\ c1.buf = <<>>
      /\ c1.flash = b.flash /\ c1.enabled = b.enabled
      /\ \A j \in Keys : c1.ram[j] = IF j = "left" THEN Val("left", BlockSize)
                                     ELSE b.ram[j]
      /\ \A j \in Keys : c1.nvs[j] = IF j = "left" THEN Val("left", BlockSize)
                                     ELSE b.nvs[j]
  <2>1. b \in Devices /\ "left" \in Keys /\ BlockSize \in Nat
    BY <1>0, <1>4
  <2>2. /\ c1 \in Devices /\ c1.buf = b.buf
        /\ c1.flash = b.flash /\ c1.enabled = b.enabled
        /\ \A j \in Keys : c1.ram[j] = IF j = "left"
             THEN (IF b.nvs["left"] = NoVal THEN BlockSize ELSE b.nvs["left"])
             ELSE b.ram[j]
        /\ \A j \in Keys : c1.nvs[j] = IF j = "left"
             THEN (IF b.nvs["left"] = NoVal THEN BlockSize ELSE b.nvs["left"])
             ELSE b.nvs[j]
    BY <2>1, LoadLemma
  <2>3. b.nvs["left"] = d.nvs["left"]
    BY <1>0, <1>2, <1>3, <1>4
  <2> HIDE DEF c1
  <2> QED BY <1>4, <2>2, <2>3
<1> HIDE DEF c1
<1>6. /\ c \in Devices /\ c.buf = <<>>
      /\ c.flash = b.flash /\ c.enabled = b.enabled
      /\ \A j \in Keys : c.ram[j] = IF j = "block" THEN Val("block", 0)
                                    ELSE c1.ram[j]
      /\ \A j \in Keys : c.nvs[j] = IF j = "block" THEN Val("block", 0)
                                    ELSE c1.nvs[j]
  <2>1. c1 \in Devices /\ "block" \in Keys /\ 0 \in Nat
    BY <1>0, <1>5
  <2>2. /\ c \in Devices /\ c.buf = c1.buf
        /\ c.flash = c1.flash /\ c.enabled = c1.enabled
        /\ \A j \in Keys : c.ram[j] = IF j = "block"
             THEN (IF c1.nvs["block"] = NoVal THEN 0 ELSE c1.nvs["block"])
             ELSE c1.ram[j]
        /\ \A j \in Keys : c.nvs[j] = IF j = "block"
             THEN (IF c1.nvs["block"] = NoVal THEN 0 ELSE c1.nvs["block"])
             ELSE c1.nvs[j]
    BY <2>1, LoadLemma
  <2>3. c1.nvs["block"] = d.nvs["block"]
    BY <1>0, <1>2, <1>3, <1>4, <1>5
  <2> HIDE DEF c
  <2> QED BY <1>5, <2>2, <2>3
<1> HIDE DEF c
<1>7. /\ c.ram.offset = Val("offset", 0) /\ c.nvs["offset"] = c.ram["offset"]
      /\ c.ram.start = Val("start", 0) /\ c.nvs["start"] = c.ram["start"]
      /\ c.ram.left = Val("left", BlockSize) /\ c.nvs["left"] = c.ram["left"]
      /\ c.ram.block = Val("block", 0) /\ c.nvs["block"] = c.ram["block"]
  BY <1>0, <1>2, <1>3, <1>4, <1>5, <1>6
<1>8. Consistent(c.ram) /\ StartFollows(c.ram)
  <2>1. CASE d.nvs = NoNvs
    <3>1. /\ c.ram.offset = 0 /\ c.ram.start = 0 /\ c.ram.left = BlockSize
          /\ c.ram.block = 0
      BY <1>0, <1>7, <2>1 DEF NoNvs
    <3> QED BY <1>0, <3>1, BlockArithmetic DEF Consistent, StartFollows
  <2>2. CASE d.nvs # NoNvs
    <3>1. d.nvs \in Positions /\ Consistent(d.nvs) /\ StartFollows(d.nvs)
      BY <2>2 DEF Loadable
    <3>2. /\ d.nvs["offset"] # NoVal /\ d.nvs["start"] # NoVal
          /\ d.nvs["left"] # NoVal /\ d.nvs["block"] # NoVal
      BY <1>0, <3>1 DEF Positions, NoVal
    <3>3. /\ c.ram.offset = d.nvs.offset /\ c.ram.start = d.nvs.start
          /\ c.ram.left = d.nvs.left /\ c.ram.block = d.nvs.block
      BY <1>7, <3>2
    <3> QED BY <3>1, <3>3 DEF Consistent, StartFollows
  <2> QED BY <2>1, <2>2
<1>17. /\ d.nvs = NoNvs => c.ram.offset = 0 /\ c.ram.start = 0
                           /\ c.ram.block = 0
       /\ d.nvs # NoNvs => SamePlaces(c.ram, d.nvs)
       /\ ~fail => c.flash = IF c.ram.offset = 0 THEN BlockErased(d.flash, 0)
                             ELSE d.flash
  <2>1. ASSUME d.nvs = NoNvs
        PROVE  c.ram.offset = 0 /\ c.ram.start = 0 /\ c.ram.block = 0
    BY <1>0, <1>7, <2>1 DEF NoNvs
  <2>2. ASSUME d.nvs # NoNvs PROVE SamePlaces(c.ram, d.nvs)
    <3>1. d.nvs \in Positions
      BY <2>2 DEF Loadable
    <3>2. /\ d.nvs["offset"] # NoVal /\ d.nvs["start"] # NoVal
          /\ d.nvs["block"] # NoVal
      BY <1>0, <3>1 DEF Positions, NoVal
    <3> QED BY <1>7, <3>2 DEF SamePlaces
  <2>3. c.ram.offset = a.ram.offset
    BY <1>0, <1>4, <1>5, <1>6
  <2> HIDE DEF fail, Val
  <2>4. ~fail => c.flash = IF c.ram.offset = 0 THEN BlockErased(d.flash, 0)
                           ELSE d.flash
    BY <1>4, <1>6, <1>16, <2>3
  <2> QED BY <2>1, <2>2, <2>4
<1>9. Agree(c, K)
  BY <1>7 DEF Agree, Keys
<1>10. Sound(c, K)
  BY <1>6, <1>8, <1>9, GeometryAssumption DEF Sound
<1> DEFINE Readable == NoJunk(d.flash) /\ (d.nvs # NoNvs => Blank(d.flash, d.nvs))
<1>15. ASSUME ~fail, Readable PROVE Clean(c)
  <2>1. NoJunk(c.flash)
    BY <1>4, <1>6, <1>15, ErasedClean
  <2>2. CleanBuf(c.buf)
    BY <1>6 DEF CleanBuf
  <2>3. CASE d.nvs = NoNvs
    <3>1. c.ram.offset = 0 /\ c.ram.block = 0 /\ a.ram.offset = 0
      BY <1>0, <1>2, <1>3, <1>7, <2>3 DEF NoNvs
    <3>2. c.flash = BlockErased(d.flash, 0)
      BY <1>6, <1>15, <1>16, <3>1
    <3> QED BY <2>1, <2>2, <3>1, <3>2, ErasedClean DEF Clean
  <2>4. CASE d.nvs # NoNvs
    <3>1. d.nvs \in Positions
      BY <2>4 DEF Loadable
    <3>2. d.nvs["offset"] # NoVal /\ d.nvs["block"] # NoVal
      BY <1>0, <3>1 DEF Positions, NoVal
    <3>3. c.ram.offset = d.nvs.offset /\ c.ram.block = d.nvs.block
      BY <1>7, <3>2
    <3>4. Blank(c.flash, d.nvs)
      BY <1>4, <1>6, <1>15, <2>4, ErasedClean
    <3>5. Blank(c.flash, c.ram)
      BY <3>3, <3>4 DEF Blank
    <3> QED BY <2>1, <2>2, <3>5 DEF Clean
  <2> QED BY <2>3, <2>4
<1>11. /\ Sound(e, K)
       /\ ~fail => e.enabled
       /\ ~fail /\ Readable => Clean(e)
  <2>1. K \in SUBSET Keys
    OBVIOUS
  <2> HIDE DEF K
  <2>2. Sound(g, K) /\ g.enabled = c.enabled
    BY <1>10, <2>1, GoToNextLemma
  <2>3. ~fail /\ Clean(c) => Clean(g)
    BY <1>10, <2>1, GoToNextClean DEF fail
  <2>4. ~fail => c.enabled
    BY <1>4, <1>6
  <2> HIDE DEF g, Readable
  <2> QED BY <1>10, <1>15, <2>2, <2>3, <2>4
<1>18. e = IF c.ram.offset >= Size THEN GoToNextBlock(c, F) ELSE c
  OBVIOUS
<1> HIDE DEF e
<1>12. /\ Sound(f, K) /\ f.buf = <<>> /\ f.enabled = e.enabled
       /\ f.ram = e.ram /\ f.flash = e.flash
  <2> HIDE DEF K
  <2> QED BY <1>11, NoBufferLemma
<1> HIDE DEF f
<1>13. /\ Sound(h, Keys) /\ h.buf = <<>> /\ h.enabled = e.enabled
       /\ Clean(e) => Clean(h)
       /\ h.flash = e.flash /\ SamePlaces(h.ram, e.ram)
  <2>1. f \in Devices /\ "count" \in Keys /\ 0 \in Nat
    BY <1>0, <1>12 DEF Sound
  <2> DEFINE x == IF f.nvs["count"] = NoVal THEN 0 ELSE f.nvs["count"]
  <2>2. /\ h \in Devices /\ h.buf = f.buf
        /\ h.flash = f.flash /\ h.enabled = f.enabled
        /\ \A j \in Keys : h.ram[j] = IF j = "count" THEN x ELSE f.ram[j]
        /\ \A j \in Keys : h.nvs[j] = IF j = "count" THEN x ELSE f.nvs[j]
    BY <2>1, LoadLemma
  <2> HIDE DEF h, x
  <2>3. /\ h.ram.offset = f.ram.offset /\ h.ram.start = f.ram.start
        /\ h.ram.left = f.ram.left /\ h.ram.block = f.ram.block
    BY <1>0, <2>2
  <2>4. Consistent(h.ram) /\ StartFollows(h.ram)
    BY <1>12, <2>3 DEF Sound, Consistent, StartFollows
  <2>5. \A j \in K : f.nvs[j] = f.ram[j]
    BY <1>12 DEF Sound, Agree
  <2>6. Agree(h, Keys)
    BY <2>2, <2>5 DEF Agree
  <2>7. Len(h.buf) <= PageSize
    BY <1>12, <2>2, GeometryAssumption
  <2>8. Clean(e) => Clean(h)
    <3>1. CleanBuf(h.buf)
      BY <1>12, <2>2 DEF CleanBuf
    <3>2. Blank(e.flash, e.ram) => Blank(h.flash, h.ram)
      BY <1>12, <2>2, <2>3 DEF Blank
    <3> QED BY <1>12, <2>2, <3>1, <3>2 DEF Clean
  <2>9. SamePlaces(h.ram, e.ram)
    BY <1>12, <2>3 DEF SamePlaces
  <2> QED BY <1>12, <2>2, <2>4, <2>6, <2>7, <2>8, <2>9 DEF Sound
<1> HIDE DEF h
<1>14. LoadPositions(d, F) = h
  <2>1. b = EraseFirst(a, "erase" \in F)
    BY DEF EraseFirst, b, b1, b0, fail
  <2>2. e = LeaveFullPartition(c, F)
    BY DEF LeaveFullPartition, e, g
  <2> QED BY <2>1, <2>2 DEF LoadPositions, h, f, c, c1, a, a1, d0
<1>19. ASSUME ~fail PROVE Loaded(d, c, h, F)
  <2>1. Sound(c, Keys \ {"count"}) /\ c.buf = <<>>
    BY <1>6, <1>10
  <2>2. c.enabled /\ h.enabled
    BY <1>4, <1>6, <1>11, <1>13, <1>19
  <2>3. c.flash = IF c.ram.offset = 0 THEN BlockErased(d.flash, 0) ELSE d.flash
    BY <1>17, <1>19
  <2> HIDE DEF K, fail, Val
  <2> QED BY <1>13, <1>17, <1>18, <2>1, <2>2, <2>3 DEF Loaded
<1> QED BY <1>11, <1>13, <1>14, <1>19 DEF fail
(* A boot leaves a sound device, whichever of its two attempts ends it.    *)
LEMMA InitFlashLemma ==
    ASSUME NEW d \in Devices, d.ram = NoRam, d.buf = <<>>, Loadable(d.nvs),
           NEW id \in 0 .. MaxMsgs, NEW F, NEW G
    PROVE  LET i == InitFlash(d, id, F, G)
           IN  Sound(i, Keys) /\ Len(i.buf) < PageSize
<1> DEFINE p == LoadPositions(d, F)
           t == TestFlash(p, id, F)
           td == t.dev
           g == GoToNextBlock(td, G)
           u == TestFlash(g, id + 1, G)
           ud == u.dev
           v == ud.enabled /\ ~u.err
           x == [ud EXCEPT !.enabled = v]
<1>0. Keys \in SUBSET Keys
  OBVIOUS
<1>1. Sound(p, Keys) /\ Len(p.buf) < PageSize
  <2>1. Sound(p, Keys) /\ p.buf = <<>>
    BY LoadPositionsLemma
  <2> HIDE DEF p
  <2> QED BY <2>1, GeometryAssumption
<1> HIDE DEF p
<1>2. id \in 0 .. MaxMsgs + 1 /\ id + 1 \in 0 .. MaxMsgs + 1
  BY BoundsAssumption
<1>3. Sound(td, Keys) /\ Len(td.buf) < PageSize
  BY <1>0, <1>1, <1>2, TestFlashLemma
<1> HIDE DEF td
<1>4. Sound(g, Keys) /\ g.buf = td.buf
  BY <1>0, <1>3, GoToNextLemma
<1> HIDE DEF g
<1>5. Sound(ud, Keys) /\ Len(ud.buf) < PageSize
  <2> DEFINE k == id + 1
  <2>1. /\ Sound(g, Keys) /\ Len(g.buf) < PageSize /\ k \in 0 .. MaxMsgs + 1
    BY <1>2, <1>3, <1>4
  <2> HIDE DEF k
  <2>2. Sound(TestFlash(g, k, G).dev, Keys) /\ Len(TestFlash(g, k, G).dev.buf) < PageSize
    BY <1>0, <2>1, TestFlashLemma
  <2> QED BY <2>2 DEF k
<1>6. v \in BOOLEAN
  OBVIOUS
<1> HIDE DEF ud, v
<1>7. Sound(x, Keys) /\ x.buf = ud.buf
  <2>1. {} \in SUBSET Images
    OBVIOUS
  <2> QED BY <1>5, <1>6, <2>1, OtherFields
<1> HIDE DEF x
<1>8. InitFlash(d, id, F, G) = IF ~t.err THEN td ELSE x
  BY DEF InitFlash, Retry, DisabledOnError, x, v, ud, u, g, td, t, p
<1> HIDE DEF t
<1> QED BY <1>3, <1>5, <1>7, <1>8

-----------------------------------------------------------------------------
(* The inductive invariant and the theorems                                *)

(* Switched on, the device is sound and its buffer is below a page;        *)
(* switched off, NVS holds nothing or a log that can be loaded.            *)
IInv ==
    /\ power \in {"off", "on"}
    /\ nextId \in 1 .. MaxMsgs + 1
    /\ faults \in Nat /\ cuts \in Nat
    /\ dev \in Devices /\ dev.trail = {}
    /\ power = "on" => Sound(dev, Keys) /\ Len(dev.buf) < PageSize
    /\ power = "off" => dev.ram = NoRam /\ dev.buf = <<>> /\ Loadable(dev.nvs)

(* The faults of a handler can be counted.                                 *)
LEMMA FaultCount ==
    ASSUME NEW F \in SUBSET FaultSites
    PROVE  Cardinality(F) \in Nat
<1>1. IsFiniteSet({"write1"} \cup {"write2"} \cup {"flush"} \cup {"erase"})
  BY FS_Singleton, FS_Union
<1>2. F \in SUBSET ({"write1"} \cup {"write2"} \cup {"flush"} \cup {"erase"})
  BY BoundsAssumption DEF Sites
<1> QED BY <1>1, <1>2, FS_Subset, FS_CardinalityType

(* A device without power is a device.                                     *)
LEMMA PoweredDownLemma ==
    ASSUME NEW img \in Images
    PROVE  LET d == PoweredDown(img)
           IN  /\ d \in Devices /\ d.trail = {} /\ d.ram = NoRam
               /\ d.buf = <<>> /\ d.nvs = img.nvs
<1>1. NoRam \in Positions
  BY DEF NoRam, Positions
<1> QED BY <1>1 DEF PoweredDown, Devices, Images

(* The factory state satisfies the invariant.                              *)
LEMMA InitIInv == Init => IInv
<1> SUFFICES ASSUME Init PROVE IInv
  OBVIOUS
<1>1. FactoryImage \in Images
  <2>1. NoNvs \in Records
    BY DEF NoNvs, Records
  <2>2. Erased \in Cells
    BY GeometryAssumption, BoundsAssumption DEF Erased, Cells
  <2> QED BY <2>1, <2>2 DEF FactoryImage, Images, Chip
<1>2. Loadable(FactoryImage.nvs)
  BY DEF Loadable, FactoryImage
<1> HIDE DEF FactoryImage
<1>3. /\ dev \in Devices /\ dev.trail = {} /\ dev.ram = NoRam /\ dev.buf = <<>>
      /\ Loadable(dev.nvs)
  BY <1>1, <1>2, PoweredDownLemma DEF Init
<1>4. /\ power = "off" /\ nextId \in 1 .. MaxMsgs + 1 /\ faults \in Nat
      /\ cuts \in Nat
  BY BoundsAssumption DEF Init
<1> QED BY <1>3, <1>4 DEF IInv

(* A handler that ends with a sound device keeps the invariant.            *)
LEMMA CompletedIInv ==
    ASSUME NEW d, Sound(d, Keys), Len(d.buf) < PageSize, Completed(d),
           cuts \in Nat, faults' \in Nat, nextId' \in 1 .. MaxMsgs + 1
    PROVE  IInv'
<1> DEFINE x == [d EXCEPT !.trail = {}]
<1>1. dev' = x /\ power' = "on" /\ cuts' = cuts
  BY DEF Completed
<1>2. Sound(x, Keys) /\ x.buf = d.buf
  <2>1. {} \in SUBSET Images /\ TRUE \in BOOLEAN
    OBVIOUS
  <2> QED BY <2>1, OtherFields
<1>3. x \in Devices /\ x.trail = {}
  BY DEF Sound, Devices
<1> HIDE DEF x
<1> QED BY <1>1, <1>2, <1>3 DEF IInv

(* Every step keeps the invariant.                                         *)
LEMMA NextIInv == IInv /\ [Next]_vars => IInv'
<1> SUFFICES ASSUME IInv, [Next]_vars PROVE IInv'
  OBVIOUS
<1>0. Keys \in SUBSET Keys
  OBVIOUS
<1>1. CASE Boot
  <2>1. PICK F \in FaultSets, G \in FaultSets :
           /\ power = "off" /\ nextId + 1 <= MaxMsgs
           /\ faults' = faults + (Cardinality(F) + Cardinality(G))
           /\ Completed(InitFlash(dev, nextId, F, G))
           /\ nextId' = nextId + 2
    BY <1>1 DEF Boot, BootTo, Failed
  <2> DEFINE d == InitFlash(dev, nextId, F, G)
  <2>2. Cardinality(F) \in Nat /\ Cardinality(G) \in Nat
    BY FaultCount DEF FaultSets
  <2>3. nextId \in 0 .. MaxMsgs
    BY <2>1, BoundsAssumption DEF IInv
  <2>4. Sound(d, Keys) /\ Len(d.buf) < PageSize
    <3>1. dev \in Devices /\ dev.ram = NoRam /\ dev.buf = <<>> /\ Loadable(dev.nvs)
      BY <2>1 DEF IInv
    <3> QED BY <2>3, <3>1, InitFlashLemma
  <2> HIDE DEF d
  <2>5. cuts \in Nat /\ faults' \in Nat /\ nextId' \in 1 .. MaxMsgs + 1
    BY <2>1, <2>2, <2>3, BoundsAssumption DEF IInv
  <2>6. Completed(d)
    BY <2>1 DEF d
  <2> QED BY <2>4, <2>5, <2>6, CompletedIInv
<1>2. CASE StoreMsg
  <2>1. PICK n \in Sizes, F \in FaultSets :
           /\ power = "on" /\ nextId <= MaxMsgs
           /\ faults' = faults + Cardinality(F)
           /\ Completed(StoreMessage(dev, nextId, n, F).dev)
           /\ nextId' = nextId + 1
    BY <1>2 DEF StoreMsg, StoreTo, Failed
  <2> DEFINE d == StoreMessage(dev, nextId, n, F).dev
  <2>2. Cardinality(F) \in Nat
    BY FaultCount DEF FaultSets
  <2>3. nextId \in 0 .. MaxMsgs + 1 /\ nextId + 1 \in 1 .. MaxMsgs + 1
    BY <2>1, BoundsAssumption DEF IInv
  <2>4. Sound(d, Keys) /\ Len(d.buf) < PageSize
    <3>1. Sound(dev, Keys) /\ Len(dev.buf) < PageSize
      BY <2>1 DEF IInv
    <3>2. n \in Nat /\ n <= BlockSize /\ n < 2 * PageSize
      BY SizesAssumption
    <3> QED BY <1>0, <2>3, <3>1, <3>2, StoreMessageLemma
  <2> HIDE DEF d
  <2>5. cuts \in Nat /\ faults' \in Nat /\ nextId' \in 1 .. MaxMsgs + 1
    BY <2>1, <2>2, <2>3 DEF IInv
  <2>6. Completed(d)
    BY <2>1 DEF d
  <2> QED BY <2>4, <2>5, <2>6, CompletedIInv
<1>3. CASE Read
  <2>1. PICK F \in FaultSets :
           /\ power = "on"
           /\ faults' = faults + Cardinality(F)
           /\ Completed(WriteBufferToFlash(dev, "flush", F).dev)
           /\ nextId' = nextId
    BY <1>3 DEF Read, ReadTo, Failed
  <2> DEFINE d == WriteBufferToFlash(dev, "flush", F).dev
  <2>2. Cardinality(F) \in Nat
    BY FaultCount DEF FaultSets
  <2>3. Sound(d, Keys) /\ Len(d.buf) < PageSize
    <3>1. Sound(dev, Keys) /\ Len(dev.buf) < PageSize
      BY <2>1 DEF IInv
    <3> QED BY <1>0, <3>1, FlushLemma
  <2> HIDE DEF d
  <2>4. cuts \in Nat /\ faults' \in Nat /\ nextId' \in 1 .. MaxMsgs + 1
    BY <2>1, <2>2 DEF IInv
  <2>5. Completed(d)
    BY <2>1 DEF d
  <2> QED BY <2>3, <2>4, <2>5, CompletedIInv
<1>4. CASE Clear
  <2>1. PICK F \in FaultSets :
           /\ power = "on"
           /\ faults' = faults + Cardinality(F)
           /\ Completed(ClearFlashData(dev, F))
           /\ nextId' = nextId
    BY <1>4 DEF Clear, ClearTo, Failed
  <2> DEFINE d == ClearFlashData(dev, F)
  <2>2. Cardinality(F) \in Nat
    BY FaultCount DEF FaultSets
  <2>3. Sound(d, Keys) /\ Len(d.buf) < PageSize
    <3>1. Sound(dev, Keys) /\ Len(dev.buf) < PageSize
      BY <2>1 DEF IInv
    <3> QED BY <1>0, <3>1, ClearLemma
  <2> HIDE DEF d
  <2>4. cuts \in Nat /\ faults' \in Nat /\ nextId' \in 1 .. MaxMsgs + 1
    BY <2>1, <2>2 DEF IInv
  <2>5. Completed(d)
    BY <2>1 DEF d
  <2> QED BY <2>3, <2>4, <2>5, CompletedIInv
<1>5. CASE Disable
  <2> DEFINE x == [dev EXCEPT !.enabled = FALSE]
  <2>1. /\ power = "on" /\ dev' = x /\ power' = power /\ nextId' = nextId
        /\ faults' = faults /\ cuts' = cuts
    BY <1>5 DEF Disable
  <2>2. Sound(dev, Keys) /\ Len(dev.buf) < PageSize
    BY <2>1 DEF IInv
  <2>3. Sound(x, Keys) /\ x.buf = dev.buf
    <3>1. {} \in SUBSET Images /\ FALSE \in BOOLEAN
      OBVIOUS
    <3> QED BY <2>2, <3>1, OtherFields
  <2>4. x \in Devices /\ x.trail = {}
    BY DEF IInv, Devices
  <2> HIDE DEF x
  <2> QED BY <2>1, <2>2, <2>3, <2>4 DEF IInv
<1>6. CASE PowerOff
  <2> DEFINE img == Image(dev)
  <2>1. /\ power = "on" /\ dev' = PoweredDown(img) /\ power' = "off"
        /\ nextId' = nextId /\ faults' = faults /\ cuts' = cuts
    BY <1>6 DEF PowerOff
  <2>2. img \in Images /\ img.nvs = dev.nvs
    BY DEF IInv, Devices, Image, Images
  <2>3. Loadable(dev.nvs)
    <3>1. Sound(dev, Keys)
      BY <2>1 DEF IInv
    <3>2. dev.nvs = dev.ram
      BY <3>1 DEF Sound, Agree, Devices, Positions, Records
    <3>3. dev.ram \in Positions /\ Consistent(dev.ram) /\ StartFollows(dev.ram)
      BY <3>1 DEF Sound, Devices
    <3> QED BY <3>2, <3>3 DEF Loadable
  <2> HIDE DEF img
  <2>4. /\ dev' \in Devices /\ dev'.trail = {} /\ dev'.ram = NoRam
        /\ dev'.buf = <<>> /\ dev'.nvs = dev.nvs
    BY <2>1, <2>2, PoweredDownLemma
  <2> QED BY <2>1, <2>3, <2>4 DEF IInv
<1>7. CASE UNCHANGED vars
  BY <1>7 DEF vars, IInv
<1> QED BY <1>1, <1>2, <1>3, <1>4, <1>5, <1>6, <1>7 DEF Next

(* The invariant holds in every state.                                     *)
LEMMA SpecIInv == Spec => []IInv
<1> QED BY InitIInv, NextIInv, PTL DEF Spec

(* Every variable keeps its shape: in particular the page buffer is never  *)
(* left full between two handlers.                                         *)
THEOREM TypeCorrect == Spec => []TypeOK
<1>1. IInv => TypeOK
  <2>1. Len(<<>>) < PageSize
    BY GeometryAssumption
  <2> QED BY <2>1 DEF IInv, TypeOK
<1> QED BY <1>1, SpecIInv, PTL

(* The positions agree with each other and with their NVS records, however *)
(* many stores, wraps, clears, resets and failed flash accesses occur.     *)
THEOREM GeometryHolds == Spec => []Geometry
<1>1. IInv => Geometry
  <2> SUFFICES ASSUME IInv PROVE Geometry
    OBVIOUS
  <2>1. ASSUME power = "on" PROVE Consistent(dev.ram) /\ dev.nvs = dev.ram
    BY <2>1 DEF IInv, Sound, Agree, Devices, Positions, Records
  <2>2. ASSUME power = "off" PROVE dev.nvs = NoNvs \/ Consistent(dev.nvs)
    BY <2>2 DEF IInv, Loadable
  <2> QED BY <2>1, <2>2 DEF Geometry
<1> QED BY <1>1, SpecIInv, PTL

(* The start of the log is never given up by more than one block.          *)
THEOREM OneBlockReclaimedHolds == Spec => []OneBlockReclaimed
<1>1. IInv => OneBlockReclaimed
  <2> SUFFICES ASSUME IInv, ~Fresh PROVE StartFollows(Seen.ram)
    BY DEF OneBlockReclaimed
  <2>1. CASE power = "on"
    BY <2>1 DEF IInv, Sound, Seen, SeenOf
  <2>2. CASE power = "off"
    <3>1. dev.nvs # NoNvs
      BY <2>2 DEF Fresh, IsFresh
    <3>2. StartFollows(dev.nvs)
      BY <2>2, <3>1 DEF IInv, Loadable
    <3>3. Seen.ram = dev.nvs
      BY <2>2 DEF Seen, SeenOf, IInv, Devices
    <3> QED BY <3>2, <3>3
  <2> QED BY <2>1, <2>2 DEF IInv
<1> QED BY <1>1, SpecIInv, PTL

-----------------------------------------------------------------------------
(* What is written lands on erased flash                                   *)

(* Programming erased cells leaves what was written, and no junk.          *)
LEMMA ProgrammedClean ==
    ASSUME NEW flash \in Chip, NEW o \in Nat, NEW cells \in Seq(Cells),
           NEW end \in Nat, o + Len(cells) <= end,
           \A p \in Offsets : o <= p /\ p < end => flash[p] = Erased
    PROVE  LET f == Programmed(flash, o, cells)
           IN  /\ NoJunk(flash) /\ CleanBuf(cells) => NoJunk(f)
               /\ \A p \in Offsets :
                     o + Len(cells) <= p /\ p < end => f[p] = Erased
               /\ \A p \in Offsets :
                     o <= p /\ p < o + Len(cells) => f[p] = cells[p - o + 1]
<1> DEFINE f == Programmed(flash, o, cells)
           n == Len(cells)
<1>1. n \in Nat
  OBVIOUS
<1>2. \A p \in Offsets : p \in Nat
  BY BlockArithmetic DEF Offsets
<1>3. \A p \in Offsets :
         f[p] = IF o <= p /\ p < o + n
                THEN IF flash[p] = Erased THEN cells[p - o + 1] ELSE Junk
                ELSE flash[p]
  BY DEF Programmed
<1>4. \A i \in 1 .. n : CleanBuf(cells) => cells[i] # Junk
  BY DEF CleanBuf
<1> HIDE DEF f, n
<1>5. o + n <= end
  BY DEF n
<1>6. ASSUME NEW p \in Offsets, o <= p, p < o + n
      PROVE  f[p] = cells[p - o + 1] /\ p - o + 1 \in 1 .. n
  <2>1. p \in Nat /\ p < end
    BY <1>1, <1>2, <1>5, <1>6
  <2>2. p - o + 1 \in 1 .. n
    BY <1>1, <1>6, <2>1
  <2>3. flash[p] = Erased
    BY <1>6, <2>1
  <2> QED BY <1>3, <1>6, <2>2, <2>3
<1>7. ASSUME NEW p \in Offsets, o + n <= p, p < end PROVE f[p] = Erased
  <2>1. p \in Nat /\ o <= p /\ ~(p < o + n)
    BY <1>1, <1>2, <1>7
  <2> QED BY <1>3, <1>7, <2>1
<1>8. ASSUME NoJunk(flash), CleanBuf(cells) PROVE NoJunk(f)
  <2> SUFFICES ASSUME NEW p \in Offsets PROVE f[p] # Junk
    BY DEF NoJunk
  <2>1. CASE o <= p /\ p < o + n
    BY <1>4, <1>6, <1>8, <2>1
  <2>2. CASE ~(o <= p /\ p < o + n)
    BY <1>3, <1>8, <2>2 DEF NoJunk
  <2> QED BY <2>1, <2>2
<1> QED BY <1>6, <1>7, <1>8 DEF f, n

(* A buffer that fits in the rest of the block reaches the flash, unless   *)
(* the write is refused; a clean device stays clean.                       *)
LEMMA WriteOutClean ==
    ASSUME NEW K \in SUBSET Keys, NEW d, Sound(d, K),
           Len(d.buf) <= d.ram.left, NEW works
    PROVE  LET w == WriteOut(d, works)
           IN  /\ Clean(d) => Clean(w.dev)
               /\ w.err <=> ~works
               /\ works => /\ w.dev.ram.offset = d.ram.offset + Len(d.buf)
                           /\ w.dev.ram.block = d.ram.block
                           /\ w.dev.ram.start = d.ram.start
                           /\ w.dev.ram.left = d.ram.left - Len(d.buf)
                           /\ w.dev.flash = Programmed(d.flash, d.ram.offset, d.buf)
               /\ ~works => w.dev.ram = d.ram /\ w.dev.flash = d.flash
<1> DEFINE n  == Len(d.buf)
           o  == d.ram.offset
           w1 == WriteCells(d, o, d.buf)
           w2 == Advance(w1, n)
           ok == works /\ d.ram.offset + Len(d.buf) <= Size
           x  == IF ok THEN w2 ELSE d
           y  == NoBuffer(x)
           end == d.ram.block + BlockSize
<1>1. /\ d \in Devices /\ o \in Nat /\ d.ram.left \in Nat
      /\ d.buf \in Seq(Cells) /\ n \in Nat /\ d.flash \in Chip
  BY DEF Sound, Devices, Positions, Keys
<1>2. WriteOut(d, works).dev = y /\ WriteOut(d, works).err = ~ok
  BY DEF WriteOut
<1>3. /\ w1 \in Devices /\ w1.ram = d.ram /\ w1.nvs = d.nvs /\ w1.buf = d.buf
      /\ w1.flash = Programmed(d.flash, o, d.buf)
  <2> HIDE DEF o
  <2> QED BY <1>1, WriteCellsLemma
<1> HIDE DEF w1
<1>4. Sound(w1, K)
  BY <1>3 DEF Sound, Agree
<1>5. /\ Sound(w2, K) /\ w2.flash = w1.flash
      /\ w2.ram.offset = o + n /\ w2.ram.block = d.ram.block
      /\ w2.ram.start = d.ram.start /\ w2.ram.left = d.ram.left - n
  <2>1. n \in Nat /\ n <= w1.ram.left
    BY <1>1, <1>3
  <2> HIDE DEF n
  <2>2. /\ Sound(w2, K) /\ w2.flash = w1.flash
        /\ w2.ram.offset = w1.ram.offset + n /\ w2.ram.block = w1.ram.block
        /\ w2.ram.start = w1.ram.start /\ w2.ram.left = w1.ram.left - n
    BY <1>4, <2>1, AdvanceLemma
  <2> QED BY <1>3, <2>2
<1> HIDE DEF w2
<1>6. end \in Nat /\ o + n <= end /\ end <= Size
  <2>1. /\ d.ram.block \in Nat /\ BlockSize \in Nat
        /\ d.ram.left = d.ram.block + BlockSize - o
        /\ d.ram.block + BlockSize <= Size
    BY BlockArithmetic, GeometryAssumption DEF Sound, Consistent
  <2>2. n <= d.ram.left
    OBVIOUS
  <2> HIDE DEF n, o
  <2> QED BY <1>1, <2>1, <2>2
<1>7. ok <=> works
  BY <1>1, <1>6, BlockArithmetic
<1>8. Blank(d.flash, d.ram) =>
        \A p \in Offsets : o <= p /\ p < end => d.flash[p] = Erased
  BY DEF Blank
<1>9. ASSUME Clean(d) PROVE NoJunk(w2.flash) /\ Blank(w2.flash, w2.ram)
  <2> DEFINE u == d.buf
             fl == d.flash
  <2>1. /\ fl \in Chip /\ o \in Nat /\ u \in Seq(Cells) /\ end \in Nat
        /\ o + Len(u) <= end
        /\ \A p \in Offsets : o <= p /\ p < end => fl[p] = Erased
    BY <1>1, <1>6, <1>8, <1>9 DEF Clean
  <2> HIDE DEF u, fl, o, end
  <2>2. LET f == Programmed(fl, o, u)
        IN  /\ NoJunk(fl) /\ CleanBuf(u) => NoJunk(f)
            /\ \A p \in Offsets : o + Len(u) <= p /\ p < end => f[p] = Erased
    BY <2>1, ProgrammedClean
  <2>3. w2.flash = Programmed(fl, o, u)
    BY <1>3, <1>5 DEF fl, u, o
  <2>4. w2.ram.offset = o + Len(u) /\ w2.ram.block + BlockSize = end
    BY <1>5 DEF u, o, end
  <2>5. Blank(w2.flash, w2.ram)
    BY <2>2, <2>3, <2>4 DEF Blank
  <2>6. NoJunk(fl) /\ CleanBuf(u)
    BY <1>9 DEF Clean, fl, u
  <2> QED BY <2>2, <2>3, <2>5, <2>6
<1> HIDE DEF ok
<1>10. Sound(x, K)
  BY <1>5
<1>11. /\ y.buf = <<>> /\ y.ram = x.ram /\ y.flash = x.flash
  <2> HIDE DEF x
  <2> QED BY <1>10, NoBufferLemma
<1> HIDE DEF y
<1>12. Clean(d) => Clean(y)
  <2>1. CleanBuf(y.buf)
    BY <1>11 DEF CleanBuf
  <2> QED BY <1>9, <1>11, <2>1 DEF Clean
<1>13. /\ works => /\ y.ram.offset = o + n /\ y.ram.block = d.ram.block
                   /\ y.ram.start = d.ram.start /\ y.ram.left = d.ram.left - n
                   /\ y.flash = Programmed(d.flash, o, d.buf)
       /\ ~works => y.ram = d.ram /\ y.flash = d.flash
  BY <1>3, <1>5, <1>7, <1>11
<1> HIDE DEF x
<1> QED BY <1>2, <1>7, <1>12, <1>13

(* Writing the buffer out keeps a device clean.                            *)
LEMMA WriteBufferClean ==
    ASSUME NEW K \in SUBSET Keys, NEW d, Sound(d, K), Clean(d), NEW site,
           NEW F, "erase" \notin F
    PROVE  Clean(WriteBufferToFlash(d, site, F).dev)
<1> DEFINE e == IF Len(d.buf) > d.ram.left THEN GoToNextBlock(d, F) ELSE d
           works == site \notin F
           w == WriteOut(e, works)
<1>1. CASE ~d.enabled
  BY <1>1 DEF WriteBufferToFlash
<1>2. CASE d.enabled
  <2>1. /\ PageSize \in Nat /\ BlockSize \in Nat /\ PageSize <= BlockSize
    BY GeometryAssumption
  <2>2. /\ d.buf \in Seq(Cells) /\ Len(d.buf) <= PageSize /\ d.ram.left \in Nat
    BY DEF Sound, Devices, Positions, Keys
  <2>3. /\ Sound(e, K) /\ Len(e.buf) <= e.ram.left /\ Clean(e)
    <3>1. CASE Len(d.buf) > d.ram.left
      <4>1. /\ Sound(e, K) /\ e.ram.left = BlockSize /\ e.buf = d.buf
        BY <1>2, <3>1, GoToNextLemma
      <4>2. Clean(e)
        BY <3>1, GoToNextClean
      <4> HIDE DEF e
      <4> QED BY <2>1, <2>2, <4>1, <4>2
    <3>2. CASE ~(Len(d.buf) > d.ram.left)
      BY <2>2, <3>2
    <3> QED BY <3>1, <3>2
  <2>4. WriteBufferToFlash(d, site, F) = w
    BY <1>2 DEF WriteBufferToFlash
  <2> HIDE DEF e, works
  <2>5. Clean(w.dev)
    BY <2>3, WriteOutClean
  <2> QED BY <2>4, <2>5
<1> QED BY <1>1, <1>2

(* Making room keeps a device clean.                                       *)
LEMMA MakeRoomClean ==
    ASSUME NEW K \in SUBSET Keys, NEW d, Sound(d, K), Clean(d), NEW n,
           NEW F, "erase" \notin F
    PROVE  Clean(MakeRoom(d, n, F))
<1> DEFINE w == WriteBufferToFlash(d, "write1", F)
           wd == w.dev
           g == GoToNextBlock(wd, F)
<1>1. Sound(wd, K) /\ Clean(wd)
  BY WriteBufferLemma, WriteBufferClean
<1>2. MakeRoom(d, n, F) = wd \/ MakeRoom(d, n, F) = g \/ MakeRoom(d, n, F) = d
  BY DEF MakeRoom, LeaveBlock
<1> HIDE DEF wd
<1>3. Clean(g)
  BY <1>1, GoToNextClean
<1> QED BY <1>1, <1>2, <1>3

(* Replacing the buffer of a clean device by cells of messages.            *)
LEMMA BufferClean ==
    ASSUME NEW K, NEW d, Sound(d, K), Clean(d), NEW u, CleanBuf(u), NEW n
    PROVE  Clean([d EXCEPT !.buf = u, !.nbuf = n])
<1> DEFINE x == [d EXCEPT !.buf = u, !.nbuf = n]
<1>1. x.ram = d.ram /\ x.flash = d.flash /\ x.buf = u
  BY DEF Sound, Devices
<1> HIDE DEF x
<1> QED BY <1>1 DEF Clean, x

(* Storing a message keeps a device clean.                                 *)
LEMMA StoreMessageClean ==
    ASSUME NEW K \in SUBSET Keys, NEW d, Sound(d, K), Clean(d),
           Len(d.buf) < PageSize, NEW id \in 0 .. MaxMsgs + 1,
           NEW n \in Nat \ {0}, n <= BlockSize, n < 2 * PageSize,
           NEW F, "erase" \notin F
    PROVE  Clean(StoreMessage(d, id, n, F).dev)
<1> DEFINE r   == MakeRoom(d, n, F)
           all == r.buf \o MsgCells(id, n)
           hd  == SubSeq(all, 1, PageSize)
           tl  == SubSeq(all, PageSize + 1, Len(all))
           p   == [r EXCEPT !.buf = hd]
           w   == WriteBufferToFlash(p, "write2", F)
           wd  == w.dev
           x   == [r EXCEPT !.buf = all, !.nbuf = r.nbuf + 1]
           y   == [wd EXCEPT !.buf = tl, !.nbuf = wd.nbuf + 1]
<1>0. PageSize \in Nat /\ PageSize >= 2
  BY GeometryAssumption
<1>1. Sound(r, K) /\ Clean(r)
  BY MakeRoomLemma, MakeRoomClean
<1>2. r \in Devices /\ r.buf \in Seq(Cells) /\ r.nbuf \in Nat
  BY <1>1 DEF Sound, Devices
<1>3. MsgCells(id, n) \in Seq(Cells) /\ Len(MsgCells(id, n)) = n
  BY MsgCellsType
<1>4. \A i \in 1 .. n : MsgCells(id, n)[i] # Junk
  BY DEF MsgCells, Junk
<1> HIDE DEF r
<1>5. all \in Seq(Cells) /\ CleanBuf(all)
  <2> DEFINE c == MsgCells(id, n)
             b == r.buf
  <2>1. b \in Seq(Cells) /\ c \in Seq(Cells)
    BY <1>2, <1>3
  <2>2. \A i \in 1 .. Len(b) : b[i] # Junk
    BY <1>1 DEF Clean, CleanBuf
  <2>3. \A i \in 1 .. Len(c) : c[i] # Junk
    BY <1>3, <1>4
  <2> HIDE DEF b, c
  <2>4. /\ b \o c \in Seq(Cells) /\ Len(b \o c) = Len(b) + Len(c)
        /\ \A i \in 1 .. Len(b) + Len(c) :
              (b \o c)[i] = IF i <= Len(b) THEN b[i] ELSE c[i - Len(b)]
    BY <2>1
  <2>5. ASSUME NEW i \in 1 .. Len(b) + Len(c) PROVE (b \o c)[i] # Junk
    <3>1. CASE i <= Len(b)
      BY <2>1, <2>2, <2>4, <3>1
    <3>2. CASE ~(i <= Len(b))
      <4>1. i - Len(b) \in 1 .. Len(c)
        BY <2>1, <3>2
      <4> QED BY <2>3, <2>4, <3>2, <4>1
    <3> QED BY <3>1, <3>2
  <2> QED BY <2>4, <2>5 DEF CleanBuf, b, c
<1>6. StoreMessage(d, id, n, F).dev =
        IF ~d.enabled THEN d
        ELSE IF Len(all) < PageSize THEN x
        ELSE IF w.err THEN wd ELSE y
  BY DEF StoreMessage, AddMessage, AddCells, KeepRest, Buffered, r
<1> HIDE DEF all
<1>7. Clean(x)
  BY <1>1, <1>5, BufferClean
<1>8. CASE ~(Len(all) < PageSize)
  <2>1. hd \in Seq(Cells) /\ Len(hd) = PageSize /\ CleanBuf(hd)
    <3>1. /\ hd \in Seq(Cells) /\ Len(hd) = PageSize
          /\ \A i \in 1 .. PageSize : hd[i] = all[i] /\ i \in 1 .. Len(all)
      BY <1>0, <1>5, <1>8
    <3> HIDE DEF hd
    <3> QED BY <1>5, <3>1 DEF CleanBuf
  <2>2. tl \in Seq(Cells) /\ CleanBuf(tl)
    <3>1. /\ tl \in Seq(Cells) /\ Len(tl) = Len(all) - PageSize
          /\ \A i \in 1 .. Len(all) - PageSize :
                tl[i] = all[PageSize + i] /\ PageSize + i \in 1 .. Len(all)
      BY <1>0, <1>5, <1>8
    <3> HIDE DEF tl
    <3> QED BY <1>5, <3>1 DEF CleanBuf
  <2> HIDE DEF hd, tl
  <2>3. Sound(p, K) /\ Clean(p)
    <3>1. Len(hd) <= PageSize
      BY <1>0, <2>1
    <3>2. /\ Sound([r EXCEPT !.buf = hd, !.nbuf = r.nbuf], K)
          /\ Clean([r EXCEPT !.buf = hd, !.nbuf = r.nbuf])
      <4> DEFINE k == r.nbuf
      <4>1. k \in Nat
        BY <1>2
      <4> HIDE DEF k
      <4>2. Sound([r EXCEPT !.buf = hd, !.nbuf = k], K)
        BY <1>1, <2>1, <3>1, <4>1, BufferLemma
      <4>3. Clean([r EXCEPT !.buf = hd, !.nbuf = k])
        BY <1>1, <2>1, BufferClean
      <4> QED BY <4>2, <4>3 DEF k
    <3>3. p = [r EXCEPT !.buf = hd, !.nbuf = r.nbuf]
      BY <1>2 DEF Devices
    <3> QED BY <3>2, <3>3
  <2> HIDE DEF p
  <2>4. Sound(wd, K) /\ Clean(wd)
    BY <2>3, WriteBufferLemma, WriteBufferClean
  <2> HIDE DEF w, wd
  <2>5. Clean(y)
    BY <2>2, <2>4, BufferClean
  <2> QED BY <1>6, <1>8, <2>4, <2>5
<1> QED BY <1>6, <1>7, <1>8

(* Storing the test record and reading it back keeps a device clean.       *)
LEMMA TestFlashClean ==
    ASSUME NEW K \in SUBSET Keys, NEW d, Sound(d, K), Clean(d),
           Len(d.buf) < PageSize, NEW id \in 0 .. MaxMsgs + 1,
           NEW F, "erase" \notin F
    PROVE  Clean(TestFlash(d, id, F).dev)
<1> DEFINE s == StoreMessage(d, id, TestSize, F)
           sd == s.dev
           w == WriteBufferToFlash(sd, "flush", F)
<1>1. /\ TestSize \in Nat \ {0} /\ TestSize <= BlockSize
      /\ TestSize < 2 * PageSize
  BY GeometryAssumption
<1>2. Sound(sd, K) /\ Clean(sd)
  BY <1>1, StoreMessageLemma, StoreMessageClean
<1>3. TestFlash(d, id, F).dev = IF s.err THEN sd ELSE w.dev
  BY DEF TestFlash, FlushAndCompare, Compared
<1> HIDE DEF s, sd
<1>4. Clean(w.dev)
  BY <1>2, WriteBufferClean
<1> QED BY <1>2, <1>3, <1>4

(* A boot keeps the flash clean.                                           *)
LEMMA InitFlashClean ==
    ASSUME NEW d \in Devices, d.ram = NoRam, d.buf = <<>>, Loadable(d.nvs),
           NoJunk(d.flash), d.nvs # NoNvs => Blank(d.flash, d.nvs),
           NEW id \in 0 .. MaxMsgs,
           NEW F, "erase" \notin F, NEW G, "erase" \notin G
    PROVE  Clean(InitFlash(d, id, F, G))
<1> DEFINE p == LoadPositions(d, F)
           t == TestFlash(p, id, F)
           td == t.dev
           g == GoToNextBlock(td, G)
           k == id + 1
           u == TestFlash(g, k, G)
           ud == u.dev
           v == ud.enabled /\ ~u.err
           x == [ud EXCEPT !.enabled = v]
<1>0. Keys \in SUBSET Keys
  OBVIOUS
<1>1. Sound(p, Keys) /\ Len(p.buf) < PageSize /\ Clean(p)
  <2>1. Sound(p, Keys) /\ p.buf = <<>> /\ Clean(p)
    BY LoadPositionsLemma
  <2> HIDE DEF p
  <2> QED BY <2>1, GeometryAssumption
<1> HIDE DEF p
<1>2. id \in 0 .. MaxMsgs + 1 /\ k \in 0 .. MaxMsgs + 1
  BY BoundsAssumption
<1>3. Sound(td, Keys) /\ Len(td.buf) < PageSize /\ Clean(td)
  BY <1>0, <1>1, <1>2, TestFlashLemma, TestFlashClean
<1> HIDE DEF td
<1>4. Sound(g, Keys) /\ g.buf = td.buf /\ Clean(g)
  BY <1>0, <1>3, GoToNextLemma, GoToNextClean
<1> HIDE DEF g, k
<1>5. Sound(ud, Keys) /\ Clean(ud)
  BY <1>0, <1>2, <1>3, <1>4, TestFlashLemma, TestFlashClean
<1>6. v \in BOOLEAN
  OBVIOUS
<1> HIDE DEF ud, v
<1>7. x.buf = ud.buf /\ x.ram = ud.ram /\ x.flash = ud.flash
  <2>1. {} \in SUBSET Images
    OBVIOUS
  <2> QED BY <1>5, <1>6, <2>1, OtherFields
<1> HIDE DEF x
<1>8. InitFlash(d, id, F, G) = IF ~t.err THEN td ELSE x
  BY DEF InitFlash, Retry, DisabledOnError, x, v, ud, u, g, td, t, p, k
<1> HIDE DEF t
<1> QED BY <1>3, <1>5, <1>7, <1>8 DEF Clean

(* The flash is clean as it would be found, with or without power.         *)
CInv == /\ NoJunk(dev.flash)
        /\ power = "on" => Clean(dev)
        /\ power = "off" /\ dev.nvs # NoNvs => Blank(dev.flash, dev.nvs)

(* The factory flash is clean.                                             *)
LEMMA InitCInv == Init => CInv
<1>1. Erased # Junk
  BY DEF Erased, Junk
<1> QED BY <1>1 DEF Init, CInv, PoweredDown, FactoryImage, NoJunk

(* A handler that ends with a clean device.                                *)
LEMMA CompletedCInv ==
    ASSUME NEW d, Sound(d, Keys), Clean(d), Completed(d)
    PROVE  CInv'
<1> DEFINE x == [d EXCEPT !.trail = {}]
<1>1. dev' = x /\ power' = "on"
  BY DEF Completed
<1>2. x.flash = d.flash /\ x.ram = d.ram /\ x.buf = d.buf
  <2>1. {} \in SUBSET Images /\ TRUE \in BOOLEAN
    OBVIOUS
  <2> QED BY <2>1, OtherFields
<1> HIDE DEF x
<1>3. Clean(x)
  BY <1>2 DEF Clean
<1> QED BY <1>1, <1>3 DEF CInv, Clean

(* As long as every erasure succeeds, every step keeps the flash clean.    *)
LEMMA NextCInv ==
    ASSUME "erase" \notin FaultSites, IInv, CInv, [Next]_vars
    PROVE  CInv'
<1>0. Keys \in SUBSET Keys
  OBVIOUS
<1>1. \A F \in FaultSets : "erase" \notin F
  BY DEF FaultSets
<1>2. CASE Boot
  <2>1. PICK F \in FaultSets, G \in FaultSets :
           /\ power = "off" /\ nextId + 1 <= MaxMsgs
           /\ Completed(InitFlash(dev, nextId, F, G))
    BY <1>2 DEF Boot, BootTo
  <2> DEFINE d == InitFlash(dev, nextId, F, G)
  <2>2. nextId \in 0 .. MaxMsgs
    BY <2>1, BoundsAssumption DEF IInv
  <2>3. /\ dev \in Devices /\ dev.ram = NoRam /\ dev.buf = <<>>
        /\ Loadable(dev.nvs)
    BY <2>1 DEF IInv
  <2>4. Sound(d, Keys)
    BY <2>2, <2>3, InitFlashLemma
  <2>5. Clean(d)
    BY <1>1, <2>1, <2>2, <2>3, InitFlashClean DEF CInv
  <2> HIDE DEF d
  <2>6. Completed(d)
    BY <2>1 DEF d
  <2> QED BY <2>4, <2>5, <2>6, CompletedCInv
<1>3. CASE StoreMsg
  <2>1. PICK n \in Sizes, F \in FaultSets :
           /\ power = "on" /\ nextId <= MaxMsgs
           /\ Completed(StoreMessage(dev, nextId, n, F).dev)
    BY <1>3 DEF StoreMsg, StoreTo
  <2> DEFINE d == StoreMessage(dev, nextId, n, F).dev
  <2>2. nextId \in 0 .. MaxMsgs + 1
    BY <2>1, BoundsAssumption DEF IInv
  <2>3. Sound(dev, Keys) /\ Len(dev.buf) < PageSize /\ Clean(dev)
    BY <2>1 DEF IInv, CInv
  <2>4. n \in Nat \ {0} /\ n <= BlockSize /\ n < 2 * PageSize
    BY SizesAssumption
  <2>5. Sound(d, Keys)
    BY <1>0, <2>2, <2>3, <2>4, StoreMessageLemma
  <2>6. Clean(d)
    BY <1>0, <1>1, <2>2, <2>3, <2>4, StoreMessageClean
  <2> HIDE DEF d
  <2>7. Completed(d)
    BY <2>1 DEF d
  <2> QED BY <2>5, <2>6, <2>7, CompletedCInv
<1>4. CASE Read
  <2>1. PICK F \in FaultSets :
           /\ power = "on"
           /\ Completed(WriteBufferToFlash(dev, "flush", F).dev)
    BY <1>4 DEF Read, ReadTo
  <2> DEFINE d == WriteBufferToFlash(dev, "flush", F).dev
  <2>2. Sound(dev, Keys) /\ Len(dev.buf) < PageSize /\ Clean(dev)
    BY <2>1 DEF IInv, CInv
  <2>3. Sound(d, Keys)
    BY <1>0, <2>2, FlushLemma
  <2>4. Clean(d)
    BY <1>0, <1>1, <2>2, WriteBufferClean
  <2> HIDE DEF d
  <2>5. Completed(d)
    BY <2>1 DEF d
  <2> QED BY <2>3, <2>4, <2>5, CompletedCInv
<1>5. CASE Clear
  <2>1. PICK F \in FaultSets :
           /\ power = "on" /\ Completed(ClearFlashData(dev, F))
    BY <1>5 DEF Clear, ClearTo
  <2> DEFINE d == ClearFlashData(dev, F)
  <2>2. Sound(dev, Keys) /\ Len(dev.buf) < PageSize /\ Clean(dev)
    BY <2>1 DEF IInv, CInv
  <2>3. Sound(d, Keys) /\ Clean(d)
    BY <1>0, <1>1, <2>2, ClearLemma
  <2> HIDE DEF d
  <2>4. Completed(d)
    BY <2>1 DEF d
  <2> QED BY <2>3, <2>4, CompletedCInv
<1>6. CASE Disable
  <2> DEFINE x == [dev EXCEPT !.enabled = FALSE]
  <2>1. power = "on" /\ dev' = x /\ power' = power
    BY <1>6 DEF Disable
  <2>2. x.flash = dev.flash /\ x.ram = dev.ram /\ x.buf = dev.buf
    BY DEF IInv, Devices
  <2> HIDE DEF x
  <2> QED BY <2>1, <2>2 DEF CInv, Clean
<1>7. CASE PowerOff
  <2> DEFINE img == Image(dev)
  <2>1. power = "on" /\ dev' = PoweredDown(img) /\ power' = "off"
    BY <1>7 DEF PowerOff
  <2>2. dev'.flash = dev.flash /\ dev'.nvs = dev.nvs
    BY <2>1 DEF PoweredDown, Image
  <2>3. dev.nvs = dev.ram
    BY <2>1 DEF IInv, Sound, Agree, Devices, Positions, Records
  <2> HIDE DEF img
  <2> QED BY <2>1, <2>2, <2>3 DEF CInv, Clean
<1>8. CASE UNCHANGED vars
  BY <1>8 DEF vars, CInv
<1> QED BY <1>2, <1>3, <1>4, <1>5, <1>6, <1>7, <1>8 DEF Next

(* What is written always lands on erased flash, after wraps, clears,      *)
(* refused writes and resets, as long as every erasure succeeds.           *)
THEOREM NeverOverwrites ==
    ASSUME "erase" \notin FaultSites
    PROVE  Spec => []NoOverwrite
<1>1. CInv => NoOverwrite
  BY DEF CInv, NoJunk, NoOverwrite
<1>2. Init => CInv
  BY InitCInv
<1>3. IInv /\ CInv /\ [Next]_vars => CInv'
  BY NextCInv
<1> QED BY <1>1, <1>2, <1>3, SpecIInv, PTL DEF Spec

-----------------------------------------------------------------------------
(* A boot without a failing access                                         *)

(* A buffer that fits in the block is written where the device stands.     *)
LEMMA WriteWhole ==
    ASSUME NEW K \in SUBSET Keys, NEW d, Sound(d, K), d.enabled,
           Len(d.buf) <= d.ram.left, NEW site, NEW F, site \notin F
    PROVE  LET w == WriteBufferToFlash(d, site, F)
           IN  /\ ~w.err
               /\ w.dev.ram.offset = d.ram.offset + Len(d.buf)
               /\ w.dev.flash = Programmed(d.flash, d.ram.offset, d.buf)
<1> DEFINE works == site \notin F
<1>1. Len(d.buf) \in Nat /\ d.ram.left \in Nat
  BY DEF Sound, Devices, Positions, Keys
<1>2. ~(Len(d.buf) > d.ram.left)
  BY <1>1
<1>3. WriteBufferToFlash(d, site, F) = WriteOut(d, works)
  BY <1>2 DEF WriteBufferToFlash
<1>4. works
  OBVIOUS
<1> HIDE DEF works
<1> QED BY <1>3, <1>4, WriteOutClean

(* A write that the driver does not refuse succeeds.                       *)
LEMMA WriteBufferWorks ==
    ASSUME NEW K \in SUBSET Keys, NEW d, Sound(d, K), d.enabled,
           NEW site, NEW F, site \notin F
    PROVE  ~WriteBufferToFlash(d, site, F).err
<1> DEFINE e == IF Len(d.buf) > d.ram.left THEN GoToNextBlock(d, F) ELSE d
           works == site \notin F
<1>1. /\ PageSize \in Nat /\ BlockSize \in Nat /\ PageSize <= BlockSize
  BY GeometryAssumption
<1>2. /\ d.buf \in Seq(Cells) /\ Len(d.buf) <= PageSize /\ d.ram.left \in Nat
  BY DEF Sound, Devices, Positions, Keys
<1>3. Sound(e, K) /\ Len(e.buf) <= e.ram.left
  <2>1. CASE Len(d.buf) > d.ram.left
    <3>1. /\ Sound(e, K) /\ e.ram.left = BlockSize /\ e.buf = d.buf
      BY <2>1, GoToNextLemma
    <3> HIDE DEF e
    <3> QED BY <1>1, <1>2, <3>1
  <2>2. CASE ~(Len(d.buf) > d.ram.left)
    BY <1>2, <2>2
  <2> QED BY <2>1, <2>2
<1>4. WriteBufferToFlash(d, site, F) = WriteOut(e, works)
  BY DEF WriteBufferToFlash
<1>5. works
  OBVIOUS
<1> HIDE DEF e, works
<1> QED BY <1>3, <1>4, <1>5, WriteOutClean

(* A message is taken when the driver refuses no write.                    *)
LEMMA StoreMessageWorks ==
    ASSUME NEW K \in SUBSET Keys, NEW d, Sound(d, K), d.enabled,
           NEW id \in 0 .. MaxMsgs + 1, NEW n \in Nat, n <= BlockSize,
           NEW F, "write2" \notin F
    PROVE  LET m == StoreMessage(d, id, n, F)
           IN  ~m.err /\ m.dev.enabled
<1> DEFINE r   == MakeRoom(d, n, F)
           all == r.buf \o MsgCells(id, n)
           hd  == SubSeq(all, 1, PageSize)
           tl  == SubSeq(all, PageSize + 1, Len(all))
           p   == [r EXCEPT !.buf = hd]
           w   == WriteBufferToFlash(p, "write2", F)
           wd  == w.dev
           x   == [r EXCEPT !.buf = all, !.nbuf = r.nbuf + 1]
           y   == [wd EXCEPT !.buf = tl, !.nbuf = wd.nbuf + 1]
<1>0. PageSize \in Nat /\ PageSize >= 2
  BY GeometryAssumption
<1>1. Sound(r, K) /\ r.enabled
  BY MakeRoomLemma
<1>2. r \in Devices /\ r.buf \in Seq(Cells) /\ r.nbuf \in Nat
  BY <1>1 DEF Sound, Devices
<1>3. MsgCells(id, n) \in Seq(Cells)
  BY MsgCellsType
<1> HIDE DEF r
<1>4. all \in Seq(Cells)
  BY <1>2, <1>3
<1>5. StoreMessage(d, id, n, F) =
        IF Len(all) < PageSize THEN [dev |-> x, err |-> FALSE]
        ELSE IF w.err THEN w ELSE [dev |-> y, err |-> FALSE]
  BY DEF StoreMessage, AddMessage, AddCells, KeepRest, Buffered, r
<1> HIDE DEF all
<1>6. x.enabled
  BY <1>1, <1>2 DEF Devices
<1>7. ASSUME ~(Len(all) < PageSize) PROVE ~w.err /\ y.enabled
  <2>1. hd \in Seq(Cells) /\ Len(hd) = PageSize
    BY <1>0, <1>4, <1>7
  <2> HIDE DEF hd
  <2>2. Sound(p, K) /\ p.enabled
    <3> DEFINE k == r.nbuf
    <3>1. k \in Nat /\ Len(hd) <= PageSize
      BY <1>0, <1>2, <2>1
    <3>2. p = [r EXCEPT !.buf = hd, !.nbuf = k] /\ p.enabled = r.enabled
      BY <1>2 DEF Devices
    <3> HIDE DEF k, p
    <3>3. Sound([r EXCEPT !.buf = hd, !.nbuf = k], K)
      BY <1>1, <2>1, <3>1, BufferLemma
    <3> QED BY <1>1, <3>2, <3>3
  <2> HIDE DEF p
  <2>3. ~w.err
    BY <2>2, WriteBufferWorks
  <2>4. Sound(wd, K) /\ wd.enabled
    BY <2>2, WriteBufferLemma
  <2> HIDE DEF wd
  <2>5. y.enabled
    BY <2>4 DEF Sound, Devices
  <2> QED BY <2>3, <2>5
<1> HIDE DEF x, y, w
<1> QED BY <1>5, <1>6, <1>7

(* What the test record leaves when no write is refused.                   *)
LEMMA TestFlashWorks ==
    ASSUME NEW K \in SUBSET Keys, NEW d, Sound(d, K), d.enabled,
           Len(d.buf) < PageSize, NEW id \in 0 .. MaxMsgs + 1,
           NEW F, "write2" \notin F, "flush" \notin F
    PROVE  LET t == TestFlash(d, id, F)
               w == WriteBufferToFlash(StoreMessage(d, id, TestSize, F).dev,
                                       "flush", F)
           IN  /\ t.dev = w.dev /\ (t.err <=> ~ReadsBack(w.dev, id))
               /\ t.dev.enabled /\ t.dev.buf = <<>>
<1> DEFINE s == StoreMessage(d, id, TestSize, F)
           sd == s.dev
           w == WriteBufferToFlash(sd, "flush", F)
<1>1. /\ TestSize \in Nat /\ TestSize <= BlockSize /\ TestSize < 2 * PageSize
  BY GeometryAssumption
<1>2. ~s.err /\ sd.enabled
  BY <1>1, StoreMessageWorks
<1>3. Sound(sd, K)
  BY <1>1, StoreMessageLemma
<1>4. TestFlash(d, id, F) = IF s.err THEN s ELSE Compared(w, id)
  BY DEF TestFlash, FlushAndCompare
<1> HIDE DEF s, sd
<1>5. ~w.err /\ w.dev.enabled /\ w.dev.buf = <<>>
  BY <1>2, <1>3, WriteBufferWorks, WriteBufferLemma
<1> HIDE DEF w
<1>6. /\ TestFlash(d, id, F).dev = w.dev
      /\ TestFlash(d, id, F).err = ~ReadsBack(w.dev, id)
  BY <1>2, <1>4, <1>5 DEF Compared
<1> QED BY <1>5, <1>6 DEF w, sd, s

(* In a block that was just erased the test record is read back.           *)
LEMMA FreshBlockTest ==
    ASSUME NEW K \in SUBSET Keys, NEW d, Sound(d, K), d.enabled,
           d.buf = <<>>, d.ram.left = BlockSize, Blank(d.flash, d.ram),
           NEW id \in 0 .. MaxMsgs + 1,
           NEW F, "write2" \notin F, "flush" \notin F
    PROVE  ~TestFlash(d, id, F).err /\ TestFlash(d, id, F).dev.enabled
<1> DEFINE c == MsgCells(id, TestSize)
           o == d.ram.offset
           s == StoreMessage(d, id, TestSize, F).dev
           w == WriteBufferToFlash(s, "flush", F)
           fin == w.dev
           f == Programmed(d.flash, o, c)
           end == d.ram.block + BlockSize
<1>0. /\ PageSize \in Nat /\ PageSize >= 2 /\ BlockSize \in Nat
      /\ TestSize \in Nat /\ TestSize >= 2
      /\ PageSize <= BlockSize /\ TestSize <= PageSize /\ TestSize <= BlockSize
  BY GeometryAssumption
<1>1. /\ d \in Devices /\ d.nbuf \in Nat /\ o \in Nat /\ d.flash \in Chip
  BY DEF Sound, Devices, Positions, Keys
<1>2. /\ c \in Seq(Cells) /\ Len(c) = TestSize
      /\ \A i \in 1 .. TestSize : c[i] = <<id, i, TestSize>>
  <2>1. c \in Seq(Cells) /\ Len(c) = TestSize
    BY <1>0, MsgCellsType
  <2> QED BY <2>1 DEF MsgCells
<1>3. Len(d.buf) = 0 /\ Len(d.buf) < PageSize
  BY <1>0
<1>4. /\ d.ram.block \in Nat /\ end \in Nat /\ end <= Size
      /\ o = d.ram.block /\ o + TestSize <= end
  <2>1. /\ d.ram.block \in Nat /\ d.ram.block + BlockSize <= Size
        /\ d.ram.left = d.ram.block + BlockSize - o
    BY BlockArithmetic DEF Sound, Consistent
  <2> DEFINE b == d.ram.block
  <2>2. o \in Nat /\ b \in Nat /\ b + BlockSize <= Size /\ BlockSize = b + BlockSize - o
    BY <1>1, <2>1
  <2> HIDE DEF o, b
  <2>3. /\ b + BlockSize \in Nat /\ o = b /\ o + TestSize <= b + BlockSize
    BY <1>0, <2>2
  <2> QED BY <2>2, <2>3 DEF b
<1>5. MakeRoom(d, TestSize, F) = d
  <2>1. ~(Len(d.buf) + TestSize > d.ram.left) /\ ~(Len(d.buf) + TestSize > PageSize)
    BY <1>0, <1>3
  <2> QED BY <2>1 DEF MakeRoom
<1>6. d.buf \o c = c
  BY <1>2
<1>7. s = AddCells(d, c, F).dev
  BY <1>5, <1>6 DEF StoreMessage, AddMessage
<1> HIDE DEF c, s, f
<1>8. fin.ram.offset = o + TestSize /\ fin.flash = f
  <2>1. CASE TestSize < PageSize
    <3> DEFINE x == [d EXCEPT !.buf = c, !.nbuf = d.nbuf + 1]
    <3>1. s = x
      BY <1>2, <1>7, <2>1 DEF AddCells, Buffered
    <3>2. /\ x.buf = c /\ x.ram = d.ram /\ x.flash = d.flash
          /\ x.enabled = d.enabled
      BY <1>1 DEF Devices
    <3>3. Sound(x, K)
      <4>1. Len(c) <= PageSize /\ d.nbuf + 1 \in Nat
        BY <1>0, <1>1, <1>2
      <4> QED BY <1>2, <4>1, BufferLemma
    <3> HIDE DEF x
    <3>4. Len(x.buf) <= x.ram.left
      BY <1>0, <1>2, <3>2
    <3>5. /\ fin.ram.offset = x.ram.offset + Len(x.buf)
          /\ fin.flash = Programmed(x.flash, x.ram.offset, x.buf)
      BY <3>1, <3>2, <3>3, <3>4, WriteWhole
    <3> QED BY <1>2, <3>2, <3>5 DEF f
  <2>2. CASE ~(TestSize < PageSize)
    <3> DEFINE p == [d EXCEPT !.buf = c]
               v == WriteBufferToFlash(p, "write2", F)
               vd == v.dev
               k == vd.nbuf + 1
               y == [vd EXCEPT !.buf = <<>>, !.nbuf = k]
    <3>1. SubSeq(c, 1, PageSize) = c /\ SubSeq(c, PageSize + 1, Len(c)) = <<>>
      <4>1. TestSize = PageSize
        BY <1>0, <2>2
      <4> QED BY <1>0, <1>2, <4>1
    <3>2. s = IF v.err THEN v.dev ELSE y
      BY <1>2, <1>7, <2>2, <3>1 DEF AddCells, KeepRest, Buffered
    <3>3. /\ p.buf = c /\ p.ram = d.ram /\ p.flash = d.flash
          /\ p.enabled = d.enabled
      BY <1>1 DEF Devices
    <3>4. Sound(p, K)
      <4> DEFINE m == d.nbuf
      <4>1. Len(c) <= PageSize /\ m \in Nat
        BY <1>0, <1>1, <1>2
      <4>2. p = [d EXCEPT !.buf = c, !.nbuf = m]
        BY <1>1 DEF Devices
      <4> HIDE DEF m, p
      <4>3. Sound([d EXCEPT !.buf = c, !.nbuf = m], K)
        BY <1>2, <4>1, BufferLemma
      <4> QED BY <4>2, <4>3
    <3> HIDE DEF p
    <3>5. Len(p.buf) <= p.ram.left
      BY <1>0, <1>2, <3>3
    <3>6. /\ ~v.err /\ vd.ram.offset = p.ram.offset + Len(p.buf)
          /\ vd.flash = Programmed(p.flash, p.ram.offset, p.buf)
      BY <3>3, <3>4, <3>5, WriteWhole
    <3>7. Sound(vd, K) /\ vd.enabled
      BY <3>3, <3>4, WriteBufferLemma
    <3>8. s = y
      BY <3>2, <3>6
    <3> HIDE DEF v, vd
    <3>9. vd \in Devices /\ k \in Nat
      BY <3>7 DEF Sound, Devices
    <3> HIDE DEF k
    <3>10. /\ y.buf = <<>> /\ y.ram = vd.ram /\ y.flash = vd.flash
           /\ y.enabled = vd.enabled
      BY <3>9 DEF Devices
    <3>11. Sound(y, K)
      <4>1. <<>> \in Seq(Cells) /\ Len(<<>>) <= PageSize
        BY <1>0
      <4> QED BY <3>7, <3>9, <4>1, BufferLemma
    <3> HIDE DEF y
    <3>12. Len(y.buf) <= y.ram.left /\ y.ram.offset \in Nat /\ y.flash \in Chip
      BY <3>10, <3>11 DEF Sound, Devices, Positions, Keys
    <3>13. /\ fin.ram.offset = y.ram.offset + Len(y.buf)
           /\ fin.flash = Programmed(y.flash, y.ram.offset, y.buf)
      BY <3>7, <3>8, <3>10, <3>11, <3>12, WriteWhole
    <3>14. Programmed(y.flash, y.ram.offset, <<>>) = y.flash
      <4> DEFINE q == y.ram.offset
      <4>1. \A z \in Offsets : z \in Nat /\ ~(q <= z /\ z < q + Len(<<>>))
        BY <3>12, BlockArithmetic DEF Offsets
      <4> HIDE DEF q
      <4>2. Programmed(y.flash, q, <<>>) = [z \in Offsets |-> y.flash[z]]
        BY <4>1 DEF Programmed
      <4> QED BY <3>12, <4>2 DEF Chip, q
    <3>15. fin.flash = f
      BY <3>3, <3>6, <3>10, <3>13, <3>14 DEF f
    <3>16. fin.ram.offset = o + TestSize
      BY <1>1, <1>2, <1>0, <3>3, <3>6, <3>10, <3>13
    <3> QED BY <3>15, <3>16
  <2> QED BY <2>1, <2>2
<1> HIDE DEF fin, o, end
<1>9. \A p \in Offsets : o <= p /\ p < o + TestSize => f[p] = c[p - o + 1]
  <2> DEFINE fl == d.flash
  <2>1. \A p \in Offsets : o <= p /\ p < end => fl[p] = Erased
    BY DEF Blank, o, end
  <2>2. /\ fl \in Chip /\ o \in Nat /\ c \in Seq(Cells) /\ end \in Nat
        /\ o + Len(c) <= end
    BY <1>1, <1>2, <1>4
  <2> HIDE DEF fl
  <2>3. LET h == Programmed(fl, o, c)
        IN  \A p \in Offsets : o <= p /\ p < o + Len(c) => h[p] = c[p - o + 1]
    BY <2>1, <2>2, ProgrammedClean
  <2> QED BY <1>2, <2>3 DEF f, fl
<1>10. ReadsBack(fin, id)
  <2> SUFFICES ASSUME NEW i \in 1 .. TestSize - 1
               PROVE  LET z == fin.ram.offset - TestSize
                      IN  /\ z + i - 1 \in Offsets
                          /\ fin.flash[z + i - 1] = <<id, i, TestSize>>
    BY DEF ReadsBack
  <2>1. fin.ram.offset - TestSize = o
    BY <1>0, <1>1, <1>8
  <2>2. /\ o + i - 1 \in Nat /\ o <= o + i - 1 /\ o + i - 1 < o + TestSize
        /\ (o + i - 1) - o + 1 = i /\ i \in 1 .. TestSize
    BY <1>0, <1>1
  <2>3. o + i - 1 \in Offsets
    BY <1>0, <1>1, <1>4, <2>2, BlockArithmetic DEF Offsets
  <2>4. f[o + i - 1] = c[i]
    BY <1>9, <2>2, <2>3
  <2> QED BY <1>2, <1>8, <2>1, <2>2, <2>3, <2>4
<1>11. /\ TestFlash(d, id, F).err <=> ~ReadsBack(fin, id)
       /\ TestFlash(d, id, F).dev.enabled
  BY <1>3, TestFlashWorks DEF fin, w, s
<1> QED BY <1>10, <1>11

(* A boot during which no flash access fails leaves the log in use.        *)
LEMMA InitFlashWorks ==
    ASSUME NEW d \in Devices, d.ram = NoRam, d.buf = <<>>, Loadable(d.nvs),
           NEW id \in 0 .. MaxMsgs
    PROVE  InitFlash(d, id, {}, {}).enabled
<1> DEFINE p == LoadPositions(d, {})
           t == TestFlash(p, id, {})
           td == t.dev
           g == GoToNextBlock(td, {})
           k == id + 1
           u == TestFlash(g, k, {})
           ud == u.dev
           v == ud.enabled /\ ~u.err
           x == [ud EXCEPT !.enabled = v]
<1>0. Keys \in SUBSET Keys /\ \A a : a \notin {}
  OBVIOUS
<1>1. Sound(p, Keys) /\ Len(p.buf) < PageSize /\ p.enabled
  <2>1. Sound(p, Keys) /\ p.buf = <<>> /\ p.enabled
    BY <1>0, LoadPositionsLemma
  <2> HIDE DEF p
  <2> QED BY <2>1, GeometryAssumption
<1> HIDE DEF p
<1>2. id \in 0 .. MaxMsgs + 1 /\ k \in 0 .. MaxMsgs + 1
  BY BoundsAssumption
<1>3. Sound(td, Keys) /\ td.enabled /\ td.buf = <<>>
  BY <1>0, <1>1, <1>2, TestFlashLemma, TestFlashWorks
<1> HIDE DEF td
<1>4. /\ Sound(g, Keys) /\ g.enabled /\ g.buf = <<>>
      /\ g.ram.left = BlockSize /\ Blank(g.flash, g.ram)
  BY <1>0, <1>3, GoToNextLemma, GoToNextClean
<1> HIDE DEF g, k
<1>5. ~u.err /\ ud.enabled
  BY <1>0, <1>2, <1>4, FreshBlockTest
<1>6. Sound(ud, Keys)
  <2>1. Len(g.buf) < PageSize
    BY <1>4, GeometryAssumption
  <2> QED BY <1>0, <1>2, <1>4, <2>1, TestFlashLemma
<1>7. v \in BOOLEAN /\ v
  BY <1>5
<1> HIDE DEF ud, v
<1>8. x.enabled
  <2>1. {} \in SUBSET Images
    OBVIOUS
  <2>2. x.enabled = v
    BY <1>6, <1>7, <2>1, OtherFields
  <2> QED BY <1>7, <2>2
<1> HIDE DEF x
<1>9. InitFlash(d, id, {}, {}) = IF ~t.err THEN td ELSE x
  BY DEF InitFlash, Retry, DisabledOnError, x, v, ud, u, g, td, t, p, k
<1> HIDE DEF t
<1> QED BY <1>3, <1>8, <1>9

(* A boot during which no flash access fails ends with the log in use,     *)
(* whatever failed before: the second attempt has a block of its own.      *)
THEOREM BootSucceedsAlways == Spec => BootSucceeds
<1>1. ASSUME IInv, [Next]_vars,
             power = "off", power' = "on", faults' = faults
      PROVE  dev'.enabled
  <2>1. Boot
    BY <1>1 DEF Next, vars, StoreMsg, StoreTo, Read, ReadTo, Clear, ClearTo,
                Disable, PowerOff
  <2>2. PICK F \in FaultSets, G \in FaultSets :
           /\ power = "off" /\ nextId + 1 <= MaxMsgs
           /\ faults' = faults + (Cardinality(F) + Cardinality(G))
           /\ Completed(InitFlash(dev, nextId, F, G))
    BY <2>1 DEF Boot, BootTo, Failed
  <2>3. F = {} /\ G = {}
    <3>1. Cardinality(F) \in Nat /\ Cardinality(G) \in Nat
      BY FaultCount DEF FaultSets
    <3>2. faults \in Nat
      BY <1>1 DEF IInv
    <3>3. Cardinality(F) = 0 /\ Cardinality(G) = 0
      BY <1>1, <2>2, <3>1, <3>2
    <3>4. IsFiniteSet(F) /\ IsFiniteSet(G)
      <4>1. IsFiniteSet({"write1"} \cup {"write2"} \cup {"flush"} \cup {"erase"})
        BY FS_Singleton, FS_Union
      <4>2. /\ F \in SUBSET ({"write1"} \cup {"write2"} \cup {"flush"} \cup {"erase"})
            /\ G \in SUBSET ({"write1"} \cup {"write2"} \cup {"flush"} \cup {"erase"})
        BY BoundsAssumption DEF Sites, FaultSets
      <4> QED BY <4>1, <4>2, FS_Subset
    <3> QED BY <3>3, <3>4, FS_EmptySet
  <2> DEFINE d == InitFlash(dev, nextId, {}, {})
  <2>4. nextId \in 0 .. MaxMsgs
    BY <1>1, <2>2, BoundsAssumption DEF IInv
  <2>5. d.enabled
    <3>1. /\ dev \in Devices /\ dev.ram = NoRam /\ dev.buf = <<>>
          /\ Loadable(dev.nvs)
      BY <1>1 DEF IInv
    <3> QED BY <2>4, <3>1, InitFlashWorks
  <2>6. d \in Devices
    <3>1. /\ dev \in Devices /\ dev.ram = NoRam /\ dev.buf = <<>>
          /\ Loadable(dev.nvs)
      BY <1>1 DEF IInv
    <3> QED BY <2>4, <3>1, InitFlashLemma DEF Sound
  <2>7. dev' = [d EXCEPT !.trail = {}]
    BY <2>2, <2>3 DEF Completed
  <2> HIDE DEF d
  <2> QED BY <2>5, <2>6, <2>7 DEF Devices
<1>2. IInv /\ [Next]_vars =>
        [(power = "off" /\ power' = "on" /\ faults' = faults) => dev'.enabled]_vars
  BY <1>1
<1> QED BY <1>2, SpecIInv, PTL DEF Spec, BootSucceeds

-----------------------------------------------------------------------------
(* What the flash holds                                                    *)

InBlock(b) == {o \in Offsets : b <= o /\ o < b + BlockSize}

(* The place o belongs to a message that lies within the block b.          *)
MessageAround(f, b, o) ==
    LET c == f[o]
        h == o - c[2] + 1
    IN  /\ c[1] >= 1 /\ 1 <= c[2] /\ c[2] <= c[3]
        /\ b <= h /\ h + c[3] <= b + BlockSize
        /\ \A j \in 1 .. c[3] : f[h + j - 1] = <<c[1], j, c[3]>>

WholeMessages(f) ==
    \A b \in Blocks : \A o \in InBlock(b) : f[o] # Erased => MessageAround(f, b, o)

(* A block is filled from its beginning.                                   *)
NoGaps(f) ==
    \A b \in Blocks : \A o, w \in InBlock(b) :
        o < w /\ f[o] = Erased => f[w] = Erased

Filled(f, p) ==
    \A o \in Offsets : p.block <= o /\ o < p.offset => f[o] # Erased

(* The places from the start block to the current one, in the order in     *)
(* which a reader visits them.                                             *)
Live(p)    == {o \in Offsets : p.start # 0 \/ o < p.block + BlockSize}
Age(p, o)  == IF o < p.start THEN o + Size ELSE o
Used(f, p) == {o \in Live(p) : f[o] # Erased}
Ids(f, p)  == {f[o][1] : o \in Used(f, p)}

Precedes(c, e) == c[1] < e[1] \/ (c[1] = e[1] /\ c[2] < e[2])

Ordered(f, p) ==
    \A o, w \in Used(f, p) : Age(p, o) < Age(p, w) => Precedes(f[o], f[w])

(* The buffer: whole messages, newer than everything on flash.             *)
WholeInBuf(u, i) ==
    LET c == u[i]
        h == i - c[2] + 1
    IN  /\ c[1] >= 1 /\ 1 <= c[2] /\ c[2] <= c[3]
        /\ 1 <= h /\ h + c[3] - 1 <= Len(u)
        /\ \A j \in 1 .. c[3] : u[h + j - 1] = <<c[1], j, c[3]>>

BufIds(u) == {u[i][1] : i \in 1 .. Len(u)}

BufOk(u) ==
    /\ \A i \in 1 .. Len(u) : WholeInBuf(u, i)
    /\ \A i, j \in 1 .. Len(u) : i < j => Precedes(u[i], u[j])

FlashOk(f, p) ==
    /\ WholeMessages(f) /\ NoGaps(f)
    /\ Filled(f, p) /\ Blank(f, p) /\ Ordered(f, p)

Below(S, k) == \A x \in S : x < k
Before(S, T) == \A x \in S, y \in T : x < y

Content(f, p, u, k) ==
    /\ FlashOk(f, p) /\ BufOk(u)
    /\ Before(Ids(f, p), BufIds(u))
    /\ Below(Ids(f, p), k) /\ Below(BufIds(u), k)

Sited(p) == p \in Positions /\ Consistent(p) /\ StartFollows(p)

(* Some of the oldest messages are given up.                               *)
Shed(S, T) == T \subseteq S /\ \A x \in S \ T, y \in T : x < y

-----------------------------------------------------------------------------
(* Blocks do not overlap and cover the partition.                          *)
LEMMA BlocksApart ==
    /\ \A b, c \in Blocks : b < c => b + BlockSize <= c
    /\ \A o \in Offsets : \E b \in Blocks : o \in InBlock(b)
<1> USE GeometryAssumption
<1>1. ASSUME NEW b \in Blocks, NEW c \in Blocks, b < c
      PROVE  b + BlockSize <= c
  <2>1. PICK i \in 0 .. NBlocks - 1 : b = i * BlockSize
    BY DEF Blocks
  <2>2. PICK j \in 0 .. NBlocks - 1 : c = j * BlockSize
    BY DEF Blocks
  <2>3. i < j
    <3>1. ASSUME j <= i PROVE FALSE
      <4>1. PICK k \in Nat : i = j + k
        <5>1. i - j \in Nat /\ i = j + (i - j)
          BY <3>1
        <5> QED BY <5>1
      <4>2. b = c + k * BlockSize
        BY <2>1, <2>2, <4>1
      <4>3. k * BlockSize \in Nat /\ c \in Nat
        BY <2>2
      <4> QED BY <1>1, <4>2, <4>3
    <3> QED BY <3>1
  <2>4. PICK k \in Nat : j = i + 1 + k
    <3>1. j - i - 1 \in Nat /\ j = i + 1 + (j - i - 1)
      BY <2>3
    <3> QED BY <3>1
  <2>5. c = b + BlockSize + k * BlockSize
    BY <2>1, <2>2, <2>4
  <2>6. k * BlockSize \in Nat /\ b \in Nat
    BY <2>1
  <2> QED BY <2>5, <2>6
<1>2. ASSUME NEW o \in Offsets PROVE \E b \in Blocks : o \in InBlock(b)
  <2> DEFINE q == o \div BlockSize
             m == o % BlockSize
  <2>0. o \in Nat /\ o < NBlocks * BlockSize
    BY BlockArithmetic DEF Offsets, Size
  <2>1. q \in Int /\ m \in 0 .. BlockSize - 1 /\ o = BlockSize * q + m
    BY <2>0
  <2> HIDE DEF q, m
  <2>2. ~(q <= -1)
    <3>1. ASSUME q <= -1 PROVE FALSE
      <4>1. BlockSize * q <= -BlockSize
        BY <2>1, <3>1
      <4> QED BY <2>0, <2>1, <4>1
    <3> QED BY <3>1
  <2>3. ~(q >= NBlocks)
    <3>1. ASSUME q >= NBlocks PROVE FALSE
      <4>1. PICK k \in Nat : q = NBlocks + k
        <5>1. q - NBlocks \in Nat /\ q = NBlocks + (q - NBlocks)
          BY <2>1, <3>1
        <5> QED BY <5>1
      <4>2. BlockSize * q = NBlocks * BlockSize + k * BlockSize
        BY <4>1
      <4>3. k * BlockSize \in Nat /\ NBlocks * BlockSize \in Nat
        OBVIOUS
      <4> QED BY <2>0, <2>1, <4>2, <4>3
    <3> QED BY <3>1
  <2>4. q \in 0 .. NBlocks - 1
    BY <2>1, <2>2, <2>3
  <2>5. q * BlockSize \in Blocks
    BY <2>4 DEF Blocks
  <2>6. q * BlockSize <= o /\ o < q * BlockSize + BlockSize
    BY <2>1, <2>4
  <2> QED BY <2>5, <2>6 DEF InBlock
<1> QED BY <1>1, <1>2

(* There are at least two of them.                                         *)
LEMMA TwoBlocks == 2 * BlockSize <= Size
<1> USE GeometryAssumption
<1>1. PICK k \in Nat : NBlocks = 2 + k
  <2>1. NBlocks - 2 \in Nat /\ NBlocks = 2 + (NBlocks - 2)
    OBVIOUS
  <2> QED BY <2>1
<1>2. NBlocks * BlockSize = 2 * BlockSize + k * BlockSize
  BY <1>1
<1>3. k * BlockSize \in Nat
  OBVIOUS
<1> QED BY <1>2, <1>3 DEF Size

(* The positions of a sound device as numbers.                             *)
LEMMA SitedFacts ==
    ASSUME NEW p, Sited(p)
    PROVE  /\ p.block \in Blocks /\ p.start \in Blocks /\ p.offset \in Nat
           /\ p.block \in Nat /\ p.start \in Nat
           /\ p.block <= p.offset /\ p.offset <= p.block + BlockSize
           /\ p.block + BlockSize <= Size /\ p.start + BlockSize <= Size
           /\ p.left = p.block + BlockSize - p.offset
           /\ p.start = 0 \/ (p.start = p.block + BlockSize /\ p.start < Size)
           /\ p.block + BlockSize \in Nat
<1>1. /\ p.block \in Blocks /\ p.start \in Blocks
      /\ p.offset \in p.block .. p.block + BlockSize
      /\ p.left = p.block + BlockSize - p.offset
  BY DEF Sited, Consistent
<1>2. /\ p.block \in Nat /\ p.start \in Nat /\ BlockSize \in Nat
      /\ p.block + BlockSize <= Size /\ p.start + BlockSize <= Size
      /\ Size \in Nat
  BY <1>1, BlockArithmetic, GeometryAssumption
<1>3. p.start = 0 \/ (p.start = p.block + BlockSize /\ p.start < Size)
  <2>1. p.start = 0 \/ p.start = NextBlock(p.block)
    BY DEF Sited, StartFollows
  <2> QED BY <1>2, <2>1 DEF NextBlock
<1> QED BY <1>1, <1>2, <1>3

(* Erasing a block erases the places in it.                                *)
LEMMA ErasedPlaces ==
    ASSUME NEW f, NEW b \in Blocks
    PROVE  \A o \in Offsets :
             BlockErased(f, b)[o] = IF o \in InBlock(b) THEN Erased ELSE f[o]
  BY DEF BlockErased, InBlock

(* ... and breaks no message in another one.                               *)
LEMMA ErasedWhole ==
    ASSUME NEW f \in Chip, NEW n \in Blocks, WholeMessages(f), NoGaps(f)
    PROVE  WholeMessages(BlockErased(f, n)) /\ NoGaps(BlockErased(f, n))
<1> DEFINE g == BlockErased(f, n)
<1>1. \A o \in Offsets : g[o] = IF o \in InBlock(n) THEN Erased ELSE f[o]
  BY ErasedPlaces
<1>2. \A b \in Blocks, o \in Offsets : o \in InBlock(b) /\ o \in InBlock(n) => b = n
  <2>1. ASSUME NEW b \in Blocks, NEW o \in Offsets, o \in InBlock(b),
               o \in InBlock(n), b # n
        PROVE  FALSE
    <3>1. b \in Nat /\ n \in Nat /\ o \in Nat /\ BlockSize \in Nat
      BY BlockArithmetic, GeometryAssumption DEF Offsets
    <3>2. b + BlockSize <= n \/ n + BlockSize <= b
      BY <2>1, <3>1, BlocksApart
    <3> QED BY <2>1, <3>1, <3>2 DEF InBlock
  <2> QED BY <2>1
<1> HIDE DEF g
<1>3. \A b \in Blocks : b # n => \A o \in InBlock(b) : o \in Offsets /\ g[o] = f[o]
  BY <1>1, <1>2 DEF InBlock
<1>4. \A o \in InBlock(n) : g[o] = Erased
  BY <1>1 DEF InBlock
<1>5. WholeMessages(g)
  <2> SUFFICES ASSUME NEW b \in Blocks, NEW o \in InBlock(b), g[o] # Erased
               PROVE  MessageAround(g, b, o)
    BY DEF WholeMessages
  <2>1. b # n
    BY <1>4
  <2>2. g[o] = f[o] /\ MessageAround(f, b, o)
    BY <1>3, <2>1 DEF WholeMessages
  <2> DEFINE c == f[o]
             h == o - c[2] + 1
  <2>3. /\ c[1] >= 1 /\ 1 <= c[2] /\ c[2] <= c[3]
        /\ b <= h /\ h + c[3] <= b + BlockSize
        /\ \A j \in 1 .. c[3] : f[h + j - 1] = <<c[1], j, c[3]>>
    BY <2>2 DEF MessageAround
  <2>4. o \in Nat /\ c[1] \in Nat /\ c[2] \in Nat /\ c[3] \in Nat
    BY BlockArithmetic DEF InBlock, Offsets, Chip, Cells
  <2>5. b \in Nat /\ b + BlockSize <= Size /\ BlockSize \in Nat /\ Size \in Nat
    BY BlockArithmetic, GeometryAssumption
  <2> HIDE DEF c
  <2>6. ASSUME NEW j \in 1 .. c[3] PROVE g[h + j - 1] = f[h + j - 1]
    <3>1. h + j - 1 \in Nat /\ b <= h + j - 1 /\ h + j - 1 < b + BlockSize
      BY <2>3, <2>4, <2>5
    <3>2. h + j - 1 \in Offsets
      BY <2>5, <3>1 DEF Offsets
    <3>3. h + j - 1 \in InBlock(b)
      BY <3>1, <3>2 DEF InBlock
    <3> QED BY <1>3, <2>1, <3>3
  <2> QED BY <2>2, <2>3, <2>6 DEF MessageAround, c
<1>6. NoGaps(g)
  <2> SUFFICES ASSUME NEW b \in Blocks, NEW o \in InBlock(b), NEW w \in InBlock(b),
                      o < w, g[o] = Erased
               PROVE  g[w] = Erased
    BY DEF NoGaps
  <2>1. CASE b = n
    BY <1>4, <2>1
  <2>2. CASE b # n
    BY <1>3, <2>2 DEF NoGaps
  <2> QED BY <2>1, <2>2
<1> QED BY <1>5, <1>6 DEF g

(* Entering the next block gives up the oldest messages, those that were   *)
(* in it, and none of the current block.                                   *)
LEMMA EnterFlash ==
    ASSUME NEW f \in Chip, NEW p, Sited(p), NEW q, Sited(q), FlashOk(f, p),
           NEW n, n = NextBlock(p.block), q.block = n, q.offset = n,
           q.start = IF p.start = n THEN NextBlock(n) ELSE p.start
    PROVE  LET g == BlockErased(f, n)
           IN  /\ FlashOk(g, q)
               /\ Shed(Ids(f, p), Ids(g, q))
               /\ p.start # n => Ids(g, q) = Ids(f, p)
               /\ \A o \in Offsets :
                     p.block <= o /\ o < p.offset => f[o][1] \in Ids(g, q)
<1> DEFINE g == BlockErased(f, n)
<1>0. BlockSize \in Nat /\ BlockSize >= 2 /\ Size \in Nat /\ NBlocks >= 2
  BY BlockArithmetic, GeometryAssumption
<1>1. n \in Blocks /\ n \in Nat /\ n + BlockSize <= Size
  BY BlockArithmetic, SitedFacts
<1>2. /\ p.block \in Nat /\ p.start \in Nat /\ p.offset \in Nat
      /\ p.block <= p.offset /\ p.offset <= p.block + BlockSize
      /\ p.block + BlockSize <= Size
      /\ p.start = 0 \/ (p.start = p.block + BlockSize /\ p.start < Size)
  BY SitedFacts
<1>3. n = IF p.block + BlockSize >= Size THEN 0 ELSE p.block + BlockSize
  BY DEF NextBlock
<1>4. q.start = IF p.start = n
                THEN IF n + BlockSize >= Size THEN 0 ELSE n + BlockSize
                ELSE p.start
  BY DEF NextBlock
<1>5. \A o \in Offsets : o \in Nat /\ o < Size
  BY <1>0 DEF Offsets
<1>6. \A o \in Offsets :
        g[o] = IF n <= o /\ o < n + BlockSize THEN Erased ELSE f[o]
  BY DEF BlockErased
<1>7. WholeMessages(g) /\ NoGaps(g)
  BY <1>1, ErasedWhole DEF FlashOk
<1> HIDE DEF g
<1>8. ASSUME NEW o \in Offsets
      PROVE  o \in Used(g, q) <=>
               o \in Used(f, p) /\ ~(n <= o /\ o < n + BlockSize)
  <2>1. o \in Nat /\ o < Size
    BY <1>5
  <2>2. ASSUME ~(n <= o /\ o < n + BlockSize)
        PROVE  (q.start # 0 \/ o < q.block + BlockSize)
                 <=> (p.start # 0 \/ o < p.block + BlockSize)
    BY <1>0, <1>1, <1>2, <1>3, <1>4, <2>1, <2>2
  <2> QED BY <1>6, <2>2 DEF Used, Live
<1>9. p.block + BlockSize <= n \/ n + BlockSize <= p.block
  BY <1>0, <1>1, <1>2, <1>3, TwoBlocks
<1>10. ASSUME NEW o \in Used(g, q), NEW w \in Used(g, q),
              Age(q, o) < Age(q, w)
       PROVE  Age(p, o) < Age(p, w)
  <2>1. /\ o \in Nat /\ o < Size /\ ~(n <= o /\ o < n + BlockSize)
        /\ w \in Nat /\ w < Size /\ ~(n <= w /\ w < n + BlockSize)
    BY <1>5, <1>8 DEF Used, Live
  <2>2. Age(q, o) < Age(q, w)
    BY <1>10
  <2> QED BY <1>0, <1>1, <1>2, <1>4, <2>1, <2>2 DEF Age
<1>11. \A o \in Used(g, q) : o \in Used(f, p) /\ g[o] = f[o]
  BY <1>6, <1>8 DEF Used, Live
<1>12. Ordered(g, q)
  BY <1>10, <1>11 DEF Ordered, FlashOk
<1>13. FlashOk(g, q)
  <2>1. Filled(g, q)
    BY <1>1, <1>5 DEF Filled
  <2>2. Blank(g, q)
    BY <1>6 DEF Blank
  <2> QED BY <1>7, <1>12, <2>1, <2>2 DEF FlashOk
<1>14. Ids(g, q) \subseteq Ids(f, p)
  BY <1>11 DEF Ids
<1>15. ASSUME NEW x \in Ids(f, p) \ Ids(g, q), NEW y \in Ids(g, q)
       PROVE  x < y
  <2>1. PICK o \in Used(f, p) : x = f[o][1]
    BY DEF Ids
  <2>2. PICK w \in Used(g, q) : y = g[w][1]
    BY DEF Ids
  <2>3. w \in Used(f, p) /\ y = f[w][1] /\ g[w] = f[w]
    BY <1>11, <2>2
  <2>4. o \notin Used(g, q)
    BY <1>11, <2>1 DEF Ids
  <2>5. /\ o \in Nat /\ o < Size /\ w \in Nat /\ w < Size
        /\ o \in Offsets /\ w \in Offsets
    BY <1>5, <2>1, <2>3 DEF Used, Live
  <2>6. n <= o /\ o < n + BlockSize /\ ~(n <= w /\ w < n + BlockSize)
    BY <1>8, <2>1, <2>2, <2>4, <2>5
  <2>7. p.start # 0 \/ o < p.block + BlockSize
    BY <2>1 DEF Used, Live
  <2>8. p.start = n
    BY <1>0, <1>1, <1>2, <1>3, <2>5, <2>6, <2>7
  <2>9. Age(p, o) < Age(p, w)
    BY <1>0, <1>1, <2>5, <2>6, <2>8 DEF Age
  <2>10. Precedes(f[o], f[w])
    BY <2>1, <2>3, <2>9 DEF FlashOk, Ordered
  <2>11. x # y
    OBVIOUS
  <2> QED BY <2>1, <2>3, <2>10, <2>11 DEF Precedes
<1>16. ASSUME p.start # n PROVE Ids(f, p) \subseteq Ids(g, q)
  <2>1. ASSUME NEW o \in Used(f, p) PROVE o \in Used(g, q)
    <3>1. o \in Offsets /\ o \in Nat /\ o < Size
      BY <1>5, <2>1 DEF Used, Live
    <3>2. p.start # 0 \/ o < p.block + BlockSize
      BY <2>1 DEF Used, Live
    <3>3. ~(n <= o /\ o < n + BlockSize)
      BY <1>0, <1>1, <1>2, <1>3, <1>16, <3>1, <3>2
    <3> QED BY <1>8, <2>1, <3>1, <3>3
  <2> QED BY <1>11, <2>1 DEF Ids
<1>17. ASSUME NEW o \in Offsets, p.block <= o, o < p.offset
       PROVE  f[o][1] \in Ids(g, q)
  <2>1. f[o] # Erased
    BY <1>17 DEF FlashOk, Filled
  <2>2. o \in Nat /\ o < p.block + BlockSize
    BY <1>0, <1>2, <1>5, <1>17
  <2>3. o \in Used(f, p)
    BY <2>1, <2>2 DEF Used, Live
  <2>4. ~(n <= o /\ o < n + BlockSize)
    BY <1>0, <1>1, <1>2, <1>9, <1>17, <2>2
  <2>5. o \in Used(g, q)
    BY <1>8, <2>3, <2>4
  <2> QED BY <1>11, <2>5 DEF Ids
<1> QED BY <1>13, <1>14, <1>15, <1>16, <1>17 DEF Shed, g

(* A buffer that fits in the block follows the newest message on flash.    *)
LEMMA WriteFlash ==
    ASSUME NEW f \in Chip, NEW p, Sited(p), NEW q, Sited(q),
           NEW u \in Seq(Cells), NEW k, Content(f, p, u, k),
           Len(u) <= p.left, q.offset = p.offset + Len(u),
           q.block = p.block, q.start = p.start
    PROVE  LET g == Programmed(f, p.offset, u)
           IN  /\ Content(g, q, <<>>, k)
               /\ Ids(g, q) = Ids(f, p) \cup BufIds(u)
               /\ \A i \in 1 .. Len(u) : /\ p.offset + i - 1 \in Offsets
                                         /\ g[p.offset + i - 1] = u[i]
<1> DEFINE n   == Len(u)
           s   == p.offset
           b0  == p.block
           end == b0 + BlockSize
           g   == Programmed(f, s, u)
<1>0. BlockSize \in Nat /\ BlockSize >= 2 /\ Size \in Nat
  BY BlockArithmetic, GeometryAssumption
<1>1. /\ b0 \in Blocks /\ b0 \in Nat /\ s \in Nat /\ end \in Nat /\ b0 <= s
      /\ n \in Nat /\ s + n <= end /\ end <= Size
  <2>1. /\ b0 \in Blocks /\ b0 \in Nat /\ s \in Nat /\ end \in Nat /\ b0 <= s
        /\ p.left = end - s /\ end <= Size /\ n <= p.left
    BY <1>0, SitedFacts
  <2>2. n \in Nat
    OBVIOUS
  <2> HIDE DEF n, s, b0, end
  <2> QED BY <2>1, <2>2
<1>2. /\ p.start \in Nat
      /\ p.start = 0 \/ (p.start = end /\ p.start < Size)
  BY SitedFacts
<1>3. \A o \in Offsets : o \in Nat /\ o < Size
  BY <1>0 DEF Offsets
<1>4. \A o \in Offsets : s <= o /\ o < end => f[o] = Erased
  BY DEF Content, FlashOk, Blank
<1>5. \A i \in 1 .. n : u[i] \in Cells /\ WholeInBuf(u, i) /\ u[i] # Erased
  <2>1. \A i \in 1 .. n : WholeInBuf(u, i)
    BY DEF Content, BufOk
  <2>2. ASSUME NEW i \in 1 .. n PROVE u[i] # Erased
    <3>1. u[i][1] >= 1
      BY <2>1 DEF WholeInBuf
    <3> QED BY <3>1 DEF Erased
  <2> QED BY <2>1, <2>2
<1>6. \A i, j \in 1 .. n : i < j => Precedes(u[i], u[j])
  BY DEF Content, BufOk
<1>7. /\ WholeMessages(f) /\ NoGaps(f) /\ Filled(f, p) /\ Ordered(f, p)
      /\ Before(Ids(f, p), BufIds(u))
      /\ Below(Ids(f, p), k) /\ Below(BufIds(u), k)
  BY DEF Content, FlashOk
<1>8. \A i \in 1 .. n : u[i][1] \in BufIds(u)
  BY DEF BufIds
<1>9. ASSUME NEW o \in Offsets
      PROVE  /\ s <= o /\ o < s + n =>
                   o - s + 1 \in 1 .. n /\ g[o] = u[o - s + 1] /\ g[o] # Erased
             /\ ~(s <= o /\ o < s + n) => g[o] = f[o]
  <2>1. g[o] = IF s <= o /\ o < s + Len(u)
               THEN IF f[o] = Erased THEN u[o - s + 1] ELSE Junk
               ELSE f[o]
    BY DEF Programmed
  <2>2. g[o] = IF s <= o /\ o < s + n
               THEN IF f[o] = Erased THEN u[o - s + 1] ELSE Junk
               ELSE f[o]
    BY <2>1
  <2> HIDE DEF g, n
  <2>3. ASSUME s <= o, o < s + n
        PROVE  o - s + 1 \in 1 .. n /\ f[o] = Erased
    <3>1. o < end
      BY <1>1, <1>3, <2>3
    <3> QED BY <1>1, <1>3, <1>4, <2>3, <3>1
  <2> QED BY <1>5, <2>2, <2>3
<1>10. \A i \in 1 .. n : s + i - 1 \in Offsets /\ g[s + i - 1] = u[i]
  <2> HIDE DEF g, n
  <2> SUFFICES ASSUME NEW i \in 1 .. n
               PROVE  s + i - 1 \in Offsets /\ g[s + i - 1] = u[i]
    OBVIOUS
  <2> DEFINE o == s + i - 1
  <2>1. o \in Nat /\ o < Size /\ s <= o /\ o < s + n /\ o - s + 1 = i
    BY <1>0, <1>1
  <2>2. o \in Offsets
    BY <1>0, <2>1 DEF Offsets
  <2> HIDE DEF o
  <2>3. g[o] = u[i]
    BY <1>9, <2>1, <2>2
  <2> QED BY <2>2, <2>3 DEF o
<1> HIDE DEF g
<1>11. \A b \in Blocks : \A o \in InBlock(b) :
          o \in Offsets /\ b \in Nat /\ b <= o /\ o < b + BlockSize
          /\ (b0 <= o /\ o < end => b = b0)
  <2> SUFFICES ASSUME NEW b \in Blocks, NEW o \in InBlock(b)
               PROVE  /\ o \in Offsets /\ b \in Nat /\ b <= o
                      /\ o < b + BlockSize
                      /\ (b0 <= o /\ o < end => b = b0)
    BY <1>1
  <2>1. o \in Offsets /\ b <= o /\ o < b + BlockSize /\ b \in Nat
    BY BlockArithmetic DEF InBlock
  <2>2. b = b0 \/ b + BlockSize <= b0 \/ b0 + BlockSize <= b
    BY <1>1, <2>1, BlocksApart
  <2> QED BY <1>0, <1>1, <1>3, <2>1, <2>2
<1>12. WholeMessages(g)
  <2> SUFFICES ASSUME NEW b \in Blocks, NEW o \in InBlock(b), g[o] # Erased
               PROVE  MessageAround(g, b, o)
    BY DEF WholeMessages
  <2>1. /\ o \in Offsets /\ o \in Nat /\ o < Size /\ b \in Nat
        /\ b <= o /\ o < b + BlockSize
    BY <1>3, <1>11
  <2>2. CASE s <= o /\ o < s + n
    <3> DEFINE i  == o - s + 1
               c  == u[i]
               c2 == c[2]
               c3 == c[3]
               hi == i - c2 + 1
               h  == o - c2 + 1
    <3>1. i \in 1 .. n /\ g[o] = c
      BY <1>9, <2>1, <2>2
    <3>2. b = b0
      <4> HIDE DEF n
      <4> QED BY <1>1, <1>11, <2>1, <2>2
    <3>3. c \in Cells /\ WholeInBuf(u, i)
      BY <1>5, <3>1
    <3>4. /\ c[1] >= 1 /\ 1 <= c2 /\ c2 <= c3
          /\ 1 <= hi /\ hi + c3 - 1 <= n
      BY <3>3 DEF WholeInBuf
    <3>5. \A j \in 1 .. c3 : u[hi + j - 1] = <<c[1], j, c3>>
      BY <3>3 DEF WholeInBuf
    <3>6. c2 \in Nat /\ c3 \in Nat
      BY <3>3 DEF Cells
    <3> HIDE DEF c2, c3, c, n
    <3>7. h = s + hi - 1 /\ h \in Int /\ hi \in Int
      <4>1. s \in Nat /\ o \in Nat
        BY <1>1, <2>1
      <4> HIDE DEF s
      <4> QED BY <4>1, <3>6
    <3> HIDE DEF i, h, hi
    <3>8. b <= h /\ h + c3 <= b + BlockSize
      <4>1. hi + c3 - 1 <= n /\ 1 <= hi
        BY <3>4
      <4> QED BY <1>0, <1>1, <3>2, <3>6, <3>7, <4>1
    <3>9. ASSUME NEW j \in 1 .. c3 PROVE g[h + j - 1] = <<c[1], j, c3>>
      <4> DEFINE v == hi + j - 1
      <4>1. hi + c3 - 1 <= n /\ 1 <= hi
        BY <3>4
      <4>2. v \in 1 .. n /\ s + v - 1 = h + j - 1
        BY <1>1, <3>6, <3>7, <4>1
      <4>3. u[v] = <<c[1], j, c3>>
        BY <3>5
      <4> HIDE DEF v
      <4> QED BY <1>10, <4>2, <4>3
    <3>10. c[1] >= 1 /\ 1 <= c2 /\ c2 <= c3
      BY <3>4
    <3> QED BY <3>1, <3>8, <3>9, <3>10 DEF MessageAround, h, c2, c3
  <2>3. CASE ~(s <= o /\ o < s + n)
    <3> DEFINE c == f[o]
               c2 == c[2]
               c3 == c[3]
               h == o - c2 + 1
    <3>1. g[o] = c /\ MessageAround(f, b, o)
      BY <1>7, <1>9, <2>1, <2>3 DEF WholeMessages
    <3>2. c[1] >= 1 /\ 1 <= c2 /\ c2 <= c3
      BY <3>1 DEF MessageAround
    <3>3. b <= h /\ h + c3 <= b + BlockSize
      BY <3>1 DEF MessageAround
    <3>4. \A j \in 1 .. c3 : f[h + j - 1] = <<c[1], j, c3>>
      BY <3>1 DEF MessageAround
    <3>5. c[1] \in Nat /\ c2 \in Nat /\ c3 \in Nat
      BY <2>1 DEF Chip, Cells
    <3> HIDE DEF c2, c3, c
    <3>6. b + BlockSize <= Size
      BY BlockArithmetic
    <3>7. h \in Int
      BY <2>1, <3>5
    <3> HIDE DEF h
    <3>8. ASSUME NEW j \in 1 .. c3 PROVE g[h + j - 1] = f[h + j - 1]
      <4> DEFINE v == h + j - 1
      <4>1. v \in Nat /\ v < Size
        BY <1>0, <2>1, <3>3, <3>5, <3>6, <3>7
      <4>2. v \in Offsets
        BY <1>0, <4>1 DEF Offsets
      <4>3. f[v] # Erased
        <5>1. f[v] = <<c[1], j, c3>>
          BY <3>4
        <5> QED BY <3>2, <3>5, <5>1 DEF Erased
      <4> HIDE DEF v, n
      <4>4. ~(s <= v /\ v < s + n)
        BY <1>1, <1>4, <4>1, <4>2, <4>3
      <4>5. g[v] = f[v]
        BY <1>9, <4>2, <4>4 DEF n
      <4> QED BY <4>5 DEF v
    <3> QED BY <3>1, <3>2, <3>3, <3>4, <3>8 DEF MessageAround, c, c2, c3, h
  <2> QED BY <2>2, <2>3
<1>13. NoGaps(g)
  <2> SUFFICES ASSUME NEW b \in Blocks, NEW o \in InBlock(b), NEW w \in InBlock(b),
                      o < w, g[o] = Erased
               PROVE  g[w] = Erased
    BY DEF NoGaps
  <2>1. /\ o \in Offsets /\ o \in Nat /\ w \in Offsets /\ w \in Nat
        /\ b <= o /\ b \in Nat
    BY <1>3, <1>11
  <2>2. ~(s <= o /\ o < s + n) /\ f[o] = Erased
    BY <1>9, <2>1
  <2>3. f[w] = Erased
    BY <1>7, <2>2 DEF NoGaps
  <2>4. ~(s <= w /\ w < s + n)
    <3> HIDE DEF n
    <3>1. ASSUME s <= w, w < s + n PROVE FALSE
      <4>1. b = b0
        BY <1>1, <1>11, <2>1, <3>1
      <4>2. o < s
        BY <1>1, <2>1, <2>2, <3>1
      <4>3. f[o] # Erased
        BY <1>7, <2>1, <4>1, <4>2 DEF Filled
      <4> QED BY <2>2, <4>3
    <3> QED BY <3>1
  <2> QED BY <1>9, <2>1, <2>3, <2>4
<1>14. Filled(g, q)
  <2> SUFFICES ASSUME NEW o \in Offsets, q.block <= o, o < q.offset
               PROVE  g[o] # Erased
    BY DEF Filled
  <2>1. b0 <= o /\ o < s + n
    OBVIOUS
  <2>2. CASE s <= o
    BY <1>9, <2>1, <2>2
  <2>3. CASE ~(s <= o)
    <3>1. o < s
      BY <1>1, <1>3, <2>3
    <3>2. f[o] # Erased
      BY <1>7, <2>1, <3>1 DEF Filled
    <3> QED BY <1>9, <2>3, <3>2
  <2> QED BY <2>2, <2>3
<1>15. Blank(g, q)
  <2> SUFFICES ASSUME NEW o \in Offsets, q.offset <= o, o < q.block + BlockSize
               PROVE  g[o] = Erased
    BY DEF Blank
  <2>1. s + n <= o /\ o < end
    OBVIOUS
  <2> HIDE DEF n, end
  <2>2. s <= o /\ ~(o < s + n)
    BY <1>1, <1>3, <2>1
  <2> QED BY <1>4, <1>9, <2>1, <2>2 DEF n
<1>16. Live(q) = Live(p) /\ \A o \in Offsets : Age(q, o) = Age(p, o)
  BY DEF Live, Age
<1>17. ASSUME NEW o \in Offsets
       PROVE  o \in Used(g, q) <=> o \in Used(f, p) \/ (s <= o /\ o < s + n)
  <2>1. CASE s <= o /\ o < s + n
    <3> HIDE DEF n
    <3>1. o < end
      BY <1>1, <1>3, <2>1
    <3>2. o \in Live(p)
      BY <3>1 DEF Live
    <3> QED BY <1>9, <1>16, <2>1, <3>2 DEF Used, n
  <2>2. CASE ~(s <= o /\ o < s + n)
    BY <1>9, <1>16, <2>2 DEF Used
  <2> QED BY <2>1, <2>2
<1>18. ASSUME NEW o \in Used(f, p)
       PROVE  /\ o \in Offsets /\ o \in Nat /\ o < Size /\ g[o] = f[o]
              /\ ~(s <= o /\ o < s + n) /\ ~(s <= o /\ o < end)
              /\ p.start # 0 \/ o < end
              /\ f[o][1] \in Ids(f, p)
  <2>1. /\ o \in Offsets /\ (p.start # 0 \/ o < end) /\ f[o] # Erased
        /\ f[o][1] \in Ids(f, p)
    BY DEF Used, Live, Ids
  <2>2. ~(s <= o /\ o < end)
    BY <1>4, <2>1
  <2>3. ~(s <= o /\ o < s + n)
    <3> HIDE DEF n
    <3> QED BY <1>1, <1>3, <2>1, <2>2
  <2> QED BY <1>3, <1>9, <2>1, <2>2, <2>3
<1>19. Ordered(g, q)
  <2> SUFFICES ASSUME NEW o \in Used(g, q), NEW w \in Used(g, q),
                      Age(q, o) < Age(q, w)
               PROVE  Precedes(g[o], g[w])
    BY DEF Ordered
  <2>1. /\ o \in Offsets /\ o \in Nat /\ o < Size
        /\ w \in Offsets /\ w \in Nat /\ w < Size
        /\ Age(p, o) < Age(p, w)
    BY <1>3, <1>16 DEF Used, Live
  <2>2. CASE o \in Used(f, p) /\ w \in Used(f, p)
    BY <1>7, <1>18, <2>1, <2>2 DEF Ordered
  <2>3. CASE o \in Used(f, p) /\ s <= w /\ w < s + n
    <3>1. w - s + 1 \in 1 .. n /\ g[w] = u[w - s + 1]
      BY <1>9, <2>1, <2>3
    <3>2. g[w][1] \in BufIds(u)
      BY <1>8, <3>1
    <3>3. g[o][1] \in Ids(f, p)
      BY <1>18, <2>3
    <3> QED BY <1>7, <3>2, <3>3 DEF Before, Precedes
  <2>4. CASE s <= o /\ o < s + n /\ s <= w /\ w < s + n
    <3>1. /\ o - s + 1 \in 1 .. n /\ g[o] = u[o - s + 1]
          /\ w - s + 1 \in 1 .. n /\ g[w] = u[w - s + 1]
      BY <1>9, <2>1, <2>4
    <3> HIDE DEF n
    <3>2. o < w
      <4>1. o < end /\ w < end /\ Size \in Nat
        BY <1>0, <1>1, <2>1, <2>4
      <4>2. Age(p, o) < Age(p, w)
        BY <2>1
      <4> HIDE DEF end, s
      <4> QED BY <1>1, <1>2, <2>1, <2>4, <4>1, <4>2 DEF Age
    <3>3. o - s + 1 < w - s + 1
      BY <1>1, <2>1, <3>2
    <3> QED BY <1>6, <3>1, <3>3
  <2>5. CASE s <= o /\ o < s + n /\ w \in Used(f, p)
    <3>1. ~(s <= w /\ w < end) /\ (p.start # 0 \/ w < end)
      BY <1>18, <2>5
    <3> HIDE DEF n
    <3>2. o < end
      BY <1>1, <2>1, <2>5
    <3>3. FALSE
      BY <1>0, <1>1, <1>2, <2>1, <2>5, <3>1, <3>2 DEF Age
    <3> QED BY <3>3
  <2>6. (o \in Used(f, p) \/ (s <= o /\ o < s + n))
        /\ (w \in Used(f, p) \/ (s <= w /\ w < s + n))
    BY <1>17, <2>1
  <2> QED BY <2>2, <2>3, <2>4, <2>5, <2>6
<1>20. Ids(g, q) = Ids(f, p) \cup BufIds(u)
  <2>1. ASSUME NEW o \in Used(g, q) PROVE g[o][1] \in Ids(f, p) \cup BufIds(u)
    <3>1. o \in Offsets
      BY DEF Used, Live
    <3>2. CASE o \in Used(f, p)
      BY <1>18, <3>2
    <3>3. CASE s <= o /\ o < s + n
      <4>1. o - s + 1 \in 1 .. n /\ g[o] = u[o - s + 1]
        BY <1>9, <3>1, <3>3
      <4> QED BY <1>8, <4>1
    <3> QED BY <1>17, <3>1, <3>2, <3>3
  <2>2. ASSUME NEW o \in Used(f, p) PROVE f[o][1] \in Ids(g, q)
    <3>1. o \in Used(g, q) /\ g[o] = f[o]
      BY <1>17, <1>18, <2>2
    <3> QED BY <3>1 DEF Ids
  <2>3. ASSUME NEW i \in 1 .. n PROVE u[i][1] \in Ids(g, q)
    <3> DEFINE o == s + i - 1
    <3>1. o \in Offsets /\ g[o] = u[i]
      BY <1>10
    <3> HIDE DEF n
    <3>2. s <= o /\ o < s + n
      BY <1>1
    <3> HIDE DEF o
    <3>3. o \in Used(g, q)
      BY <1>17, <3>1, <3>2
    <3> QED BY <3>1, <3>3 DEF Ids
  <2>4. Ids(g, q) \subseteq Ids(f, p) \cup BufIds(u)
    BY <2>1 DEF Ids
  <2>5. Ids(f, p) \subseteq Ids(g, q)
    BY <2>2 DEF Ids
  <2>6. BufIds(u) \subseteq Ids(g, q)
    BY <2>3 DEF BufIds
  <2> QED BY <2>4, <2>5, <2>6
<1>21. Content(g, q, <<>>, k)
  <2>1. BufOk(<<>>) /\ BufIds(<<>>) = {}
    BY DEF BufOk, BufIds
  <2>2. Before(Ids(g, q), {}) /\ Below({}, k)
    BY DEF Before, Below
  <2>3. Below(Ids(g, q), k)
    BY <1>7, <1>20 DEF Below
  <2>4. FlashOk(g, q)
    BY <1>12, <1>13, <1>14, <1>15, <1>19 DEF FlashOk
  <2> QED BY <2>1, <2>2, <2>3, <2>4 DEF Content
<1> QED BY <1>10, <1>20, <1>21 DEF g

(* Ids are numbers.                                                        *)
LEMMA IdsAreNumbers ==
    ASSUME NEW f \in Chip, NEW p, NEW u \in Seq(Cells)
    PROVE  Ids(f, p) \subseteq Nat /\ BufIds(u) \subseteq Nat
<1>1. \A c \in Cells : c[1] \in Nat
  BY DEF Cells
<1>2. \A o \in Used(f, p) : f[o] \in Cells
  BY DEF Used, Live, Chip
<1>3. \A i \in 1 .. Len(u) : u[i] \in Cells
  OBVIOUS
<1>4. Ids(f, p) \subseteq Nat
  BY <1>1, <1>2 DEF Ids
<1>5. BufIds(u) \subseteq Nat
  BY <1>1, <1>3 DEF BufIds
<1> QED BY <1>4, <1>5

(* The buffer may be forgotten, and the next id is larger still.           *)
LEMMA ForgetBuffer ==
    ASSUME NEW f \in Chip, NEW p, NEW u \in Seq(Cells), NEW k \in Nat,
           Content(f, p, u, k)
    PROVE  /\ Content(f, p, <<>>, k) /\ BufIds(<<>>) = {}
           /\ Content(f, p, u, k + 1)
<1>1. BufOk(<<>>) /\ BufIds(<<>>) = {}
  BY DEF BufOk, BufIds
<1>2. Before(Ids(f, p), {}) /\ Below({}, k)
  BY DEF Before, Below
<1>3. \A x \in Nat : x < k => x < k + 1
  OBVIOUS
<1>4. Below(Ids(f, p), k + 1) /\ Below(BufIds(u), k + 1)
  BY <1>3, IdsAreNumbers DEF Content, Below
<1> QED BY <1>1, <1>2, <1>4 DEF Content

(* A message that arrives is the newest.                                   *)
LEMMA AppendMessage ==
    ASSUME NEW f \in Chip, NEW p, NEW u \in Seq(Cells),
           NEW k \in 1 .. MaxMsgs + 1,
           NEW n \in Nat \ {0}, n <= BlockSize, Content(f, p, u, k)
    PROVE  LET v == u \o MsgCells(k, n)
           IN  Content(f, p, v, k + 1) /\ BufIds(v) = BufIds(u) \cup {k}
<1> DEFINE c == MsgCells(k, n)
           v == u \o c
           m == Len(u)
<1>0. k \in Nat /\ k \in 0 .. MaxMsgs + 1
  BY BoundsAssumption
<1>1. c \in Seq(Cells) /\ Len(c) = n /\ \A j \in 1 .. n : c[j] = <<k, j, n>>
  <2>1. c \in Seq(Cells) /\ Len(c) = n
    BY <1>0, MsgCellsType
  <2> QED BY <2>1 DEF MsgCells
<1> HIDE DEF c
<1>2. m \in Nat /\ v \in Seq(Cells) /\ Len(v) = m + n
  BY <1>1
<1>3. ASSUME NEW i \in 1 .. m PROVE v[i] = u[i] /\ i \in 1 .. m + n
  BY <1>1, <1>2
<1>4. ASSUME NEW i \in 1 .. m + n, i > m
      PROVE  v[i] = <<k, i - m, n>> /\ i - m \in 1 .. n
  <2>1. i - m \in 1 .. n
    BY <1>2, <1>4
  <2>2. v[i] = c[i - m]
    BY <1>1, <1>2, <1>4
  <2> QED BY <1>1, <2>1, <2>2
<1>5. Len(v) = m + n
  BY <1>2
<1>6. \A i \in 1 .. m : WholeInBuf(u, i) /\ u[i] \in Cells
  BY DEF Content, BufOk
<1>7. /\ \A i, j \in 1 .. m : i < j => Precedes(u[i], u[j])
      /\ \A i \in 1 .. m : u[i][1] < k
      /\ Before(Ids(f, p), BufIds(u)) /\ FlashOk(f, p)
      /\ Below(Ids(f, p), k) /\ Below(BufIds(u), k)
  BY DEF Content, BufOk, Below, BufIds
<1>8. m \in Nat /\ n \in Nat /\ n >= 1
  BY <1>2
<1> HIDE DEF v, m
<1>9. ASSUME NEW i \in 1 .. m + n PROVE WholeInBuf(v, i)
  <2>1. CASE i <= m
    <3> DEFINE e  == u[i]
               e2 == e[2]
               e3 == e[3]
               h  == i - e2 + 1
    <3>0. i \in 1 .. m
      BY <1>8, <2>1
    <3>1. v[i] = e /\ WholeInBuf(u, i) /\ e \in Cells
      BY <1>3, <1>6, <3>0
    <3>2. e[1] >= 1 /\ 1 <= e2 /\ e2 <= e3 /\ 1 <= h /\ h + e3 - 1 <= m
      BY <3>1 DEF WholeInBuf, m
    <3>3. \A j \in 1 .. e3 : u[h + j - 1] = <<e[1], j, e3>>
      BY <3>1 DEF WholeInBuf
    <3>4. e2 \in Nat /\ e3 \in Nat
      BY <3>1 DEF Cells
    <3> HIDE DEF e2, e3, e
    <3>5. h \in Int
      BY <3>4
    <3> HIDE DEF h
    <3>6. h + e3 - 1 <= m + n
      BY <1>8, <3>2, <3>4, <3>5
    <3>7. ASSUME NEW j \in 1 .. e3 PROVE v[h + j - 1] = u[h + j - 1]
      <4>1. h + j - 1 \in 1 .. m
        BY <1>8, <3>2, <3>4, <3>5
      <4> QED BY <1>3, <4>1
    <3> QED BY <1>5, <3>1, <3>2, <3>3, <3>6, <3>7 DEF WholeInBuf, h, e, e2, e3
  <2>2. CASE ~(i <= m)
    <3>1. v[i] = <<k, i - m, n>> /\ i - m \in 1 .. n
      BY <1>4, <1>8, <2>2
    <3>2. i - (i - m) + 1 = m + 1
      BY <1>8
    <3>3. ASSUME NEW j \in 1 .. n PROVE v[m + 1 + j - 1] = <<k, j, n>>
      <4>1. /\ m + 1 + j - 1 \in 1 .. m + n /\ m + 1 + j - 1 > m
            /\ (m + 1 + j - 1) - m = j
        BY <1>8
      <4> QED BY <1>4, <4>1
    <3>4. 1 <= m + 1 /\ m + 1 + n - 1 <= m + n /\ 1 <= i - m /\ i - m <= n
      BY <1>8, <3>1
    <3> DEFINE e  == v[i]
               e2 == e[2]
               e3 == e[3]
    <3>5. e[1] = k /\ e2 = i - m /\ e3 = n
      BY <3>1
    <3>6. i - e2 + 1 = m + 1
      BY <3>2, <3>5
    <3> HIDE DEF e2, e3, e
    <3>7. \A j \in 1 .. e3 : v[(i - e2 + 1) + j - 1] = <<e[1], j, e3>>
      BY <3>3, <3>5, <3>6
    <3>8. /\ e[1] >= 1 /\ 1 <= e2 /\ e2 <= e3 /\ 1 <= i - e2 + 1
          /\ (i - e2 + 1) + e3 - 1 <= Len(v)
      BY <1>5, <3>4, <3>5, <3>6
    <3> QED BY <3>7, <3>8 DEF WholeInBuf, e, e2, e3
  <2> QED BY <2>1, <2>2
<1>10. ASSUME NEW i \in 1 .. m + n, NEW j \in 1 .. m + n, i < j
       PROVE  Precedes(v[i], v[j])
  <2>1. CASE j <= m
    <3>1. i \in 1 .. m /\ j \in 1 .. m
      BY <1>8, <1>10, <2>1
    <3> QED BY <1>3, <1>7, <1>10, <3>1
  <2>2. CASE i <= m /\ ~(j <= m)
    <3>1. i \in 1 .. m /\ j > m
      BY <1>8, <2>2
    <3>2. v[i][1] < k /\ v[j] = <<k, j - m, n>>
      BY <1>3, <1>4, <1>7, <3>1
    <3> QED BY <3>2 DEF Precedes
  <2>3. CASE ~(i <= m)
    <3>1. i > m /\ j > m
      BY <1>8, <1>10, <2>3
    <3>2. v[i] = <<k, i - m, n>> /\ v[j] = <<k, j - m, n>>
      BY <1>4, <3>1
    <3>3. i - m < j - m
      BY <1>8, <1>10
    <3> QED BY <3>2, <3>3 DEF Precedes
  <2> QED BY <2>1, <2>2, <2>3
<1>11. BufIds(v) = BufIds(u) \cup {k}
  <2>1. \A i \in 1 .. m + n : v[i][1] \in BufIds(u) \cup {k}
    <3>1. ASSUME NEW i \in 1 .. m + n PROVE v[i][1] \in BufIds(u) \cup {k}
      <4>1. CASE i <= m
        <5>1. i \in 1 .. m
          BY <1>8, <4>1
        <5>2. v[i][1] = u[i][1]
          BY <1>3, <5>1
        <5> QED BY <5>1, <5>2 DEF BufIds, m
      <4>2. CASE ~(i <= m)
        <5>1. v[i] = <<k, i - m, n>>
          BY <1>4, <1>8, <4>2
        <5> QED BY <5>1
      <4> QED BY <4>1, <4>2
    <3> QED BY <3>1
  <2>2. \A i \in 1 .. m : u[i][1] = v[i][1] /\ i \in 1 .. m + n
    BY <1>3
  <2>3. k = v[m + 1][1] /\ m + 1 \in 1 .. m + n
    <3>1. m + 1 \in 1 .. m + n /\ m + 1 > m
      BY <1>8
    <3> QED BY <1>4, <3>1
  <2>4. BufIds(v) = {v[i][1] : i \in 1 .. m + n} /\ BufIds(u) = {u[i][1] : i \in 1 .. m}
    BY <1>5 DEF BufIds, m
  <2> QED BY <2>1, <2>2, <2>3, <2>4
<1>12. BufOk(v)
  BY <1>5, <1>9, <1>10 DEF BufOk
<1>13. Before(Ids(f, p), BufIds(v))
  BY <1>7, <1>11 DEF Before, Below
<1>14. Below(Ids(f, p), k + 1) /\ Below(BufIds(v), k + 1)
  <2>1. \A x \in Nat : x < k => x < k + 1
    BY <1>0
  <2>2. k < k + 1
    BY <1>0
  <2> QED BY <1>7, <1>11, <2>1, <2>2, IdsAreNumbers DEF Below
<1> QED BY <1>7, <1>11, <1>12, <1>13, <1>14 DEF Content, v, c

-----------------------------------------------------------------------------
(* What a reader finds                                                     *)

(* A set of places has a first one.                                        *)
LEMMA FirstPlace ==
    ASSUME NEW T \in SUBSET Nat, T # {}
    PROVE  \E o \in T : \A w \in T : o <= w
<1>1. IsWellFoundedOn(OpToRel(<, Nat), Nat)
  BY NatLessThanWellFounded
<1>2. PICK o \in T : \A w \in T : ~(<<w, o>> \in OpToRel(<, Nat))
  BY <1>1, WFMin, Zenon
<1>3. \A w \in T : w \in Nat /\ o \in Nat /\ ~(w < o)
  BY <1>2 DEF OpToRel
<1> QED BY <1>3

(* The walk through a block visits every message in it.                    *)
LEMMA WalkFindsAll ==
    ASSUME NEW d, d.flash \in Chip, Sited(d.ram), FlashOk(d.flash, d.ram),
           NEW b \in Blocks
    PROVE  CompleteMsgs(d, b) = {o \in InBlock(b) : IsHead(d.flash[o])}
<1> DEFINE f   == d.flash
           p   == d.ram
           end == BlockEnd(d, b)
           In  == b .. end - 1
           HeadAt(o) == o \in In /\ o \in Offsets /\ IsHead(f[o])
           Closed(S) == /\ HeadAt(b) => b \in S
                        /\ \A o \in S : LET e == o + f[o][3]
                                        IN  HeadAt(e) => e \in S
           heads == {q \in In : HeadAt(q)}
<1>0. BlockSize \in Nat /\ BlockSize >= 2 /\ Size \in Nat /\ b \in Nat
      /\ b + BlockSize <= Size
  BY BlockArithmetic, GeometryAssumption
<1>1. /\ p.offset \in Nat /\ p.block <= p.offset
      /\ p.offset <= p.block + BlockSize /\ p.block \in Nat
      /\ p.block \in Blocks
  BY SitedFacts
<1>2. end \in Nat /\ b <= end /\ end <= b + BlockSize
      /\ end = IF b = p.block THEN p.offset ELSE b + BlockSize
  BY <1>0, <1>1 DEF BlockEnd
<1>3. WholeMessages(f) /\ NoGaps(f) /\ Blank(f, p)
  BY DEF FlashOk
<1>4. \A o \in Offsets : f[o] \in Cells /\ o \in Nat
  BY <1>0 DEF Chip, Offsets
<1>5. MsgStarts(d, b) =
        {o \in In : HeadAt(o) /\ \A S \in SUBSET heads : Closed(S) => o \in S}
  BY DEF MsgStarts
<1>6. \A o \in Offsets : IsHead(f[o]) => f[o] # Erased
  BY DEF IsHead, Erased
<1> HIDE DEF end, p
<1>7. \A o \in InBlock(b) : o \in Offsets /\ b <= o /\ o < b + BlockSize
  BY DEF InBlock
<1>8. \A o \in InBlock(b) : f[o] # Erased => o < end
  <2> SUFFICES ASSUME NEW o \in InBlock(b), f[o] # Erased PROVE o < end
    OBVIOUS
  <2>1. o \in Offsets /\ b <= o /\ o < b + BlockSize /\ o \in Nat
    BY <1>4, <1>7
  <2>2. b = p.block => ~(p.offset <= o)
    BY <1>3, <2>1 DEF Blank
  <2> QED BY <1>0, <1>1, <1>2, <2>1, <2>2
<1>9. \A o : HeadAt(o) <=> o \in InBlock(b) /\ IsHead(f[o])
  <2>1. ASSUME NEW o, HeadAt(o) PROVE o \in InBlock(b) /\ IsHead(f[o])
    <3>1. o \in Offsets /\ o \in Nat /\ b <= o /\ o < b + BlockSize
      BY <1>0, <1>2, <1>4, <2>1
    <3> QED BY <2>1, <3>1 DEF InBlock
  <2>2. ASSUME NEW o, o \in InBlock(b), IsHead(f[o]) PROVE HeadAt(o)
    <3>1. o \in Offsets /\ o \in Nat /\ b <= o
      BY <1>4, <1>7, <2>2
    <3>2. o < end
      BY <1>6, <1>8, <2>2, <3>1
    <3>3. o \in In
      BY <1>0, <1>2, <3>1, <3>2
    <3> QED BY <2>2, <3>1, <3>3
  <2> QED BY <2>1, <2>2
<1> HIDE DEF HeadAt
<1>10. ASSUME NEW S \in SUBSET heads, Closed(S) PROVE \A o : HeadAt(o) => o \in S
  <2> DEFINE left == {o \in InBlock(b) : HeadAt(o) /\ o \notin S}
  <2> SUFFICES ASSUME left # {} PROVE FALSE
    BY <1>9
  <2>1. left \in SUBSET Nat
    BY <1>4, <1>7
  <2>2. PICK o \in left : \A w \in left : o <= w
    <3> HIDE DEF left
    <3> QED BY <2>1, FirstPlace
  <2>3. /\ o \in InBlock(b) /\ o \in Offsets /\ o \in Nat /\ b <= o
        /\ o < b + BlockSize /\ IsHead(f[o]) /\ f[o] # Erased /\ o \notin S
    BY <1>4, <1>6, <1>7, <1>9
  <2>4. o # b
    <3>1. HeadAt(b) => b \in S
      BY <1>10
    <3> QED BY <2>2, <3>1
  <2> DEFINE z == o - 1
  <2>5. z \in Nat /\ z \in InBlock(b) /\ z < o
    <3>1. z \in Nat /\ z < o /\ b <= z /\ z < b + BlockSize /\ z < Size
      BY <1>0, <2>3, <2>4
    <3>2. z \in Offsets
      BY <1>0, <3>1 DEF Offsets
    <3> QED BY <3>1, <3>2 DEF InBlock
  <2>6. f[z] # Erased
    BY <1>3, <2>3, <2>5 DEF NoGaps
  <2>7. MessageAround(f, b, z)
    BY <1>3, <2>5, <2>6 DEF WholeMessages
  <2> DEFINE c  == f[z]
             c2 == c[2]
             c3 == c[3]
             h  == z - c2 + 1
  <2>8. c[1] >= 1 /\ 1 <= c2 /\ c2 <= c3 /\ b <= h /\ h + c3 <= b + BlockSize
    BY <2>7 DEF MessageAround
  <2>9. \A j \in 1 .. c3 : f[h + j - 1] = <<c[1], j, c3>>
    BY <2>7 DEF MessageAround
  <2>10. c[1] \in Nat /\ c2 \in Nat /\ c3 \in Nat
    BY <1>4, <1>7, <2>5 DEF Cells
  <2> HIDE DEF c2, c3, c
  <2>11. z = o - 1
    OBVIOUS
  <2> HIDE DEF z
  <2>12. h \in Nat /\ h < o /\ h < Size
    BY <1>0, <2>3, <2>5, <2>8, <2>10, <2>11
  <2>13. c2 = c3
    <3>1. ASSUME c2 < c3 PROVE FALSE
      <4>1. c2 + 1 \in 1 .. c3 /\ h + (c2 + 1) - 1 = o
        BY <2>3, <2>8, <2>10, <2>11, <3>1
      <4>2. f[o] = <<c[1], c2 + 1, c3>>
        BY <2>9, <4>1
      <4>3. f[o][2] = 1
        BY <2>3 DEF IsHead
      <4>4. c2 + 1 = 1
        BY <4>2, <4>3
      <4> QED BY <2>8, <2>10, <4>4
    <3> QED BY <2>8, <2>10, <3>1
  <2>14. h + c3 = o
    BY <2>3, <2>10, <2>11, <2>13
  <2>15. f[h] = <<c[1], 1, c3>>
    <3>1. 1 \in 1 .. c3 /\ h + 1 - 1 = h
      BY <2>8, <2>10, <2>12
    <3> QED BY <2>9, <3>1
  <2> HIDE DEF h
  <2>16. HeadAt(h)
    <3>1. h \in Offsets
      BY <1>0, <2>12 DEF Offsets
    <3>2. h < b + BlockSize /\ b <= h
      BY <1>0, <2>3, <2>8, <2>12
    <3>3. IsHead(f[h])
      BY <2>8, <2>10, <2>15 DEF IsHead
    <3> QED BY <1>9, <3>1, <3>2, <3>3 DEF InBlock
  <2>17. h \in S
    <3>1. h \in left \/ h \in S
      BY <1>9, <2>16
    <3>2. ~(o <= h)
      BY <2>3, <2>12
    <3> QED BY <2>2, <3>1, <3>2
  <2>18. h + f[h][3] = o
    BY <2>14, <2>15
  <2>19. HeadAt(o)
    BY <2>2
  <2>20. \A w \in S : HeadAt(w + f[w][3]) => w + f[w][3] \in S
    BY <1>10
  <2>21. o \in S
    BY <2>17, <2>18, <2>19, <2>20
  <2> QED BY <2>3, <2>21
<1> HIDE DEF heads, Closed
<1>11. MsgStarts(d, b) = {o \in InBlock(b) : IsHead(f[o])}
  <2>1. \A o : HeadAt(o) => o \in In
    BY DEF HeadAt
  <2> QED BY <1>5, <1>9, <1>10, <2>1
<1>12. ASSUME NEW o \in InBlock(b), IsHead(f[o])
       PROVE  o + f[o][3] <= end
  <2> DEFINE c2 == f[o][2]
             c3 == f[o][3]
             c1 == f[o][1]
  <2>1. o \in Offsets /\ o \in Nat /\ f[o] # Erased
    BY <1>4, <1>6, <1>7, <1>12
  <2>2. MessageAround(f, b, o) /\ c2 = 1
    BY <1>3, <1>12, <2>1 DEF WholeMessages, IsHead
  <2>3. c1 \in Nat /\ c2 \in Nat /\ c3 \in Nat
    BY <1>4, <2>1 DEF Cells
  <2>4. c1 >= 1 /\ 1 <= c2 /\ c2 <= c3 /\ b <= o - c2 + 1 /\ (o - c2 + 1) + c3 <= b + BlockSize
    BY <2>2 DEF MessageAround
  <2>5. \A j \in 1 .. c3 : f[(o - c2 + 1) + j - 1] = <<c1, j, c3>>
    BY <2>2 DEF MessageAround
  <2>6. c2 = 1
    BY <2>2
  <2> HIDE DEF c1, c2, c3
  <2>7. o - c2 + 1 = o /\ c3 >= 1 /\ o + c3 <= b + BlockSize /\ b <= o
    BY <2>1, <2>3, <2>4, <2>6
  <2> DEFINE z == o + c3 - 1
  <2>8. z \in Nat /\ z < Size /\ b <= z /\ z < b + BlockSize
    BY <1>0, <2>1, <2>3, <2>7
  <2>9. z \in InBlock(b)
    <3>1. z \in Offsets
      BY <1>0, <2>8 DEF Offsets
    <3> QED BY <2>8, <3>1 DEF InBlock
  <2>10. f[z] # Erased
    <3>1. c3 \in 1 .. c3
      BY <2>3, <2>7
    <3>2. f[z] = <<c1, c3, c3>>
      BY <2>5, <2>7, <3>1
    <3> QED BY <2>3, <2>4, <3>2 DEF Erased
  <2>11. z < end
    BY <1>8, <2>9, <2>10
  <2>12. o + c3 <= end
    BY <1>2, <2>1, <2>3, <2>11
  <2> QED BY <2>12 DEF c3
<1>13. CompleteMsgs(d, b) = {o \in MsgStarts(d, b) : o + f[o][3] <= end}
  BY DEF CompleteMsgs, end
<1> QED BY <1>11, <1>12, <1>13

(* Quotient and remainder are unique.                                      *)
LEMMA Division ==
    ASSUME NEW n \in Nat, n > 0, NEW q \in Int, NEW r \in 0 .. n - 1,
           NEW y \in Int, y = n * q + r
    PROVE  y % n = r /\ y \div n = q
<1> DEFINE a == y \div n
           m == y % n
<1>1. a \in Int /\ m \in 0 .. n - 1 /\ y = n * a + m
  OBVIOUS
<1> HIDE DEF a, m
<1>2. m - r = n * (q - a) /\ q - a \in Int
  BY <1>1
<1>3. ~(q - a >= 1)
  <2>1. ASSUME q - a >= 1 PROVE FALSE
    <3>1. n * (q - a) >= n
      BY <1>1, <2>1
    <3> QED BY <1>1, <1>2, <3>1
  <2> QED BY <2>1
<1>4. ~(q - a <= -1)
  <2>1. ASSUME q - a <= -1 PROVE FALSE
    <3>1. n * (q - a) <= -n
      BY <1>1, <2>1
    <3> QED BY <1>1, <1>2, <3>1
  <2> QED BY <2>1
<1>5. q - a = 0
  BY <1>2, <1>3, <1>4
<1>6. q = a
  BY <1>1, <1>5
<1>7. m = r
  BY <1>1, <1>2, <1>5
<1> QED BY <1>6, <1>7 DEF a, m

(* Places modulo the size of the partition.                                *)
LEMMA AroundTheRing ==
    ASSUME NEW x \in Nat, x < Size
    PROVE  x % Size = x /\ (x + Size) % Size = x /\ (x - Size) % Size = x
<1>0. Size \in Nat /\ Size > 0
  BY BlockArithmetic
<1> DEFINE n == Size
<1>1. /\ x \in 0 .. n - 1 /\ x = n * 0 + x /\ x + n = n * 1 + x
      /\ x - n = n * (-1) + x /\ x \in Int /\ x + n \in Int /\ x - n \in Int
      /\ n \in Nat /\ n > 0 /\ 0 \in Int /\ 1 \in Int /\ -1 \in Int
  BY <1>0
<1> HIDE DEF n
<1>2. x % n = x
  BY <1>1, Division
<1>3. (x + n) % n = x
  <2> DEFINE y == x + n
  <2>1. y \in Int /\ y = n * 1 + x
    BY <1>1
  <2> HIDE DEF y
  <2>2. y % n = x
    BY <1>1, <2>1, Division
  <2> QED BY <2>2 DEF y
<1>4. (x - n) % n = x
  <2> DEFINE y == x - n
             e == -1
  <2>1. y \in Int /\ e \in Int /\ y = n * e + x
    BY <1>1
  <2> HIDE DEF y, e
  <2>2. y % n = x
    BY <1>1, <2>1, Division
  <2> QED BY <2>2 DEF y
<1> QED BY <1>2, <1>3, <1>4 DEF n

(* The blocks a reader walks through.                                      *)
LEMMA LogBlocksAre ==
    ASSUME NEW d, Sited(d.ram)
    PROVE  LogBlocks(d) =
             {b \in Blocks : d.ram.start # 0 \/ b <= d.ram.block}
<1> USE GeometryAssumption
<1> DEFINE p == d.ram
           B == BlockSize
           N == NBlocks
<1>1. /\ p.block \in Blocks /\ p.start \in Blocks /\ p.block \in Nat
      /\ p.start \in Nat /\ p.block + B <= Size
      /\ p.start = 0 \/ (p.start = p.block + B /\ p.start < Size)
  BY SitedFacts
<1>2. Size = N * B /\ Size \in Nat /\ B \in Nat /\ B >= 2 /\ N \in Nat
  BY BlockArithmetic DEF Size
<1>3. PICK kb \in 0 .. N - 1 : p.block = kb * B
  BY <1>1 DEF Blocks
<1> DEFINE dist  == (p.block - p.start) % Size
           count == dist \div B
<1>4. LogBlocks(d) = {(p.start + k * B) % Size : k \in 0 .. count}
  BY DEF LogBlocks
<1> HIDE DEF p
<1>5. CASE p.start = 0
  <2>1. dist = p.block
    <3>1. p.block - p.start = p.block /\ p.block < Size
      BY <1>1, <1>2, <1>5
    <3> QED BY <1>1, <3>1, AroundTheRing
  <2>2. count = kb
    <3> DEFINE y == p.block
    <3>1. y \in Int /\ y = B * kb + 0 /\ 0 \in 0 .. B - 1 /\ kb \in Int /\ B > 0
      BY <1>1, <1>2, <1>3
    <3> HIDE DEF y
    <3>2. y \div B = kb
      BY <1>2, <3>1, Division
    <3> QED BY <2>1, <3>2 DEF y
  <2> HIDE DEF count
  <2>3. \A k \in 0 .. kb : (p.start + k * B) % Size = k * B
                           /\ k * B <= p.block /\ k * B \in Blocks
    <3> SUFFICES ASSUME NEW k \in 0 .. kb
                 PROVE  (p.start + k * B) % Size = k * B
                        /\ k * B <= p.block /\ k * B \in Blocks
      OBVIOUS
    <3>1. k \in 0 .. N - 1
      BY <1>3
    <3>2. k * B \in Blocks
      BY <3>1 DEF Blocks
    <3>3. k * B \in Nat /\ k * B < Size
      BY <1>2, <3>2, BlockArithmetic
    <3>4. p.start + k * B = k * B
      BY <1>5, <3>3
    <3>5. (k * B) % Size = k * B
      <4> DEFINE y == k * B
      <4>1. y \in Nat /\ y < Size
        BY <3>3
      <4> HIDE DEF y
      <4>2. y % Size = y
        BY <4>1, AroundTheRing
      <4> QED BY <4>2 DEF y
    <3>6. k * B <= p.block
      <4>1. PICK j \in Nat : kb = k + j
        <5>1. kb - k \in Nat /\ kb = k + (kb - k)
          BY <1>3
        <5> QED BY <5>1
      <4>2. p.block = k * B + j * B /\ j * B \in Nat
        BY <1>2, <1>3, <4>1
      <4> QED BY <3>3, <4>2
    <3> QED BY <3>2, <3>4, <3>5, <3>6
  <2>4. ASSUME NEW b \in Blocks, b <= p.block
        PROVE  \E k \in 0 .. kb : b = (p.start + k * B) % Size
    <3>1. PICK k \in 0 .. N - 1 : b = k * B
      BY DEF Blocks
    <3>2. k <= kb
      <4>1. ASSUME k >= kb + 1 PROVE FALSE
        <5>1. PICK j \in Nat : k = kb + 1 + j
          <6>1. k - kb - 1 \in Nat /\ k = kb + 1 + (k - kb - 1)
            BY <1>3, <4>1
          <6> QED BY <6>1
        <5>2. b = p.block + B + j * B /\ j * B \in Nat
          BY <1>2, <1>3, <3>1, <5>1
        <5> QED BY <1>1, <1>2, <2>4, <5>2
      <4> QED BY <1>3, <4>1
    <3>3. k \in 0 .. kb
      BY <1>3, <3>2
    <3> QED BY <2>3, <3>1, <3>3
  <2>5. LogBlocks(d) = {b \in Blocks : b <= p.block}
    <3>1. LogBlocks(d) = {(p.start + k * B) % Size : k \in 0 .. kb}
      BY <1>4, <2>2
    <3> QED BY <2>3, <2>4, <3>1
  <2> QED BY <1>5, <2>5 DEF p
<1>6. CASE p.start # 0
  <2>0. p.start = p.block + B /\ p.start < Size
    BY <1>1, <1>6
  <2>1. dist = Size - B
    <3> DEFINE x == Size - B
    <3>1. x \in Nat /\ x < Size /\ p.block - p.start = x - Size
      BY <1>1, <1>2, <2>0
    <3> HIDE DEF x
    <3>2. (x - Size) % Size = x
      BY <3>1, AroundTheRing
    <3> QED BY <3>1, <3>2 DEF x
  <2>2. count = N - 1
    <3> DEFINE y == Size - B
               q == N - 1
    <3>1. y \in Int /\ y = B * q + 0 /\ 0 \in 0 .. B - 1 /\ q \in Int /\ B > 0
      BY <1>2
    <3> HIDE DEF y, q
    <3>2. y \div B = q
      BY <1>2, <3>1, Division
    <3> QED BY <2>1, <3>2 DEF y, q
  <2> HIDE DEF count
  <2>3. PICK ks \in 0 .. N - 1 : p.start = ks * B
    BY <1>1 DEF Blocks
  <2>4. ASSUME NEW k \in 0 .. N - 1 PROVE (p.start + k * B) % Size \in Blocks
    <3> DEFINE j == IF ks + k < N THEN ks + k ELSE ks + k - N
               x == j * B
    <3>1. j \in 0 .. N - 1
      BY <1>2, <2>3
    <3>2. p.start + k * B = x \/ p.start + k * B = x + Size
      BY <1>2, <2>3
    <3>3. x \in Blocks
      BY <3>1 DEF Blocks
    <3>4. x \in Nat /\ x < Size
      BY <1>2, <3>3, BlockArithmetic
    <3> HIDE DEF x
    <3>5. x % Size = x /\ (x + Size) % Size = x
      BY <3>4, AroundTheRing
    <3> QED BY <3>2, <3>3, <3>5
  <2>5. ASSUME NEW b \in Blocks
        PROVE  \E k \in 0 .. N - 1 : b = (p.start + k * B) % Size
    <3>1. PICK j \in 0 .. N - 1 : b = j * B
      BY DEF Blocks
    <3> DEFINE k == IF j >= ks THEN j - ks ELSE j - ks + N
    <3>2. k \in 0 .. N - 1
      BY <1>2, <2>3
    <3>3. p.start + k * B = b \/ p.start + k * B = b + Size
      BY <1>2, <2>3, <3>1
    <3>0. b \in Nat /\ b + BlockSize <= Size
      BY BlockArithmetic
    <3>4. b \in Nat /\ b < Size
      <4> HIDE DEF B
      <4>1. BlockSize \in Nat /\ BlockSize >= 2 /\ Size \in Nat
        BY BlockArithmetic, GeometryAssumption
      <4> QED BY <3>0, <4>1
    <3>5. b % Size = b /\ (b + Size) % Size = b
      BY <3>4, AroundTheRing
    <3> HIDE DEF k
    <3>6. b = (p.start + k * B) % Size
      BY <3>3, <3>5
    <3> QED BY <3>2, <3>6
  <2>6. LogBlocks(d) = Blocks
    <3>1. LogBlocks(d) = {(p.start + k * B) % Size : k \in 0 .. N - 1}
      BY <1>4, <2>2
    <3> QED BY <2>4, <2>5, <3>1
  <2> QED BY <1>6, <2>6 DEF p
<1> QED BY <1>5, <1>6

(* A reader finds the first cell of every message once, and in order.      *)
LEMMA ReaderFinds ==
    ASSUME NEW d, d.flash \in Chip, Sited(d.ram), FlashOk(d.flash, d.ram)
    PROVE  /\ {d.flash[o][1] : o \in Starts(d)} = Ids(d.flash, d.ram)
           /\ \A o, w \in Starts(d) :
                 Walked(d, o) < Walked(d, w) => d.flash[o][1] < d.flash[w][1]
<1> DEFINE f == d.flash
           p == d.ram
<1>0. BlockSize \in Nat /\ BlockSize >= 2 /\ Size \in Nat
  BY BlockArithmetic, GeometryAssumption
<1>1. /\ p.block \in Blocks /\ p.start \in Blocks /\ p.block \in Nat
      /\ p.start \in Nat /\ p.block + BlockSize <= Size /\ p.start <= Size
  BY <1>0, SitedFacts
<1>2. \A o \in Offsets : f[o] \in Cells /\ o \in Nat /\ o < Size
  BY <1>0 DEF Chip, Offsets
<1>3. \A b \in Blocks : b \in Nat /\ b + BlockSize <= Size
  BY BlockArithmetic
<1>4. Starts(d) = {o \in Live(p) : IsHead(f[o])}
  <2>1. LogBlocks(d) = {b \in Blocks : p.start # 0 \/ b <= p.block}
    BY LogBlocksAre
  <2>2. \A b \in Blocks :
            CompleteMsgs(d, b) = {o \in InBlock(b) : IsHead(f[o])}
    BY WalkFindsAll
  <2> HIDE DEF p, f
  <2>3. ASSUME NEW b \in LogBlocks(d), NEW o \in CompleteMsgs(d, b)
        PROVE  o \in Live(p) /\ IsHead(f[o])
    <3>1. b \in Blocks /\ (p.start # 0 \/ b <= p.block)
      BY <2>1
    <3>2. o \in InBlock(b) /\ IsHead(f[o])
      BY <2>2, <2>3, <3>1
    <3>3. o \in Offsets /\ o \in Nat /\ o < b + BlockSize /\ b \in Nat
      BY <1>2, <1>3, <3>1, <3>2 DEF InBlock
    <3>4. b <= p.block => o < p.block + BlockSize
      BY <1>0, <1>1, <3>3
    <3> QED BY <3>1, <3>2, <3>3, <3>4 DEF Live
  <2>4. ASSUME NEW o \in Live(p), IsHead(f[o])
        PROVE  \E b \in LogBlocks(d) : o \in CompleteMsgs(d, b)
    <3>1. o \in Offsets /\ (p.start # 0 \/ o < p.block + BlockSize)
      BY DEF Live
    <3>2. PICK b \in Blocks : o \in InBlock(b)
      BY <3>1, BlocksApart
    <3>3. b <= o /\ o \in Nat /\ b \in Nat
      BY <1>2, <1>3, <3>1, <3>2 DEF InBlock
    <3>4. p.block < b => p.block + BlockSize <= b
      BY <1>1, <3>2, BlocksApart
    <3>5. p.start # 0 \/ b <= p.block
      BY <1>0, <1>1, <3>1, <3>3, <3>4
    <3> QED BY <2>1, <2>2, <2>4, <3>2, <3>5
  <2>5. \A o : o \in Starts(d)
               <=> \E b \in LogBlocks(d) : o \in CompleteMsgs(d, b)
    BY DEF Starts
  <2> QED BY <2>3, <2>4, <2>5
<1>5. \A o \in Starts(d) : o \in Used(f, p) /\ o \in Offsets /\ IsHead(f[o])
  <2>1. ~IsHead(Erased)
    BY DEF IsHead, Erased
  <2> QED BY <1>4, <2>1 DEF Used, Live
<1>6. ASSUME NEW o \in Used(f, p)
      PROVE  \E h \in Starts(d) : f[h][1] = f[o][1]
  <2>1. o \in Live(p) /\ o \in Offsets /\ f[o] # Erased
    BY DEF Used, Live
  <2>2. PICK b \in Blocks : o \in InBlock(b)
    BY <2>1, BlocksApart
  <2> DEFINE c1 == f[o][1]
             c2 == f[o][2]
             c3 == f[o][3]
             h == o - c2 + 1
  <2>3. /\ c1 >= 1 /\ 1 <= c2 /\ c2 <= c3
        /\ b <= h /\ h + c3 <= b + BlockSize
        /\ \A j \in 1 .. c3 : f[h + j - 1] = <<c1, j, c3>>
    BY <2>1, <2>2 DEF FlashOk, WholeMessages, MessageAround
  <2>4. /\ c1 \in Nat /\ c2 \in Nat /\ c3 \in Nat
    BY <1>0, <1>2, <2>1 DEF Cells
  <2>5. b \in Nat /\ b + BlockSize <= Size /\ o \in Nat /\ o < b + BlockSize
    BY <1>2, <1>3, <2>1, <2>2 DEF InBlock
  <2> HIDE DEF c1, c2, c3
  <2>6. h \in Nat /\ h < b + BlockSize /\ h < Size /\ h <= o /\ 1 \in 1 .. c3
        /\ h + 1 - 1 = h
    BY <1>0, <2>3, <2>4, <2>5
  <2>7. f[h] = <<c1, 1, c3>>
    <3>1. f[h + 1 - 1] = <<c1, 1, c3>>
      BY <2>3, <2>6
    <3> QED BY <2>6, <3>1
  <2>8. h \in Offsets
    BY <1>0, <2>6 DEF Offsets
  <2>9. h \in Live(p)
    <3>1. p.start # 0 \/ o < p.block + BlockSize
      BY <2>1 DEF Live
    <3>2. p.start # 0 \/ h < p.block + BlockSize
      BY <1>0, <1>1, <2>5, <2>6, <3>1
    <3> QED BY <2>8, <3>2 DEF Live
  <2>10. IsHead(f[h]) /\ f[h][1] = c1
    BY <2>3, <2>4, <2>7 DEF IsHead
  <2> HIDE DEF h
  <2>11. h \in Starts(d)
    BY <1>4, <2>9, <2>10
  <2> QED BY <2>10, <2>11 DEF c1
<1>7. {f[o][1] : o \in Starts(d)} = Ids(f, p)
  BY <1>5, <1>6 DEF Ids
<1>8. ASSUME NEW o \in Offsets PROVE Walked(d, o) = Age(p, o) - p.start
  <2>1. o \in Nat /\ o < Size
    BY <1>2
  <2>2. CASE o < p.start
    <3> DEFINE x == o - p.start + Size
    <3>1. x \in Nat /\ x < Size /\ o - p.start = x - Size
          /\ Age(p, o) - p.start = x
      BY <1>0, <1>1, <2>1, <2>2 DEF Age
    <3> HIDE DEF x
    <3>2. (x - Size) % Size = x
      BY <3>1, AroundTheRing
    <3> QED BY <3>1, <3>2 DEF Walked
  <2>3. CASE ~(o < p.start)
    <3> DEFINE x == o - p.start
    <3>1. x \in Nat /\ x < Size /\ Age(p, o) - p.start = x
      BY <1>0, <1>1, <2>1, <2>3 DEF Age
    <3> HIDE DEF x
    <3>2. x % Size = x
      BY <3>1, AroundTheRing
    <3> QED BY <3>1, <3>2 DEF Walked, x
  <2> QED BY <2>2, <2>3
<1>9. ASSUME NEW o \in Starts(d), NEW w \in Starts(d),
             Walked(d, o) < Walked(d, w)
      PROVE  f[o][1] < f[w][1]
  <2>1. /\ o \in Used(f, p) /\ o \in Offsets /\ IsHead(f[o]) /\ o \in Nat
        /\ w \in Used(f, p) /\ w \in Offsets /\ IsHead(f[w]) /\ w \in Nat
    BY <1>2, <1>5
  <2>2. Age(p, o) - p.start < Age(p, w) - p.start
    BY <1>8, <1>9, <2>1
  <2>3. Age(p, o) \in Nat /\ Age(p, w) \in Nat
    BY <1>0, <2>1 DEF Age
  <2>4. Age(p, o) < Age(p, w)
    BY <1>1, <2>2, <2>3
  <2>5. Precedes(f[o], f[w])
    BY <2>1, <2>4 DEF FlashOk, Ordered
  <2>6. f[o][2] = 1 /\ f[w][2] = 1
    BY <2>1 DEF IsHead
  <2> QED BY <2>5, <2>6 DEF Precedes
<1> QED BY <1>7, <1>9

(* What waits is what has its last cell in the buffer.                     *)
LEMMA PendingIsBuffer ==
    ASSUME NEW d, d.buf \in Seq(Cells), BufOk(d.buf)
    PROVE  PendingIn(d) = BufIds(d.buf)
<1> DEFINE u == d.buf
           m == Len(u)
           last == {j \in 1 .. m : u[j][2] = u[j][3]}
<1>1. PendingIn(d) = {u[i][1] : i \in last}
  BY DEF PendingIn
<1>2. ASSUME NEW i \in 1 .. m PROVE \E l \in last : u[l][1] = u[i][1]
  <2> DEFINE c1 == u[i][1]
             c2 == u[i][2]
             c3 == u[i][3]
             l == i - c2 + 1 + c3 - 1
  <2>1. /\ c1 >= 1 /\ 1 <= c2 /\ c2 <= c3
        /\ 1 <= i - c2 + 1 /\ i - c2 + 1 + c3 - 1 <= m
        /\ \A j \in 1 .. c3 : u[i - c2 + 1 + j - 1] = <<c1, j, c3>>
    BY DEF BufOk, WholeInBuf
  <2>2. c2 \in Nat /\ c3 \in Nat /\ m \in Nat
    <3>1. u[i] \in Cells
      OBVIOUS
    <3>2. c2 \in 0 .. BlockSize /\ c3 \in 0 .. BlockSize
      BY <3>1 DEF Cells
    <3>3. m \in Nat
      OBVIOUS
    <3> HIDE DEF c2, c3, m
    <3> QED BY <3>2, <3>3, GeometryAssumption
  <2> HIDE DEF c1, c2, c3, m
  <2>3. l \in 1 .. m /\ c3 \in 1 .. c3
    BY <2>1, <2>2
  <2>4. u[l] = <<c1, c3, c3>>
    BY <2>1, <2>3
  <2> HIDE DEF l
  <2>5. u[l][1] = c1 /\ u[l][2] = u[l][3]
    BY <2>4
  <2> QED BY <2>3, <2>5 DEF c1, m
<1> QED BY <1>1, <1>2 DEF BufIds

-----------------------------------------------------------------------------
(* What a reader of a device finds                                         *)

OnFlash(d) == Ids(d.flash, d.ram)
InRam(d)   == BufIds(d.buf)
Current(d) == {d.flash[o][1] : o \in {w \in Offsets : d.ram.block <= w
                                                      /\ w < d.ram.offset}}

(* A sound device whose content is in order; every id is below k.          *)
Orderly(d, K, k) == Sound(d, K) /\ Content(d.flash, d.ram, d.buf, k)

(* From d to r the start stayed, and nothing was given up; or it moved on  *)
(* from the block that was entered.                                        *)
OneOn(d, r, M) ==
    \/ r.ram.start = d.ram.start /\ OnFlash(d) = M
    \/ r.ram.block = d.ram.start /\ r.ram.start = NextBlock(r.ram.block)

(* What follows from a device in order, one fact at a time.                *)
LEMMA OrderlyFacts ==
    ASSUME NEW d, NEW K, NEW k, Orderly(d, K, k)
    PROVE  /\ d.flash \in Chip /\ Sited(d.ram) /\ d.buf \in Seq(Cells)
           /\ d \in Devices /\ FlashOk(d.flash, d.ram) /\ BufOk(d.buf)
           /\ d.ram.left \in Nat /\ d.ram.offset \in Nat /\ Len(d.buf) \in Nat
           /\ Len(d.buf) <= PageSize /\ d.nbuf \in Nat
<1>1. d \in Devices /\ Consistent(d.ram) /\ StartFollows(d.ram)
      /\ Len(d.buf) <= PageSize
  BY DEF Orderly, Sound
<1>2. /\ d.flash \in Chip /\ d.ram \in Positions /\ d.buf \in Seq(Cells)
      /\ d.nbuf \in Nat
  BY <1>1 DEF Devices
<1>3. FlashOk(d.flash, d.ram) /\ BufOk(d.buf)
  BY DEF Orderly, Content
<1>4. d.ram.left \in Nat /\ d.ram.offset \in Nat
  BY <1>2 DEF Positions, Keys
<1> QED BY <1>1, <1>2, <1>3, <1>4 DEF Sited

(* Entering the next block gives up at most the oldest messages.           *)
LEMMA GoToOrderly ==
    ASSUME NEW K \in SUBSET Keys, NEW d, NEW k, Orderly(d, K, k), d.enabled,
           NEW F, "erase" \notin F
    PROVE  LET g == GoToNextBlock(d, F)
           IN  /\ Orderly(g, K, k) /\ g.enabled /\ g.buf = d.buf
               /\ g.nbuf = d.nbuf /\ g.ram.left = BlockSize
               /\ Shed(OnFlash(d), OnFlash(g))
               /\ Current(d) \subseteq OnFlash(g)
               /\ OneOn(d, g, OnFlash(g))
               /\ d.ram.start = NextBlock(d.ram.block)
                     => g.ram.block = d.ram.start
                        /\ g.ram.start = NextBlock(g.ram.block)
<1> DEFINE g == GoToNextBlock(d, F)
           f == d.flash
           p == d.ram
           q == g.ram
           n == NextBlock(p.block)
           h == BlockErased(f, n)
<1>1. /\ f \in Chip /\ Sited(p) /\ FlashOk(f, p) /\ Sound(d, K)
  BY OrderlyFacts DEF Orderly
<1>2. /\ Sound(g, K) /\ g.ram.left = BlockSize
      /\ g.buf = d.buf /\ g.nbuf = d.nbuf /\ g.enabled = d.enabled
      /\ q.block = n /\ q.offset = q.block
      /\ q.start = IF p.start = n THEN NextBlock(n) ELSE p.start
      /\ g.flash = h
  <2>1. Sound(d, K)
    BY <1>1
  <2>2. /\ Sound(g, K) /\ (d.enabled => g.ram.left = BlockSize)
        /\ g.buf = d.buf /\ g.nbuf = d.nbuf /\ g.enabled = d.enabled
        /\ d.enabled =>
              /\ g.ram.block = NextBlock(d.ram.block)
              /\ g.ram.offset = g.ram.block
              /\ g.ram.start = IF d.ram.start = NextBlock(d.ram.block)
                               THEN NextBlock(NextBlock(d.ram.block))
                               ELSE d.ram.start
        /\ d.enabled /\ "erase" \notin F =>
              g.flash = BlockErased(d.flash, NextBlock(d.ram.block))
    BY <2>1, GoToNextLemma, ZenonT(60)
  <2> HIDE DEF g
  <2> QED BY <2>2
<1> HIDE DEF g
<1>3. Sited(q)
  BY <1>2 DEF Sound, Sited, Devices
<1> HIDE DEF f, p, q, n, h
<1>4. /\ FlashOk(h, q) /\ Shed(Ids(f, p), Ids(h, q))
      /\ p.start # n => Ids(h, q) = Ids(f, p)
      /\ \A o \in Offsets : p.block <= o /\ o < p.offset => f[o][1] \in Ids(h, q)
  <2>1. n = NextBlock(p.block) /\ q.offset = n
    BY <1>2 DEF n
  <2> QED BY <1>1, <1>2, <1>3, <2>1, EnterFlash DEF h
<1>5. OnFlash(g) = Ids(h, q) /\ OnFlash(d) = Ids(f, p)
  BY <1>2 DEF OnFlash, q, f, p
<1>6. Ids(h, q) \subseteq Ids(f, p)
  BY <1>4 DEF Shed
<1>7. Content(g.flash, g.ram, g.buf, k)
  <2>1. Content(f, p, d.buf, k)
    BY DEF Orderly, f, p
  <2>2. Content(h, q, d.buf, k)
    BY <1>4, <1>6, <2>1 DEF Content, Before, Below
  <2> QED BY <1>2, <2>2 DEF q
<1>8. Current(d) \subseteq OnFlash(g)
  BY <1>4, <1>5 DEF Current, f, p
<1>9. OneOn(d, g, OnFlash(g))
  BY <1>2, <1>4, <1>5 DEF OneOn, p, q
<1>10. p.start = n => q.block = p.start /\ q.start = NextBlock(q.block)
  BY <1>2
<1> QED BY <1>2, <1>4, <1>5, <1>7, <1>8, <1>9, <1>10 DEF Orderly, g, p, q, n

(* Writing out a buffer that fits in the block.                            *)
LEMMA WriteOutOrderly ==
    ASSUME NEW K \in SUBSET Keys, NEW d, NEW k, Orderly(d, K, k),
           Len(d.buf) <= d.ram.left, NEW works \in BOOLEAN
    PROVE  LET w == WriteOut(d, works)
               r == w.dev
           IN  /\ Orderly(r, K, k) /\ r.enabled = d.enabled /\ r.buf = <<>>
               /\ w.err <=> ~works
               /\ r.ram.start = d.ram.start /\ r.ram.block = d.ram.block
               /\ r.ram.left = IF works THEN d.ram.left - Len(d.buf)
                               ELSE d.ram.left
               /\ OnFlash(r) = OnFlash(d) \cup (IF works THEN InRam(d) ELSE {})
               /\ works =>
                    \A i \in 1 .. Len(d.buf) :
                       LET o == r.ram.offset - Len(d.buf) + i - 1
                       IN  /\ o \in Offsets /\ r.flash[o] = d.buf[i]
                           /\ r.ram.block <= o /\ o < r.ram.offset
<1> DEFINE w == WriteOut(d, works)
           r == w.dev
           f == d.flash
           p == d.ram
           q == r.ram
           u == d.buf
           h == Programmed(f, p.offset, u)
           n == Len(u)
<1>1. /\ f \in Chip /\ Sited(p) /\ FlashOk(f, p) /\ Sound(d, K)
      /\ u \in Seq(Cells) /\ p.offset \in Nat /\ n \in Nat
      /\ Content(f, p, u, k)
  BY OrderlyFacts DEF Orderly
<1>2. Sound(r, K) /\ r.buf = <<>> /\ r.enabled = d.enabled
  BY <1>1, WriteOutLemma
<1>3. /\ w.err <=> ~works
      /\ works => /\ q.offset = p.offset + n /\ q.block = p.block
                  /\ q.start = p.start /\ q.left = p.left - n /\ r.flash = h
      /\ ~works => q = p /\ r.flash = f
  BY <1>1, WriteOutClean
<1> HIDE DEF w, r
<1>4. Sited(q)
  BY <1>2 DEF Sound, Sited, Devices
<1>5. OnFlash(d) = Ids(f, p) /\ OnFlash(r) = Ids(r.flash, q) /\ InRam(d) = BufIds(u)
  BY DEF OnFlash, InRam
<1>6. n <= p.left
  OBVIOUS
<1> HIDE DEF f, p, q, u, h
<1>7. CASE works
  <2>1. /\ Content(h, q, <<>>, k) /\ Ids(h, q) = Ids(f, p) \cup BufIds(u)
        /\ \A i \in 1 .. n : p.offset + i - 1 \in Offsets
                             /\ h[p.offset + i - 1] = u[i]
    <3>1. /\ q.offset = p.offset + Len(u) /\ q.block = p.block
          /\ q.start = p.start /\ Len(u) <= p.left
      BY <1>3, <1>6, <1>7
    <3>2. f \in Chip /\ Sited(p) /\ u \in Seq(Cells) /\ Content(f, p, u, k)
      BY <1>1
    <3> QED BY <1>4, <3>1, <3>2, WriteFlash DEF h
  <2>2. p.block \in Nat /\ p.block <= p.offset
    BY <1>1, SitedFacts
  <2>3. ASSUME NEW i \in 1 .. n
        PROVE  LET o == q.offset - n + i - 1
               IN  /\ o \in Offsets /\ h[o] = u[i]
                   /\ q.block <= o /\ o < q.offset
    <3> DEFINE s == p.offset
    <3>1. s \in Nat /\ q.offset = s + n /\ p.block <= s
      BY <1>1, <1>3, <1>7, <2>2
    <3> HIDE DEF s, n
    <3>2. q.offset - n + i - 1 = s + i - 1
      BY <1>1, <3>1
    <3>3. p.block <= s + i - 1 /\ s + i - 1 < q.offset
      BY <1>1, <2>2, <3>1
    <3>4. s + i - 1 \in Offsets /\ h[s + i - 1] = u[i]
      BY <2>1 DEF s
    <3> QED BY <1>3, <1>7, <3>2, <3>3, <3>4
  <2>4. Orderly(r, K, k)
    BY <1>2, <1>3, <1>7, <2>1 DEF Orderly, q
  <2> QED BY <1>2, <1>3, <1>5, <1>7, <2>1, <2>3, <2>4 DEF n, w, r, f, p, q, u
<1>8. CASE ~works
  <2>1. Orderly(r, K, k)
    <3>1. \A S : Before(S, {}) /\ Below({}, k)
      BY DEF Before, Below
    <3>2. BufOk(<<>>) /\ BufIds(<<>>) = {}
      BY DEF BufOk, BufIds
    <3>3. Content(f, p, <<>>, k)
      BY <1>1, <3>1, <3>2 DEF Content
    <3> QED BY <1>2, <1>3, <1>8, <3>3 DEF Orderly, q
  <2> QED BY <1>2, <1>3, <1>5, <1>8, <2>1 DEF w, r, p, q
<1> QED BY <1>7, <1>8

(* What is given up in two steps is given up.                              *)
LEMMA ShedTwice ==
    ASSUME NEW S, NEW T, NEW U, Shed(S, T), Shed(T, U)
    PROVE  Shed(S, U)
  BY DEF Shed

(* Writing the buffer out gives up at most the oldest messages, and then   *)
(* the log is what was kept and, unless the write is refused, the buffer.  *)
LEMMA WriteBufferOrderly ==
    ASSUME NEW K \in SUBSET Keys, NEW d, NEW k, Orderly(d, K, k), d.enabled,
           NEW site, NEW F, "erase" \notin F
    PROVE  LET w == WriteBufferToFlash(d, site, F)
               r == w.dev
           IN  /\ Orderly(r, K, k) /\ r.enabled /\ r.buf = <<>>
               /\ w.err <=> site \in F
               /\ \E M : /\ Shed(OnFlash(d), M) /\ OneOn(d, r, M)
                         /\ OnFlash(r) = M \cup (IF w.err THEN {} ELSE InRam(d))
               /\ ~w.err =>
                    \A i \in 1 .. Len(d.buf) :
                       LET o == r.ram.offset - Len(d.buf) + i - 1
                       IN  /\ o \in Offsets /\ r.flash[o] = d.buf[i]
                           /\ r.ram.block <= o /\ o < r.ram.offset
               /\ Len(d.buf) <= d.ram.left =>
                     /\ r.ram.left = IF w.err THEN d.ram.left
                                     ELSE d.ram.left - Len(d.buf)
                     /\ r.ram.start = d.ram.start /\ r.ram.block = d.ram.block
                     /\ OnFlash(d) \subseteq OnFlash(r)
<1> DEFINE e == IF Len(d.buf) > d.ram.left THEN GoToNextBlock(d, F) ELSE d
           works == site \notin F
           w == WriteOut(e, works)
           r == w.dev
           n == Len(d.buf)
<1>0. /\ n \in Nat /\ n <= PageSize /\ d.ram.left \in Nat
      /\ PageSize <= BlockSize /\ BlockSize \in Nat /\ PageSize \in Nat
  BY OrderlyFacts, GeometryAssumption
<1>1. WriteBufferToFlash(d, site, F) = w
  BY DEF WriteBufferToFlash
<1>2. /\ Orderly(e, K, k) /\ e.enabled /\ e.buf = d.buf /\ n <= e.ram.left
      /\ Shed(OnFlash(d), OnFlash(e)) /\ OneOn(d, e, OnFlash(e))
      /\ n <= d.ram.left => e = d
  <2>1. CASE n > d.ram.left
    <3>1. e = GoToNextBlock(d, F)
      BY <2>1
    <3> HIDE DEF e
    <3>2. /\ Orderly(e, K, k) /\ e.enabled /\ e.buf = d.buf
          /\ e.ram.left = BlockSize
          /\ Shed(OnFlash(d), OnFlash(e)) /\ OneOn(d, e, OnFlash(e))
      BY <3>1, GoToOrderly
    <3> HIDE DEF n
    <3> QED BY <1>0, <2>1, <3>2
  <2>2. CASE ~(n > d.ram.left)
    <3>1. e = d
      BY <2>2
    <3> HIDE DEF e
    <3>2. Shed(OnFlash(d), OnFlash(d)) /\ OneOn(d, d, OnFlash(d))
      BY DEF Shed, OneOn
    <3> HIDE DEF n
    <3> QED BY <1>0, <2>2, <3>1, <3>2
  <2> QED BY <2>1, <2>2
<1>3. works \in BOOLEAN /\ (works <=> site \notin F)
  OBVIOUS
<1> HIDE DEF e, works
<1>4. /\ Orderly(r, K, k) /\ r.enabled = e.enabled /\ r.buf = <<>>
      /\ w.err <=> ~works
      /\ r.ram.start = e.ram.start /\ r.ram.block = e.ram.block
      /\ r.ram.left = IF works THEN e.ram.left - Len(e.buf) ELSE e.ram.left
      /\ OnFlash(r) = OnFlash(e) \cup (IF works THEN InRam(e) ELSE {})
      /\ works =>
           \A i \in 1 .. Len(e.buf) :
              LET o == r.ram.offset - Len(e.buf) + i - 1
              IN  /\ o \in Offsets /\ r.flash[o] = e.buf[i]
                  /\ r.ram.block <= o /\ o < r.ram.offset
  BY <1>2, <1>3, WriteOutOrderly
<1> HIDE DEF w, r
<1>5. InRam(e) = InRam(d)
  BY <1>2 DEF InRam
<1>6. OneOn(d, r, OnFlash(e))
  BY <1>2, <1>4 DEF OneOn
<1>7. OnFlash(r) = OnFlash(e) \cup (IF w.err THEN {} ELSE InRam(d))
  BY <1>4, <1>5
<1>8. \E M : /\ Shed(OnFlash(d), M) /\ OneOn(d, r, M)
             /\ OnFlash(r) = M \cup (IF w.err THEN {} ELSE InRam(d))
  BY <1>2, <1>6, <1>7
<1>9. ASSUME n <= d.ram.left
      PROVE  /\ r.ram.left = IF w.err THEN d.ram.left ELSE d.ram.left - n
             /\ r.ram.start = d.ram.start /\ r.ram.block = d.ram.block
             /\ OnFlash(d) \subseteq OnFlash(r)
  BY <1>2, <1>4, <1>9
<1>10. r.enabled /\ (w.err <=> site \in F)
  BY <1>2, <1>3, <1>4
<1>11. ~w.err =>
         \A i \in 1 .. Len(d.buf) :
            LET o == r.ram.offset - Len(d.buf) + i - 1
            IN  /\ o \in Offsets /\ r.flash[o] = d.buf[i]
                /\ r.ram.block <= o /\ o < r.ram.offset
  BY <1>2, <1>4
<1> QED BY <1>1, <1>4, <1>8, <1>9, <1>10, <1>11 DEF w, r, n

(* At most two blocks were entered on the way from d to r.                 *)
TwoOn(d, r) ==
    \/ r.ram.start = d.ram.start /\ OnFlash(d) \subseteq OnFlash(r)
    \/ /\ r.ram.block \in {d.ram.start, NextBlock(d.ram.start)}
       /\ r.ram.start = NextBlock(r.ram.block)

(* Making room: nothing is done, or the buffer is written and, where the   *)
(* message may not fit in the rest of the block, given up.                 *)
LEMMA MakeRoomOrderly ==
    ASSUME NEW K \in SUBSET Keys, NEW d, NEW k, Orderly(d, K, k), d.enabled,
           NEW n \in Nat, n <= PageSize, NEW F, "erase" \notin F
    PROVE  LET r == MakeRoom(d, n, F)
           IN  /\ Orderly(r, K, k) /\ r.enabled
               /\ "write1" \notin F => TwoOn(d, r) /\ n <= r.ram.left
               /\ \/ r = d /\ Len(d.buf) + n <= d.ram.left
                     /\ Len(d.buf) + n <= PageSize
                  \/ /\ r.buf = <<>>
                     /\ \E M : /\ Shed(OnFlash(d), M)
                               /\ \/ OnFlash(r) = M /\ "write1" \in F
                                  \/ /\ OnFlash(r) = M \cup InRam(d)
                                     /\ n <= r.ram.left
<1> DEFINE w  == WriteBufferToFlash(d, "write1", F)
           wd == w.dev
           g  == GoToNextBlock(wd, F)
           r  == MakeRoom(d, n, F)
           m  == Len(d.buf)
<1>0. /\ m \in Nat /\ m <= PageSize /\ d.ram.left \in Nat
      /\ PageSize <= BlockSize /\ BlockSize \in Nat /\ PageSize \in Nat
  BY OrderlyFacts, GeometryAssumption
<1>1. r = IF m + n > d.ram.left THEN IF w.err THEN wd ELSE g
          ELSE IF m + n > PageSize THEN wd ELSE d
  BY DEF MakeRoom, LeaveBlock
<1>2. /\ Orderly(wd, K, k) /\ wd.enabled /\ wd.buf = <<>>
      /\ w.err <=> "write1" \in F
      /\ ~w.err =>
           \A i \in 1 .. Len(d.buf) :
              LET o == wd.ram.offset - Len(d.buf) + i - 1
              IN  /\ o \in Offsets /\ wd.flash[o] = d.buf[i]
                  /\ wd.ram.block <= o /\ o < wd.ram.offset
      /\ m <= d.ram.left =>
            /\ wd.ram.left = IF w.err THEN d.ram.left ELSE d.ram.left - m
            /\ wd.ram.start = d.ram.start /\ wd.ram.block = d.ram.block
            /\ OnFlash(d) \subseteq OnFlash(wd)
  BY WriteBufferOrderly
<1>3. PICK M1 :
         /\ Shed(OnFlash(d), M1) /\ OneOn(d, wd, M1)
         /\ OnFlash(wd) = M1 \cup (IF w.err THEN {} ELSE InRam(d))
  BY WriteBufferOrderly
<1> HIDE DEF w, wd
<1>4. /\ Orderly(g, K, k) /\ g.enabled /\ g.buf = wd.buf
      /\ g.ram.left = BlockSize /\ Shed(OnFlash(wd), OnFlash(g))
      /\ Current(wd) \subseteq OnFlash(g) /\ OneOn(wd, g, OnFlash(g))
      /\ wd.ram.start = NextBlock(wd.ram.block)
            => g.ram.block = wd.ram.start /\ g.ram.start = NextBlock(g.ram.block)
  <2>1. Orderly(wd, K, k) /\ wd.enabled
    BY <1>2
  <2> QED BY <2>1, GoToOrderly
<1>5. ~w.err => InRam(d) \subseteq Current(wd)
  <2> SUFFICES ASSUME ~w.err, NEW i \in 1 .. Len(d.buf)
               PROVE  d.buf[i][1] \in Current(wd)
    BY DEF InRam, BufIds
  <2> DEFINE o == wd.ram.offset - Len(d.buf) + i - 1
  <2>1. /\ o \in Offsets /\ wd.flash[o] = d.buf[i]
        /\ wd.ram.block <= o /\ o < wd.ram.offset
    BY <1>2
  <2> HIDE DEF o
  <2> QED BY <2>1 DEF Current
<1> HIDE DEF g, r, m
<1>6. CASE m + n > d.ram.left /\ ~w.err
  <2>1. r = g
    BY <1>1, <1>6
  <2> DEFINE M == M1 \cap OnFlash(g)
  <2>2. InRam(d) \subseteq OnFlash(g)
    BY <1>4, <1>5, <1>6
  <2>3. OnFlash(wd) = M1 \cup InRam(d)
    BY <1>3, <1>6
  <2>4. OnFlash(g) = M \cup InRam(d)
    BY <1>4, <2>2, <2>3 DEF Shed
  <2>5. Shed(M1, M)
    BY <1>4, <2>3 DEF Shed
  <2>6. Shed(OnFlash(d), M)
    BY <1>3, <2>5, ShedTwice
  <2>7. n <= g.ram.left
    BY <1>0, <1>4
  <2>8. TwoOn(d, g)
    <3>1. CASE wd.ram.start = d.ram.start /\ OnFlash(d) = M1
      <4>1. OnFlash(d) \subseteq OnFlash(wd)
        BY <2>3, <3>1
      <4> QED BY <1>4, <3>1, <4>1 DEF OneOn, TwoOn
    <3>2. CASE wd.ram.block = d.ram.start
               /\ wd.ram.start = NextBlock(wd.ram.block)
      BY <1>4, <3>2 DEF TwoOn
    <3> QED BY <1>3, <3>1, <3>2 DEF OneOn
  <2> QED BY <1>2, <1>4, <2>1, <2>4, <2>6, <2>7, <2>8 DEF r
<1>7. CASE m + n > d.ram.left /\ w.err
  <2>1. r = wd
    BY <1>1, <1>7
  <2>2. OnFlash(wd) = M1 /\ "write1" \in F
    BY <1>2, <1>3, <1>7
  <2> QED BY <1>2, <1>3, <2>1, <2>2 DEF r
<1>8. CASE ~(m + n > d.ram.left) /\ m + n > PageSize
  <2>1. r = wd
    BY <1>1, <1>8
  <2>2. m <= d.ram.left
    BY <1>0, <1>8
  <2>3. n <= wd.ram.left
    <3> DEFINE l == wd.ram.left
               z == d.ram.left
    <3>1. l = IF w.err THEN z ELSE z - m
      BY <1>2, <2>2
    <3>2. z \in Nat /\ m + n <= z
      BY <1>0, <1>8
    <3> HIDE DEF l, z
    <3>3. n <= l
      BY <1>0, <3>1, <3>2
    <3> QED BY <3>3 DEF l
  <2>4. TwoOn(d, wd)
    BY <1>2, <2>2 DEF TwoOn
  <2>5. (OnFlash(wd) = M1 /\ "write1" \in F) \/ OnFlash(wd) = M1 \cup InRam(d)
    BY <1>2, <1>3
  <2> QED BY <1>2, <1>3, <2>1, <2>3, <2>4, <2>5 DEF r
<1>9. CASE ~(m + n > d.ram.left) /\ ~(m + n > PageSize)
  <2>1. r = d
    BY <1>1, <1>9
  <2>2. m + n <= d.ram.left /\ m + n <= PageSize /\ n <= d.ram.left
    BY <1>0, <1>9
  <2>3. TwoOn(d, d)
    BY DEF TwoOn
  <2> QED BY <2>1, <2>2, <2>3 DEF r, m
<1> QED BY <1>6, <1>7, <1>8, <1>9

(* Replacing the buffer.                                                   *)
WithBuf(d, u, j) == [d EXCEPT !.buf = u, !.nbuf = j]

(* Another content of the buffer that is in order.                         *)
LEMMA BufferOrderly ==
    ASSUME NEW K \in SUBSET Keys, NEW d, NEW k, Orderly(d, K, k),
           NEW u \in Seq(Cells), Len(u) <= PageSize, NEW j \in Nat,
           NEW i, Content(d.flash, d.ram, u, i)
    PROVE  LET x == WithBuf(d, u, j)
           IN  /\ Orderly(x, K, i) /\ x.enabled = d.enabled /\ x.ram = d.ram
               /\ x.buf = u /\ OnFlash(x) = OnFlash(d) /\ InRam(x) = BufIds(u)
<1> DEFINE x == WithBuf(d, u, j)
<1>1. d \in Devices /\ Sound(d, K)
  BY OrderlyFacts DEF Orderly
<1>2. Sound(x, K)
  BY <1>1, BufferLemma DEF WithBuf
<1>3. /\ x.buf = u /\ x.ram = d.ram /\ x.flash = d.flash
      /\ x.enabled = d.enabled
  BY <1>1 DEF Devices, WithBuf
<1> HIDE DEF x
<1> QED BY <1>2, <1>3 DEF Orderly, OnFlash, InRam, x

(* Storing a message of at most a page: it joins the log or waits, and     *)
(* what waited reaches the log or is lost by a refused write.              *)
StoreLeaves(d, r, k, F) ==
    \E M : /\ Shed(OnFlash(d), M) /\ M \subseteq OnFlash(r)
          /\ \E new \in {{}, {k}}, old \in {{}, InRam(d)} :
                /\ OnFlash(r) \cup InRam(r) = M \cup old \cup new
                /\ "write1" \notin F /\ "write2" \notin F
                      => old = InRam(d) /\ new = {k}

(* Storing a message, as StoreLeaves says; no block but the one or the two *)
(* that are entered is given up.                                           *)
LEMMA StoreOrderly ==
    ASSUME NEW K \in SUBSET Keys, NEW d, NEW k \in 1 .. MaxMsgs + 1,
           Orderly(d, K, k), d.enabled, Len(d.buf) < PageSize,
           NEW n \in Nat \ {0}, n <= PageSize, NEW F, "erase" \notin F
    PROVE  LET m == StoreMessage(d, k, n, F)
               r == m.dev
           IN  /\ Orderly(r, K, k + 1) /\ r.enabled
               /\ StoreLeaves(d, r, k, F)
               /\ "write1" \notin F /\ "write2" \notin F => TwoOn(d, r)
<1> DEFINE r   == MakeRoom(d, n, F)
           c   == MsgCells(k, n)
           all == r.buf \o c
           hd  == SubSeq(all, 1, PageSize)
           tl  == SubSeq(all, PageSize + 1, Len(all))
           nb  == r.nbuf
           p   == [r EXCEPT !.buf = hd]
           w   == WriteBufferToFlash(p, "write2", F)
           wd  == w.dev
           x   == [r EXCEPT !.buf = all, !.nbuf = nb + 1]
           y   == [wd EXCEPT !.buf = tl, !.nbuf = wd.nbuf + 1]
           mm  == StoreMessage(d, k, n, F)
<1>0. /\ PageSize \in Nat /\ PageSize >= 2 /\ PageSize <= BlockSize
      /\ BlockSize \in Nat /\ n \in Nat /\ n <= BlockSize
  BY GeometryAssumption
<1>1. /\ Orderly(r, K, k) /\ r.enabled
      /\ "write1" \notin F => TwoOn(d, r) /\ n <= r.ram.left
      /\ \/ r = d /\ Len(d.buf) + n <= d.ram.left /\ Len(d.buf) + n <= PageSize
         \/ /\ r.buf = <<>>
            /\ \E M : /\ Shed(OnFlash(d), M)
                      /\ \/ OnFlash(r) = M /\ "write1" \in F
                         \/ OnFlash(r) = M \cup InRam(d) /\ n <= r.ram.left
  BY <1>0, MakeRoomOrderly
<1>2. /\ r \in Devices /\ r.buf \in Seq(Cells) /\ nb \in Nat
      /\ r.flash \in Chip /\ Len(r.buf) \in Nat
  BY <1>1, OrderlyFacts
<1>3. c \in Seq(Cells) /\ Len(c) = n
  <2>1. k \in 0 .. MaxMsgs + 1
    BY BoundsAssumption
  <2> QED BY <1>0, <2>1, MsgCellsType
<1>4. mm = IF Len(all) < PageSize THEN [dev |-> x, err |-> FALSE]
           ELSE IF w.err THEN w ELSE [dev |-> y, err |-> FALSE]
  BY DEF StoreMessage, AddMessage, AddCells, KeepRest, Buffered
<1> HIDE DEF r, mm
<1>5. all \in Seq(Cells) /\ Len(all) = Len(r.buf) + n
  <2> HIDE DEF c
  <2> QED BY <1>2, <1>3
<1>6. Content(r.flash, r.ram, all, k + 1) /\ BufIds(all) = InRam(r) \cup {k}
  <2> DEFINE u == r.buf
             rf == r.flash
             rp == r.ram
  <2>1. Content(rf, rp, u, k) /\ u \in Seq(Cells) /\ rf \in Chip
    BY <1>1, <1>2 DEF Orderly
  <2> HIDE DEF u, rf, rp
  <2>2. LET v == u \o MsgCells(k, n)
        IN  Content(rf, rp, v, k + 1) /\ BufIds(v) = BufIds(u) \cup {k}
    <3>1. n <= BlockSize /\ Content(rf, rp, u, k) /\ u \in Seq(Cells)
          /\ rf \in Chip
      BY <1>0, <2>1
    <3>2. Content(rf, rp, u \o MsgCells(k, n), k + 1)
      BY <3>1, AppendMessage
    <3>3. BufIds(u \o MsgCells(k, n)) = BufIds(u) \cup {k}
      BY <3>1, <3>2, AppendMessage
    <3> QED BY <3>2, <3>3
  <2> QED BY <2>2 DEF u, rf, rp, InRam
<1> HIDE DEF c, all
<1>7. Len(all) <= PageSize /\ Len(all) \in Nat
  <2>1. CASE r = d /\ Len(d.buf) + n <= PageSize
    BY <1>2, <1>5, <2>1, <1>0
  <2>2. CASE r.buf = <<>>
    BY <1>0, <1>5, <2>2
  <2> QED BY <1>1, <2>1, <2>2
<1>8. CASE Len(all) < PageSize
  <2>1. mm.dev = x
    BY <1>4, <1>8
  <2>2. /\ Orderly(x, K, k + 1) /\ x.enabled = r.enabled /\ x.ram = r.ram
        /\ OnFlash(x) = OnFlash(r) /\ InRam(x) = InRam(r) \cup {k}
    <3> DEFINE j == nb + 1
               i == k + 1
    <3>1. j \in Nat /\ Content(r.flash, r.ram, all, i)
      BY <1>2, <1>6
    <3>0. x = WithBuf(r, all, j)
      BY DEF WithBuf
    <3> HIDE DEF j, i, x
    <3>2. /\ Orderly(x, K, i) /\ x.enabled = r.enabled /\ x.ram = r.ram
          /\ OnFlash(x) = OnFlash(r) /\ InRam(x) = BufIds(all)
      <4>1. /\ Orderly(r, K, k) /\ all \in Seq(Cells)
            /\ Len(all) <= PageSize /\ x = WithBuf(r, all, j)
        BY <1>1, <1>5, <1>7, <3>0
      <4> QED BY <3>1, <4>1, BufferOrderly
    <3> QED BY <1>6, <3>2 DEF i, j
  <2> HIDE DEF x
  <2>3. TwoOn(d, r) => TwoOn(d, x)
    BY <2>2 DEF TwoOn
  <2>4. \E M : /\ Shed(OnFlash(d), M) /\ M \subseteq OnFlash(x)
               /\ \E new \in {{}, {k}}, old \in {{}, InRam(d)} :
                     /\ OnFlash(x) \cup InRam(x) = M \cup old \cup new
                     /\ "write1" \notin F => old = InRam(d) /\ new = {k}
    <3>1. CASE r = d
      <4>1. Shed(OnFlash(d), OnFlash(d))
        BY DEF Shed
      <4> QED BY <2>2, <3>1, <4>1
    <3>2. CASE r.buf = <<>> /\ r # d
      <4>1. InRam(r) = {}
        BY <3>2 DEF InRam, BufIds
      <4>2. PICK M : /\ Shed(OnFlash(d), M)
                     /\ \/ OnFlash(r) = M /\ "write1" \in F
                        \/ OnFlash(r) = M \cup InRam(d)
        BY <1>1, <3>2
      <4>3. CASE OnFlash(r) = M /\ "write1" \in F
        <5>1. OnFlash(x) \cup InRam(x) = M \cup {} \cup {k} /\ M \subseteq OnFlash(x)
          BY <2>2, <4>1, <4>3
        <5> QED BY <4>2, <4>3, <5>1
      <4>4. CASE OnFlash(r) = M \cup InRam(d)
        <5>1. /\ OnFlash(x) \cup InRam(x) = M \cup InRam(d) \cup {k}
              /\ M \subseteq OnFlash(x)
          BY <2>2, <4>1, <4>4
        <5> QED BY <4>2, <5>1
      <4> QED BY <4>2, <4>3, <4>4
    <3> QED BY <1>1, <3>1, <3>2
  <2> QED BY <1>1, <2>1, <2>2, <2>3, <2>4 DEF mm, StoreLeaves
<1>9. CASE ~(Len(all) < PageSize)
  <2>1. Len(all) = PageSize /\ hd = all /\ tl = <<>>
    <3>1. Len(all) = PageSize
      BY <1>0, <1>7, <1>9
    <3> QED BY <1>0, <1>5, <3>1
  <2>2. /\ Orderly(p, K, k + 1) /\ p.enabled /\ p.ram = r.ram /\ p.buf = all
        /\ OnFlash(p) = OnFlash(r) /\ InRam(p) = InRam(r) \cup {k}
    <3> DEFINE i == k + 1
    <3>1. p = WithBuf(r, all, nb)
      BY <1>2, <2>1 DEF Devices, WithBuf
    <3>2. Content(r.flash, r.ram, all, i)
      BY <1>6
    <3> HIDE DEF i, p, nb
    <3>3. /\ Orderly(p, K, i) /\ p.enabled = r.enabled /\ p.ram = r.ram
          /\ p.buf = all
          /\ OnFlash(p) = OnFlash(r) /\ InRam(p) = BufIds(all)
      <4>1. /\ Orderly(r, K, k) /\ all \in Seq(Cells) /\ nb \in Nat
            /\ Len(all) <= PageSize /\ p = WithBuf(r, all, nb)
        BY <1>1, <1>2, <1>5, <1>7, <3>1
      <4> QED BY <3>2, <4>1, BufferOrderly
    <3> QED BY <1>1, <1>6, <3>3 DEF i
  <2> HIDE DEF p
  <2>3. /\ Orderly(wd, K, k + 1) /\ wd.enabled /\ wd.buf = <<>>
        /\ w.err <=> "write2" \in F
        /\ Len(p.buf) <= p.ram.left =>
              /\ wd.ram.start = p.ram.start /\ wd.ram.block = p.ram.block
              /\ OnFlash(p) \subseteq OnFlash(wd)
    <3> DEFINE i == k + 1
    <3>1. Orderly(p, K, i) /\ p.enabled
      BY <2>2
    <3> HIDE DEF i
    <3>2. Orderly(wd, K, i) /\ wd.enabled /\ wd.buf = <<>>
      BY <3>1, WriteBufferOrderly
    <3>3. w.err <=> "write2" \in F
      BY <3>1, WriteBufferOrderly
    <3>4. Len(p.buf) <= p.ram.left =>
             /\ wd.ram.start = p.ram.start /\ wd.ram.block = p.ram.block
             /\ OnFlash(p) \subseteq OnFlash(wd)
      BY <3>1, WriteBufferOrderly
    <3> QED BY <3>2, <3>3, <3>4 DEF i
  <2>4. PICK M2 : /\ Shed(OnFlash(p), M2)
                  /\ OnFlash(wd) = M2 \cup (IF w.err THEN {} ELSE InRam(p))
    <3> DEFINE i == k + 1
    <3>1. Orderly(p, K, i) /\ p.enabled
      BY <2>2
    <3> HIDE DEF i
    <3> QED BY <3>1, WriteBufferOrderly
  <2> HIDE DEF w, wd
  <2>5. /\ Orderly(mm.dev, K, k + 1) /\ mm.dev.enabled
        /\ mm.dev.ram = wd.ram
        /\ OnFlash(mm.dev) = OnFlash(wd) /\ InRam(mm.dev) = {}
    <3>0. BufIds(<<>>) = {}
      BY DEF BufIds
    <3>1. CASE w.err
      <4>1. mm.dev = wd
        BY <1>4, <1>9, <3>1 DEF wd
      <4> QED BY <2>3, <3>0, <4>1 DEF InRam
    <3>2. CASE ~w.err
      <4> DEFINE j == wd.nbuf + 1
                 i == k + 1
                 z == mm.dev
                 e == <<>>
      <4>1. z = WithBuf(wd, e, j)
        BY <1>4, <1>9, <2>1, <3>2 DEF WithBuf
      <4>2. Orderly(wd, K, i)
        BY <2>3
      <4> HIDE DEF j, i, z
      <4>3. wd.nbuf \in Nat
        BY <4>2, OrderlyFacts
      <4>4. j \in Nat
        BY <4>3 DEF j
      <4>5. Content(wd.flash, wd.ram, e, i)
        BY <2>3, <4>2 DEF Orderly
      <4>6. e \in Seq(Cells) /\ Len(e) <= PageSize
        BY <1>0
      <4> HIDE DEF e
      <4>7. /\ Orderly(z, K, i) /\ z.enabled = wd.enabled /\ z.ram = wd.ram
            /\ OnFlash(z) = OnFlash(wd) /\ InRam(z) = BufIds(e)
        BY <4>1, <4>2, <4>4, <4>5, <4>6, BufferOrderly
      <4> QED BY <2>3, <3>0, <4>7 DEF i, z, e
    <3> QED BY <3>1, <3>2
  <2> HIDE DEF mm
  <2> DEFINE v == mm.dev
             add == IF w.err THEN {} ELSE {k}
             Goal(M, old, new) ==
                 /\ Shed(OnFlash(d), M) /\ M \subseteq OnFlash(v)
                 /\ new \in {{}, {k}} /\ old \in {{}, InRam(d)}
                 /\ OnFlash(v) \cup InRam(v) = M \cup old \cup new
                 /\ "write1" \notin F /\ "write2" \notin F
                       => old = InRam(d) /\ new = {k}
  <2>6. add \in {{}, {k}} /\ ("write2" \notin F => add = {k})
    BY <2>3
  <2>7. /\ \E M, old, new : Goal(M, old, new)
        /\ "write1" \notin F => TwoOn(d, v)
    <3>1. CASE r = d /\ Len(d.buf) + n <= d.ram.left
      <4>1. Len(p.buf) <= p.ram.left
        BY <1>5, <2>2, <3>1
      <4>2. Shed(OnFlash(d), M2) /\ OnFlash(d) \subseteq OnFlash(wd)
        BY <2>2, <2>3, <2>4, <3>1, <4>1
      <4>3. TwoOn(d, v)
        BY <2>2, <2>3, <2>5, <3>1, <4>1, <4>2 DEF TwoOn
      <4>4. CASE w.err
        <5>1. OnFlash(v) \cup InRam(v) = M2 \cup {} \cup {}
          BY <2>4, <2>5, <4>4
        <5>2. "write2" \in F
          BY <2>3, <4>4
        <5>3. Goal(M2, {}, {})
          BY <4>2, <5>1, <5>2, <2>5
        <5> QED BY <4>3, <5>3
      <4>5. CASE ~w.err
        <5>1. OnFlash(v) \cup InRam(v) = M2 \cup InRam(d) \cup {k}
          BY <2>2, <2>4, <2>5, <3>1, <4>5
        <5>2. M2 \subseteq OnFlash(v)
          BY <2>4, <2>5
        <5>3. Goal(M2, InRam(d), {k})
          BY <4>2, <5>1, <5>2
        <5> QED BY <4>3, <5>3
      <4> QED BY <4>4, <4>5
    <3>2. CASE r.buf = <<>> /\ ~(r = d /\ Len(d.buf) + n <= d.ram.left)
      <4>1. InRam(r) = {}
        BY <3>2 DEF InRam, BufIds
      <4>2. PICK M : /\ Shed(OnFlash(d), M)
                     /\ \/ OnFlash(r) = M /\ "write1" \in F
                        \/ OnFlash(r) = M \cup InRam(d) /\ n <= r.ram.left
        BY <1>1, <3>2
      <4>3. OnFlash(wd) = M2 \cup add
        BY <2>2, <2>4, <4>1
      <4>4. CASE OnFlash(r) = M /\ "write1" \in F
        <5>1. Shed(OnFlash(d), M2)
          BY <2>2, <2>4, <4>2, <4>4, ShedTwice
        <5>2. OnFlash(v) \cup InRam(v) = M2 \cup {} \cup add
          BY <2>5, <4>3
        <5>3. M2 \subseteq OnFlash(v)
          BY <2>5, <4>3
        <5>4. Goal(M2, {}, add)
          BY <2>6, <4>4, <5>1, <5>2, <5>3
        <5> QED BY <4>4, <5>4
      <4>5. CASE OnFlash(r) = M \cup InRam(d) /\ n <= r.ram.left
        <5>1. Len(p.buf) <= p.ram.left
          BY <1>5, <1>0, <2>2, <3>2, <4>5
        <5>2. OnFlash(r) \subseteq OnFlash(wd)
          BY <2>2, <2>3, <5>1
        <5>3. M2 \subseteq OnFlash(r)
          BY <2>2, <2>4 DEF Shed
        <5>4. OnFlash(wd) = OnFlash(r) \cup add
          BY <4>3, <5>2, <5>3
        <5>5. OnFlash(v) \cup InRam(v) = M \cup InRam(d) \cup add
          BY <2>5, <4>5, <5>4
        <5>6. M \subseteq OnFlash(v)
          BY <2>5, <4>5, <5>2
        <5>7. Goal(M, InRam(d), add)
          BY <2>6, <4>2, <5>5, <5>6
        <5>8. "write1" \notin F => TwoOn(d, v)
          <6>1. v.ram.start = r.ram.start /\ v.ram.block = r.ram.block
            BY <2>2, <2>3, <2>5, <5>1
          <6>2. OnFlash(r) \subseteq OnFlash(v)
            BY <2>5, <5>2
          <6> QED BY <1>1, <6>1, <6>2 DEF TwoOn
        <5> QED BY <5>7, <5>8
      <4> QED BY <4>2, <4>4, <4>5
    <3> QED BY <1>1, <3>1, <3>2
  <2> QED BY <2>5, <2>7 DEF mm, StoreLeaves
<1> QED BY <1>8, <1>9

(* The test record: it is on flash and is read back, or its write was      *)
(* refused.                                                                *)
TestAdds(t, k) == IF t.err THEN {} ELSE {k}
TestLeaves(d, t, k) ==
    \E M : Shed(OnFlash(d), M) /\ OnFlash(t.dev) = M \cup TestAdds(t, k)

(* Storing and reading back the test record, as TestLeaves says.           *)
LEMMA TestOrderly ==
    ASSUME NEW K \in SUBSET Keys, NEW d, NEW k \in 1 .. MaxMsgs + 1,
           Orderly(d, K, k), d.enabled, d.buf = <<>>,
           NEW F, "erase" \notin F
    PROVE  LET t == TestFlash(d, k, F)
               r == t.dev
           IN  /\ Orderly(r, K, k + 1) /\ r.enabled /\ r.buf = <<>>
               /\ TestLeaves(d, t, k)
<1> DEFINE n  == TestSize
           c  == MsgCells(k, n)
           mr == MakeRoom(d, n, F)
           s  == StoreMessage(d, k, n, F)
           sd == s.dev
           w  == WriteBufferToFlash(sd, "flush", F)
           wd == w.dev
           t  == TestFlash(d, k, F)
           j  == k + 1
<1>0. /\ PageSize \in Nat /\ PageSize >= 2 /\ PageSize <= BlockSize
      /\ BlockSize \in Nat /\ n \in Nat \ {0} /\ n < PageSize /\ n <= PageSize
      /\ n <= BlockSize /\ n \in Nat /\ n >= 2
  BY GeometryAssumption
<1>1. Len(d.buf) < PageSize /\ InRam(d) = {}
  BY <1>0 DEF InRam, BufIds
<1>2. c \in Seq(Cells) /\ Len(c) = n /\ \A i \in 1 .. n : c[i] = <<k, i, n>>
  <2>1. k \in 0 .. MaxMsgs + 1
    BY BoundsAssumption
  <2>2. c \in Seq(Cells) /\ Len(c) = n
    BY <1>0, <2>1, MsgCellsType
  <2> QED BY <2>2 DEF MsgCells
<1>3. mr.buf = <<>> /\ mr \in Devices
  <2>1. Orderly(mr, K, k) /\ (mr = d \/ mr.buf = <<>>)
    BY <1>0, MakeRoomOrderly
  <2> HIDE DEF mr
  <2>2. mr \in Devices
    BY <2>1, OrderlyFacts
  <2> QED BY <2>1, <2>2
<1>4. ~s.err /\ sd.buf = c
  <2>1. s = AddCells(mr, mr.buf \o c, F)
    BY DEF StoreMessage, AddMessage
  <2> HIDE DEF mr, s, c
  <2>2. mr.buf \o c = c
    BY <1>2, <1>3
  <2>3. s = [dev |-> Buffered(mr, c), err |-> FALSE]
    BY <1>0, <1>2, <2>1, <2>2 DEF AddCells
  <2> QED BY <1>3, <2>3 DEF Buffered, Devices
<1>5. t = Compared(w, k)
  BY <1>4 DEF TestFlash, FlushAndCompare
<1>6. Orderly(sd, K, j) /\ sd.enabled
  BY <1>0, <1>1, StoreOrderly
<1>7. PICK M : /\ Shed(OnFlash(d), M) /\ M \subseteq OnFlash(sd)
               /\ \E new \in {{}, {k}}, old \in {{}, InRam(d)} :
                     /\ OnFlash(sd) \cup InRam(sd) = M \cup old \cup new
                     /\ "write1" \notin F /\ "write2" \notin F
                           => old = InRam(d) /\ new = {k}
  <2>1. StoreLeaves(d, sd, k, F)
    BY <1>0, <1>1, StoreOrderly
  <2> QED BY <2>1 DEF StoreLeaves
<1> HIDE DEF j, s, sd, c, t
<1>8. InRam(sd) = {k}
  <2>1. BufIds(c) = {c[i][1] : i \in 1 .. n}
    BY <1>2 DEF BufIds
  <2>2. \A i \in 1 .. n : c[i][1] = k
    BY <1>2
  <2>3. 1 \in 1 .. n
    BY <1>0
  <2>4. BufIds(c) = {k}
    BY <2>1, <2>2, <2>3
  <2> QED BY <1>4, <2>4 DEF InRam
<1>9. OnFlash(sd) = M
  <2>1. Before(OnFlash(sd), InRam(sd))
    BY <1>6 DEF Orderly, Content, OnFlash, InRam
  <2>2. k \notin OnFlash(sd)
    BY <1>8, <2>1 DEF Before
  <2>3. PICK new \in {{}, {k}}, old \in {{}, InRam(d)} :
           OnFlash(sd) \cup InRam(sd) = M \cup old \cup new
    BY <1>7
  <2>4. old = {} /\ new \subseteq {k}
    BY <1>1
  <2>5. \A x : x \in OnFlash(sd) => x \in M
    BY <1>8, <2>2, <2>3, <2>4
  <2> QED BY <1>7, <2>5
<1>10. /\ Orderly(wd, K, j) /\ wd.enabled /\ wd.buf = <<>>
       /\ ~w.err =>
            \A i \in 1 .. Len(sd.buf) :
               LET o == wd.ram.offset - Len(sd.buf) + i - 1
               IN  o \in Offsets /\ wd.flash[o] = sd.buf[i]
  BY <1>6, WriteBufferOrderly
<1>11. PICK M2 : /\ Shed(OnFlash(sd), M2)
                 /\ OnFlash(wd) = M2 \cup (IF w.err THEN {} ELSE InRam(sd))
  BY <1>6, WriteBufferOrderly
<1> HIDE DEF w, wd
<1>12. ~w.err => ReadsBack(wd, k)
  <2> SUFFICES ASSUME ~w.err, NEW i \in 1 .. n - 1
               PROVE  LET z == wd.ram.offset - n
                      IN  /\ z + i - 1 \in Offsets
                          /\ wd.flash[z + i - 1] = <<k, i, n>>
    BY DEF ReadsBack
  <2>1. i \in 1 .. n
    BY <1>0
  <2>2. /\ wd.ram.offset - n + i - 1 \in Offsets
        /\ wd.flash[wd.ram.offset - n + i - 1] = c[i]
    BY <1>2, <1>4, <1>10, <2>1
  <2> QED BY <1>2, <2>1, <2>2
<1>13. t.dev = wd /\ (t.err <=> w.err)
  BY <1>5, <1>12 DEF Compared, wd
<1>14. Shed(OnFlash(d), M2)
  BY <1>7, <1>9, <1>11, ShedTwice
<1>15. OnFlash(t.dev) = M2 \cup TestAdds(t, k)
  BY <1>8, <1>11, <1>13 DEF TestAdds
<1>16. TestLeaves(d, t, k)
  BY <1>14, <1>15 DEF TestLeaves
<1> QED BY <1>10, <1>13, <1>16 DEF t, j

-----------------------------------------------------------------------------
(* Booting and clearing                                                    *)

(* What is on a flash depends on three of the positions.                   *)
LEMMA SamePlacesSame ==
    ASSUME NEW f, NEW p, NEW q, SamePlaces(p, q)
    PROVE  Ids(f, p) = Ids(f, q) /\ (FlashOk(f, q) => FlashOk(f, p))
<1>1. p.offset = q.offset /\ p.start = q.start /\ p.block = q.block
  BY DEF SamePlaces
<1>2. Live(p) = Live(q) /\ \A o : Age(p, o) = Age(q, o)
  BY <1>1 DEF Live, Age
<1>3. Used(f, p) = Used(f, q)
  BY <1>2 DEF Used
<1>4. Ids(f, p) = Ids(f, q)
  BY <1>3 DEF Ids
<1>5. Filled(f, q) => Filled(f, p)
  BY <1>1 DEF Filled
<1>6. Blank(f, q) => Blank(f, p)
  BY <1>1 DEF Blank
<1>7. Ordered(f, q) => Ordered(f, p)
  BY <1>2, <1>3 DEF Ordered
<1> QED BY <1>4, <1>5, <1>6, <1>7 DEF FlashOk

(* An erased flash holds nothing.                                          *)
LEMMA ErasedFlash ==
    ASSUME NEW f \in Chip, \A o \in Offsets : f[o] = Erased,
           NEW p, p.offset = 0, p.block \in Nat
    PROVE  FlashOk(f, p) /\ Ids(f, p) = {}
<1>1. Used(f, p) = {}
  BY DEF Used, Live
<1>2. \A b \in Blocks : \A o \in InBlock(b) : f[o] = Erased
  BY DEF InBlock
<1>3. WholeMessages(f) /\ NoGaps(f)
  BY <1>2 DEF WholeMessages, NoGaps
<1>4. Filled(f, p)
  <2>1. \A o \in Offsets : ~(p.block <= o /\ o < p.offset)
    BY BlockArithmetic DEF Offsets
  <2> QED BY <2>1 DEF Filled
<1>5. Blank(f, p)
  BY DEF Blank
<1> QED BY <1>1, <1>3, <1>4, <1>5 DEF FlashOk, Ordered, Ids

(* A first block with nothing written is erased already.                   *)
LEMMA FirstBlockErased ==
    ASSUME NEW f \in Chip,
           \A o \in Offsets : o < BlockSize => f[o] = Erased
    PROVE  BlockErased(f, 0) = f
<1>1. \A o \in Offsets : BlockErased(f, 0)[o] = f[o]
  <2>1. BlockSize \in Nat
    BY GeometryAssumption
  <2>2. ASSUME NEW o \in Offsets PROVE BlockErased(f, 0)[o] = f[o]
    <3>1. o \in Nat
      BY DEF Offsets
    <3>2. CASE o < BlockSize
      BY <2>1, <3>1, <3>2 DEF BlockErased
    <3>3. CASE ~(o < BlockSize)
      BY <2>1, <3>1, <3>3 DEF BlockErased
    <3> QED BY <3>2, <3>3
  <2> QED BY <2>2
<1>2. BlockErased(f, 0) = [o \in Offsets |-> BlockErased(f, 0)[o]]
  BY DEF BlockErased
<1>3. f = [o \in Offsets |-> f[o]]
  BY DEF Chip
<1> QED BY <1>1, <1>2, <1>3

(* What a switched off device holds, with the positions in NVS.            *)
OffContent(d, k) ==
    IF d.nvs = NoNvs THEN \A o \in Offsets : d.flash[o] = Erased
    ELSE Content(d.flash, d.nvs, <<>>, k)
OffIds(d) == IF d.nvs = NoNvs THEN {} ELSE Ids(d.flash, d.nvs)

(* Loading the positions finds what the device held when it was switched   *)
(* off; a partition that was full to its end is entered again.             *)
LEMMA LoadOrderly ==
    ASSUME NEW d \in Devices, d.ram = NoRam, d.buf = <<>>, Loadable(d.nvs),
           NEW k, k \in Nat, OffContent(d, k), NEW F, "erase" \notin F
    PROVE  LET p == LoadPositions(d, F)
           IN  /\ Orderly(p, Keys, k) /\ p.enabled /\ p.buf = <<>>
               /\ Shed(OffIds(d), OnFlash(p))
<1> DEFINE p == LoadPositions(d, F)
           K == Keys \ {"count"}
           f == d.flash
<1>1. Sound(p, Keys) /\ p.buf = <<>>
  BY LoadPositionsLemma
<1>2. PICK c : Loaded(d, c, p, F)
  BY LoadPositionsLemma
<1> HIDE DEF p
<1> DEFINE e == IF c.ram.offset >= Size THEN GoToNextBlock(c, F) ELSE c
<1>3. /\ Sound(c, K) /\ c.buf = <<>> /\ c.enabled
      /\ d.nvs = NoNvs => c.ram.offset = 0 /\ c.ram.start = 0 /\ c.ram.block = 0
      /\ d.nvs # NoNvs => SamePlaces(c.ram, d.nvs)
      /\ c.flash = IF c.ram.offset = 0 THEN BlockErased(f, 0) ELSE f
      /\ p.flash = e.flash /\ SamePlaces(p.ram, e.ram) /\ p.enabled
  BY <1>2 DEF Loaded
<1>4. f \in Chip
  BY DEF Devices
<1> HIDE DEF f, e, K
<1>5. c.ram.offset = 0 => BlockErased(f, 0) = f
  <2> SUFFICES ASSUME c.ram.offset = 0,
                      NEW o \in Offsets, o < BlockSize
               PROVE  f[o] = Erased
    BY <1>4, FirstBlockErased
  <2>1. CASE d.nvs = NoNvs
    BY <2>1 DEF OffContent, f
  <2>2. CASE d.nvs # NoNvs
    <3>1. SamePlaces(c.ram, d.nvs) /\ Blank(f, d.nvs)
      BY <1>3, <2>2 DEF OffContent, Content, FlashOk, f
    <3>2. d.nvs.offset = 0 /\ d.nvs.block = c.ram.block
      BY <3>1 DEF SamePlaces
    <3>3. c.ram.block \in Nat
      BY <1>3, BlockArithmetic DEF Sound, Consistent
    <3>4. 0 <= o /\ BlockSize \in Nat /\ o \in Nat
      BY GeometryAssumption DEF Offsets
    <3>5. o < c.ram.block + BlockSize
      BY <3>3, <3>4
    <3> QED BY <3>1, <3>2, <3>4, <3>5 DEF Blank
  <2> QED BY <2>1, <2>2
<1>6. c.flash = f
  BY <1>3, <1>5
<1>7. Content(f, c.ram, <<>>, k) /\ Ids(f, c.ram) = OffIds(d)
  <2>1. CASE d.nvs = NoNvs
    <3>1. c.ram.offset = 0 /\ c.ram.block \in Nat
      BY <1>3, <2>1
    <3>2. \A o \in Offsets : f[o] = Erased
      BY <2>1 DEF OffContent, f
    <3>3. FlashOk(f, c.ram) /\ Ids(f, c.ram) = {}
      BY <1>4, <3>1, <3>2, ErasedFlash
    <3> QED BY <2>1, <3>3 DEF OffIds, Content, BufOk, BufIds, Below, Before
  <2>2. CASE d.nvs # NoNvs
    <3>1. SamePlaces(c.ram, d.nvs)
      BY <1>3, <2>2
    <3>2. /\ Ids(f, c.ram) = Ids(f, d.nvs)
          /\ FlashOk(f, d.nvs) => FlashOk(f, c.ram)
      BY <3>1, SamePlacesSame
    <3> QED BY <2>2, <3>2 DEF OffContent, OffIds, Content, f
  <2> QED BY <2>1, <2>2
<1>8. Orderly(c, K, k) /\ OnFlash(c) = OffIds(d)
  BY <1>3, <1>6, <1>7 DEF Orderly, OnFlash
<1>9. Orderly(e, K, k) /\ e.buf = <<>> /\ Shed(OffIds(d), OnFlash(e))
  <2>1. K \in SUBSET Keys
    BY DEF K
  <2> DEFINE g == GoToNextBlock(c, F)
  <2>2. Orderly(g, K, k) /\ g.buf = <<>> /\ Shed(OnFlash(c), OnFlash(g))
    BY <1>3, <1>8, <2>1, GoToOrderly
  <2>3. Shed(OnFlash(c), OnFlash(c))
    BY DEF Shed
  <2> HIDE DEF g
  <2>4. CASE c.ram.offset >= Size
    <3>1. e = g
      BY <2>4 DEF e, g
    <3> QED BY <1>8, <2>2, <3>1
  <2>5. CASE ~(c.ram.offset >= Size)
    <3>1. e = c
      BY <2>5 DEF e
    <3> QED BY <1>3, <1>8, <2>3, <3>1
  <2> QED BY <2>4, <2>5
<1>10. Content(e.flash, e.ram, <<>>, k)
  BY <1>9 DEF Orderly
<1>11. /\ Ids(p.flash, p.ram) = Ids(e.flash, e.ram)
       /\ FlashOk(e.flash, e.ram) => FlashOk(p.flash, p.ram)
  BY <1>3, SamePlacesSame
<1>12. Content(p.flash, p.ram, <<>>, k) /\ OnFlash(p) = OnFlash(e)
  BY <1>10, <1>11 DEF Content, OnFlash
<1> QED BY <1>1, <1>3, <1>9, <1>12 DEF Orderly, p

(* A boot keeps what the log held, but for its oldest messages, and adds   *)
(* at most one of its two test records.                                    *)
LEMMA BootOrderly ==
    ASSUME NEW d \in Devices, d.ram = NoRam, d.buf = <<>>, Loadable(d.nvs),
           NEW k \in 1 .. MaxMsgs, OffContent(d, k),
           NEW F, "erase" \notin F, NEW G, "erase" \notin G
    PROVE  LET i == InitFlash(d, k, F, G)
           IN  /\ Orderly(i, Keys, k + 2) /\ i.buf = <<>>
               /\ \E M : /\ Shed(OffIds(d), M)
                         /\ \E new \in {{}, {k}, {k + 1}} :
                               OnFlash(i) = M \cup new
<1> DEFINE p == LoadPositions(d, F)
           t == TestFlash(p, k, F)
           td == t.dev
           g == GoToNextBlock(td, G)
           j == k + 1
           u == TestFlash(g, j, G)
           ud == u.dev
           v == ud.enabled /\ ~u.err
           x == [ud EXCEPT !.enabled = v]
           i == InitFlash(d, k, F, G)
<1>0. /\ Keys \in SUBSET Keys /\ k \in Nat /\ j \in Nat /\ j + 1 = k + 2
      /\ k \in 1 .. MaxMsgs + 1 /\ j \in 1 .. MaxMsgs + 1
  BY BoundsAssumption
<1>1. /\ Orderly(p, Keys, k) /\ p.enabled /\ p.buf = <<>>
      /\ Shed(OffIds(d), OnFlash(p))
  BY <1>0, LoadOrderly
<1> HIDE DEF p
<1>11. /\ Orderly(td, Keys, j) /\ td.enabled /\ td.buf = <<>>
       /\ TestLeaves(p, t, k)
  BY <1>0, <1>1, TestOrderly
<1>2. Orderly(td, Keys, j) /\ td.enabled /\ td.buf = <<>>
  BY <1>11
<1>3. PICK M1 : /\ Shed(OnFlash(p), M1)
                /\ OnFlash(td) = M1 \cup TestAdds(t, k)
  BY <1>11 DEF TestLeaves
<1>4. Shed(OffIds(d), M1)
  BY <1>1, <1>3, ShedTwice
<1>5. i = IF ~t.err THEN td ELSE x
  BY DEF InitFlash, Retry, DisabledOnError, p
<1> HIDE DEF t, td, i
<1>6. CASE ~t.err
  <2>1. td.flash \in Chip /\ td.buf \in Seq(Cells)
    BY <1>2, OrderlyFacts
  <2>2. Content(td.flash, td.ram, td.buf, j) /\ Sound(td, Keys)
    BY <1>2 DEF Orderly
  <2>3. Content(td.flash, td.ram, td.buf, j + 1)
    <3> DEFINE f == td.flash
               q == td.ram
               b == td.buf
    <3>1. f \in Chip /\ b \in Seq(Cells) /\ j \in Nat /\ Content(f, q, b, j)
      BY <1>0, <2>1, <2>2
    <3> HIDE DEF f, q, b, j
    <3>2. Content(f, q, b, j + 1)
      BY <3>1, ForgetBuffer
    <3> QED BY <3>2 DEF f, q, b
  <2>4. Orderly(td, Keys, k + 2)
    BY <1>0, <2>2, <2>3 DEF Orderly
  <2>5. OnFlash(td) = M1 \cup {k}
    BY <1>3, <1>6 DEF TestAdds
  <2>6. i = td
    BY <1>5, <1>6
  <2> QED BY <1>2, <1>4, <2>4, <2>5, <2>6 DEF i
<1>7. CASE t.err
  <2>1. Orderly(g, Keys, j) /\ g.enabled /\ g.buf = td.buf
        /\ Shed(OnFlash(td), OnFlash(g))
    BY <1>0, <1>2, GoToOrderly
  <2> HIDE DEF g, j
  <2>12. g.buf = <<>>
    BY <1>2, <2>1
  <2>13. /\ Orderly(ud, Keys, j + 1) /\ ud.enabled /\ ud.buf = <<>>
         /\ TestLeaves(g, u, j)
    BY <1>0, <2>1, <2>12, TestOrderly
  <2>2. Orderly(ud, Keys, j + 1) /\ ud.enabled /\ ud.buf = <<>>
    BY <2>13
  <2>3. PICK M2 : /\ Shed(OnFlash(g), M2)
                  /\ OnFlash(ud) = M2 \cup TestAdds(u, j)
    BY <2>13 DEF TestLeaves
  <2>4. OnFlash(td) = M1
    BY <1>3, <1>7 DEF TestAdds
  <2>5. Shed(OffIds(d), M2)
    BY <1>4, <2>1, <2>3, <2>4, ShedTwice
  <2>6. v \in BOOLEAN /\ {} \in SUBSET Images
    OBVIOUS
  <2> HIDE DEF u, ud, v
  <2>7. Sound(ud, Keys)
    BY <2>2 DEF Orderly
  <2>8. /\ Sound(x, Keys) /\ x.buf = ud.buf /\ x.flash = ud.flash
        /\ x.ram = ud.ram
    <3>1. Sound(x, Keys)
      BY <2>6, <2>7, OtherFields, Zenon
    <3> QED BY <2>6, <2>7, <3>1, OtherFields
  <2> HIDE DEF x
  <2>9. Orderly(x, Keys, k + 2) /\ OnFlash(x) = OnFlash(ud) /\ x.buf = <<>>
    BY <1>0, <2>2, <2>8 DEF Orderly, OnFlash
  <2>10. i = x
    BY <1>5, <1>7
  <2>11. \E new \in {{}, {k}, {k + 1}} : OnFlash(x) = M2 \cup new
    <3>1. CASE u.err
      BY <2>3, <2>9, <3>1 DEF TestAdds
    <3>2. CASE ~u.err
      BY <2>3, <2>9, <3>2 DEF TestAdds, j
    <3> QED BY <3>1, <3>2
  <2> QED BY <2>5, <2>9, <2>10, <2>11 DEF i
<1> QED BY <1>6, <1>7

(* A cleared log is empty.                                                 *)
LEMMA ClearOrderly ==
    ASSUME NEW d, NEW k \in Nat, Orderly(d, Keys, k), d.enabled,
           Len(d.buf) < PageSize, NEW F, "erase" \notin F
    PROVE  LET c == ClearFlashData(d, F)
           IN  /\ Orderly(c, Keys, k) /\ c.buf = <<>>
               /\ OnFlash(c) = {} /\ InRam(c) = {}
<1> DEFINE c == ClearFlashData(d, F)
           f == d.flash
           g == BlockErased(f, 0)
           q == c.ram
<1>1. Sound(d, Keys) /\ Keys \in SUBSET Keys
  BY DEF Orderly
<1>2. /\ Sound(c, Keys) /\ c.buf = <<>>
      /\ q.offset = 0 /\ q.start = 0 /\ q.block = 0
      /\ c.flash = g
  BY <1>1, ClearLemma
<1>3. f \in Chip /\ WholeMessages(f) /\ NoGaps(f)
  BY OrderlyFacts DEF FlashOk
<1>4. 0 \in Blocks /\ BlockSize \in Nat
  BY BlockArithmetic, GeometryAssumption
<1> HIDE DEF c, f, q, g
<1>5. WholeMessages(g) /\ NoGaps(g)
  BY <1>3, <1>4, ErasedWhole DEF g
<1>6. Used(g, q) = {}
  <2>1. ASSUME NEW o \in Offsets, o < BlockSize PROVE g[o] = Erased
    <3>1. 0 <= o /\ o \in Nat
      BY DEF Offsets
    <3> QED BY <1>4, <2>1, <3>1 DEF g, BlockErased
  <2>2. \A o \in Live(q) : o \in Offsets /\ o < BlockSize
    BY <1>2, <1>4 DEF Live
  <2> QED BY <2>1, <2>2 DEF Used
<1>7. Ids(g, q) = {} /\ Ordered(g, q)
  BY <1>6 DEF Ids, Ordered
<1>8. Filled(g, q)
  <2>1. \A o \in Offsets : ~(o < 0)
    BY DEF Offsets
  <2> QED BY <1>2, <2>1 DEF Filled
<1>9. Blank(g, q)
  BY <1>2, ErasedClean DEF g
<1>10. BufOk(<<>>) /\ BufIds(<<>>) = {}
  BY DEF BufOk, BufIds
<1>11. Content(g, q, <<>>, k)
  BY <1>5, <1>7, <1>8, <1>9, <1>10 DEF Content, FlashOk, Before, Below
<1> QED BY <1>2, <1>7, <1>10, <1>11 DEF Orderly, OnFlash, InRam, c, q

-----------------------------------------------------------------------------
(* The refinement                                                          *)

(* What is on flash follows the order in which it was stored, and whoever  *)
(* walks through the log finds it.                                         *)
RInv ==
    IF power = "on" THEN Content(dev.flash, dev.ram, dev.buf, nextId)
    ELSE OffContent(dev, nextId)

Kept(d, p) == IF p = "on" THEN OnFlash(d) ELSE OffIds(d)

(* A step of the abstract log, from L and P to M and Q.                    *)
Moved(kept, L, k, M, Q) ==
    /\ \A x \in L \ M, y \in L \cap M : x < y
    /\ \A x \in M, y \in Q : x < y
    /\ \E new \in {{}, {k}, {k + 1}} : M \cup Q = (kept \ (L \ M)) \cup new

Stepped(L, P, k, M, Q, j) ==
    /\ j \in {k, k + 1, k + 2}
    /\ \/ Moved(L \cup P, L, k, M, Q)
       \/ Moved(L, L, k, M, Q)
       \/ M = {} /\ Q = {}

(* What a handler leaves is a step of the abstract log: what it shed was   *)
(* the oldest, and what arrives is newer than everything else.             *)
LEMMA HandlerMoves ==
    ASSUME NEW L \in SUBSET Nat, NEW P \in SUBSET Nat, NEW k \in Nat,
           Before(L, P), Below(L, k), NEW M, Shed(L, M),
           NEW old \in {{}, P}, NEW new \in {{}, {k}, {k + 1}},
           NEW L2, NEW P2, M \subseteq L2, L2 \cup P2 = M \cup old \cup new,
           Before(L2, P2)
    PROVE  /\ old = P => Moved(L \cup P, L, k, L2, P2)
           /\ old = {} => Moved(L, L, k, L2, P2)
<1>1. \A x \in L : x \notin P /\ x \notin new
  <2>1. ASSUME NEW x \in L, x \in P PROVE FALSE
    <3>1. x < x /\ x \in Nat
      BY <2>1 DEF Before
    <3> QED BY <3>1
  <2>2. ASSUME NEW x \in L, x \in new PROVE FALSE
    <3>1. x < k /\ x \in Nat
      BY <2>2 DEF Below
    <3>2. x = k \/ x = k + 1
      BY <2>2
    <3> QED BY <3>1, <3>2
  <2> QED BY <2>1, <2>2
<1>2. \A x : x \in L \cap L2 <=> x \in M
  <2>1. \A x : x \in M => x \in L
    BY DEF Shed
  <2>2. \A x : x \in L2 => x \in M \/ x \in old \/ x \in new
    OBVIOUS
  <2>3. \A x \in L : x \notin old
    BY <1>1
  <2> QED BY <1>1, <2>1, <2>2, <2>3
<1>3. \A x \in L \ L2, y \in L \cap L2 : x < y
  BY <1>2 DEF Shed
<1>4. \A x \in L2, y \in P2 : x < y
  BY DEF Before
<1>5. ASSUME old = P PROVE L2 \cup P2 = ((L \cup P) \ (L \ L2)) \cup new
  <2>1. \A x : x \in (L \cup P) \ (L \ L2) <=> x \in M \/ x \in P
    BY <1>1, <1>2
  <2> QED BY <1>5, <2>1
<1>6. ASSUME old = {} PROVE L2 \cup P2 = (L \ (L \ L2)) \cup new
  <2>1. \A x : x \in L \ (L \ L2) <=> x \in M
    BY <1>2
  <2> QED BY <1>6, <2>1
<1> QED BY <1>3, <1>4, <1>5, <1>6 DEF Moved

(* What a handler leaves in order is in order.                             *)
LEMMA CompletedRInv ==
    ASSUME NEW d, NEW k, Orderly(d, Keys, k), Completed(d), nextId' = k
    PROVE  /\ RInv' /\ Kept(dev, power)' = OnFlash(d)
           /\ InRam(dev)' = InRam(d) /\ dev'.ram = d.ram
<1> DEFINE x == [d EXCEPT !.trail = {}]
<1>1. dev' = x /\ power' = "on"
  BY DEF Completed
<1>2. x.buf = d.buf /\ x.flash = d.flash /\ x.ram = d.ram
  <2>1. {} \in SUBSET Images /\ TRUE \in BOOLEAN /\ Sound(d, Keys)
    BY DEF Orderly
  <2> QED BY <2>1, OtherFields
<1> HIDE DEF x
<1> QED BY <1>1, <1>2 DEF RInv, Kept, OnFlash, InRam, Orderly

(* The factory state holds no message.                                     *)
LEMMA InitRInv == Init => RInv /\ Kept(dev, power) = {} /\ InRam(dev) = {}
<1> SUFFICES ASSUME Init PROVE RInv /\ Kept(dev, power) = {} /\ InRam(dev) = {}
  OBVIOUS
<1>1. /\ dev.nvs = NoNvs /\ dev.flash = [o \in Offsets |-> Erased]
      /\ dev.buf = <<>> /\ power = "off"
  BY DEF Init, PoweredDown, FactoryImage
<1>2. \A o \in Offsets : dev.flash[o] = Erased
  BY <1>1
<1> QED BY <1>1, <1>2 DEF RInv, OffContent, Kept, OffIds, InRam, BufIds

(* The ids in the log are numbers, in order and below the next one.        *)
LEMMA LogFacts ==
    ASSUME IInv, RInv
    PROVE  LET L == Kept(dev, power)
               P == InRam(dev)
           IN  /\ L \in SUBSET Nat /\ P \in SUBSET Nat /\ nextId \in Nat
               /\ Before(L, P) /\ Below(L, nextId) /\ Shed(L, L)
               /\ nextId \in 1 .. MaxMsgs + 1
<1> DEFINE f == dev.flash
           b == dev.buf
           L == Kept(dev, power)
           P == InRam(dev)
<1>1. f \in Chip /\ b \in Seq(Cells) /\ nextId \in 1 .. MaxMsgs + 1
      /\ nextId \in Nat /\ power \in {"off", "on"}
  BY BoundsAssumption DEF IInv, Devices
<1>2. CASE power = "on"
  <2>1. Content(f, dev.ram, b, nextId) /\ L = Ids(f, dev.ram) /\ P = BufIds(b)
    BY <1>2 DEF RInv, Kept, OnFlash, InRam
  <2>2. Ids(f, dev.ram) \subseteq Nat /\ BufIds(b) \subseteq Nat
    BY <1>1, IdsAreNumbers
  <2> HIDE DEF f, b, L, P
  <2>3. Before(L, P) /\ Below(L, nextId)
    BY <2>1 DEF Content
  <2> QED BY <1>1, <2>1, <2>2, <2>3 DEF Shed, L, P
<1>3. CASE power = "off"
  <2>1. P = {}
    BY <1>3 DEF IInv, InRam, BufIds
  <2>2. L = {} \/ (L = Ids(f, dev.nvs) /\ Content(f, dev.nvs, <<>>, nextId))
    BY <1>3 DEF RInv, Kept, OffIds, OffContent
  <2>3. Ids(f, dev.nvs) \subseteq Nat
    BY <1>1, IdsAreNumbers
  <2> HIDE DEF f, b, L, P
  <2>4. L \in SUBSET Nat /\ Below(L, nextId)
    BY <2>2, <2>3 DEF Content, Below
  <2> QED BY <1>1, <2>1, <2>4 DEF Shed, Before, L, P
<1> QED BY <1>1, <1>2, <1>3

(* A device that is switched on, seen as a whole.                          *)
LEMMA OnOrderly ==
    ASSUME IInv, RInv, power = "on"
    PROVE  /\ Orderly(dev, Keys, nextId) /\ Len(dev.buf) < PageSize
           /\ Kept(dev, power) = OnFlash(dev)
  BY DEF IInv, RInv, Orderly, Kept

(* What is left in order at the end of a handler, abstractly.              *)
LEMMA HandlerStep ==
    ASSUME IInv, RInv, NEW d, NEW j \in {nextId, nextId + 1, nextId + 2},
           Orderly(d, Keys, j), Completed(d), nextId' = j,
           NEW M, Shed(Kept(dev, power), M), M \subseteq OnFlash(d),
           NEW old \in {{}, InRam(dev)},
           NEW new \in {{}, {nextId}, {nextId + 1}},
           OnFlash(d) \cup InRam(d) = M \cup old \cup new
    PROVE  /\ RInv' /\ Kept(dev, power)' = OnFlash(d)
           /\ InRam(dev)' = InRam(d) /\ dev'.ram = d.ram
           /\ Stepped(Kept(dev, power), InRam(dev), nextId,
                      Kept(dev, power)', InRam(dev)', nextId')
           /\ old = InRam(dev) =>
                 Moved(Kept(dev, power) \cup InRam(dev), Kept(dev, power), nextId,
                       Kept(dev, power)', InRam(dev)')
<1> DEFINE L == Kept(dev, power)
           P == InRam(dev)
           L2 == OnFlash(d)
           P2 == InRam(d)
           k == nextId
<1>1. /\ RInv' /\ Kept(dev, power)' = L2 /\ InRam(dev)' = P2
      /\ dev'.ram = d.ram
  BY CompletedRInv
<1>2. /\ L \in SUBSET Nat /\ P \in SUBSET Nat /\ k \in Nat
      /\ Before(L, P) /\ Below(L, k)
  BY LogFacts
<1>3. Before(L2, P2)
  BY DEF Orderly, Content, OnFlash, InRam
<1> HIDE DEF L, P, L2, P2, k
<1>4. /\ old = P => Moved(L \cup P, L, k, L2, P2)
      /\ old = {} => Moved(L, L, k, L2, P2)
  <2>1. /\ Shed(L, M) /\ old \in {{}, P} /\ new \in {{}, {k}, {k + 1}}
        /\ M \subseteq L2 /\ L2 \cup P2 = M \cup old \cup new
    BY DEF L, P, L2, P2, k
  <2> QED BY <1>2, <1>3, <2>1, HandlerMoves
<1>5. old = P \/ old = {}
  BY DEF P
<1>6. Stepped(L, P, k, L2, P2, j)
  BY <1>4, <1>5 DEF Stepped, k
<1> QED BY <1>1, <1>4, <1>6 DEF L, P, L2, P2, k

(* A step that moves nothing, or loses the buffer.                         *)
LEMMA IdleStep ==
    ASSUME IInv, RInv, NEW Q \in {{}, InRam(dev)}
    PROVE  LET L == Kept(dev, power)
               P == InRam(dev)
           IN  /\ Stepped(L, P, nextId, L, Q, nextId)
               /\ Q = P => Moved(L \cup P, L, nextId, L, Q)
<1> DEFINE L == Kept(dev, power)
           P == InRam(dev)
           k == nextId
           new == {}
<1>1. /\ L \in SUBSET Nat /\ P \in SUBSET Nat /\ k \in Nat
      /\ Before(L, P) /\ Below(L, k) /\ Shed(L, L)
  BY LogFacts
<1>2. Q \in {{}, P} /\ new \in {{}, {k}, {k + 1}} /\ Before(L, Q)
  BY <1>1 DEF Before
<1>3. L \subseteq L /\ L \cup Q = L \cup Q \cup new
  OBVIOUS
<1> HIDE DEF L, P, k, new
<1>4. /\ Q = P => Moved(L \cup P, L, k, L, Q)
      /\ Q = {} => Moved(L, L, k, L, Q)
  BY <1>1, <1>2, <1>3, HandlerMoves
<1>5. Q = P \/ Q = {}
  BY <1>2
<1>6. Stepped(L, P, k, L, Q, k)
  BY <1>4, <1>5 DEF Stepped
<1> QED BY <1>4, <1>6 DEF L, P, k

(* An id that is given out and not used.                                   *)
LEMMA NextIdOrderly ==
    ASSUME NEW d, NEW k \in Nat, Orderly(d, Keys, k)
    PROVE  Orderly(d, Keys, k + 1)
<1> DEFINE f == d.flash
           q == d.ram
           b == d.buf
<1>1. f \in Chip /\ b \in Seq(Cells) /\ Content(f, q, b, k) /\ Sound(d, Keys)
  BY OrderlyFacts DEF Orderly
<1> HIDE DEF f, q, b
<1>2. Content(f, q, b, k + 1)
  BY <1>1, ForgetBuffer
<1> QED BY <1>1, <1>2 DEF Orderly, f, q, b

(* Every step keeps the content of the log in order and is a step of the   *)
(* abstract log.                                                           *)
LEMMA NextRInv ==
    ASSUME "erase" \notin FaultSites, \A n \in Sizes : n <= PageSize,
           IInv, RInv, [Next]_vars
    PROVE  /\ RInv'
           /\ Stepped(Kept(dev, power), InRam(dev), nextId,
                      Kept(dev, power)', InRam(dev)', nextId')
<1> DEFINE L == Kept(dev, power)
           P == InRam(dev)
<1>0. Keys \in SUBSET Keys
  OBVIOUS
<1>1. \A F \in FaultSets : "erase" \notin F
  BY DEF FaultSets
<1>9. /\ L \in SUBSET Nat /\ P \in SUBSET Nat /\ nextId \in Nat
      /\ Shed(L, L) /\ nextId \in 1 .. MaxMsgs + 1
  BY LogFacts
<1>2. CASE Boot
  <2>1. PICK F \in FaultSets, G \in FaultSets :
           /\ power = "off" /\ nextId + 1 <= MaxMsgs
           /\ Completed(InitFlash(dev, nextId, F, G))
           /\ nextId' = nextId + 2
    BY <1>2 DEF Boot, BootTo
  <2> DEFINE d == InitFlash(dev, nextId, F, G)
             j == nextId + 2
  <2>2. nextId \in 1 .. MaxMsgs
    BY <1>9, <2>1, BoundsAssumption
  <2>3. /\ dev \in Devices /\ dev.ram = NoRam /\ dev.buf = <<>>
        /\ Loadable(dev.nvs) /\ OffContent(dev, nextId) /\ L = OffIds(dev)
    BY <2>1 DEF IInv, RInv, Kept
  <2>4. /\ Orderly(d, Keys, nextId + 2) /\ d.buf = <<>>
        /\ \E M : /\ Shed(OffIds(dev), M)
                  /\ \E new \in {{}, {nextId}, {nextId + 1}} :
                        OnFlash(d) = M \cup new
    BY <1>1, <2>2, <2>3, BootOrderly
  <2>8. PICK M : /\ Shed(L, M)
                 /\ \E new \in {{}, {nextId}, {nextId + 1}} :
                       OnFlash(d) = M \cup new
    BY <2>3, <2>4
  <2>5. PICK new \in {{}, {nextId}, {nextId + 1}} :
           Shed(L, M) /\ OnFlash(d) = M \cup new
    BY <2>8
  <2>6. Completed(d) /\ InRam(d) = {}
    BY <2>1, <2>4 DEF InRam, BufIds
  <2> DEFINE old == {}
  <2>7. /\ j \in {nextId, nextId + 1, nextId + 2} /\ Orderly(d, Keys, j)
        /\ nextId' = j /\ M \subseteq OnFlash(d) /\ old \in {{}, InRam(dev)}
        /\ OnFlash(d) \cup InRam(d) = M \cup old \cup new
    BY <2>1, <2>4, <2>5, <2>6
  <2> HIDE DEF d, j, old
  <2> QED BY <2>5, <2>6, <2>7, HandlerStep
<1>3. CASE StoreMsg
  <2>1. PICK n \in Sizes, F \in FaultSets :
           /\ power = "on" /\ nextId <= MaxMsgs
           /\ Completed(StoreMessage(dev, nextId, n, F).dev)
           /\ nextId' = nextId + 1
    BY <1>3 DEF StoreMsg, StoreTo
  <2> DEFINE m == StoreMessage(dev, nextId, n, F)
             d == m.dev
             j == nextId + 1
  <2>2. Orderly(dev, Keys, nextId) /\ Len(dev.buf) < PageSize
        /\ L = OnFlash(dev)
    BY <2>1, OnOrderly
  <2>3. n \in Nat \ {0} /\ n <= PageSize
    BY SizesAssumption
  <2>4. /\ Orderly(d, Keys, j)
        /\ \E M : /\ Shed(OnFlash(dev), M) /\ M \subseteq OnFlash(d)
                  /\ \E new \in {{}, {nextId}}, old \in {{}, InRam(dev)} :
                        OnFlash(d) \cup InRam(d) = M \cup old \cup new
    <3>1. CASE dev.enabled
      <4>2. Orderly(d, Keys, nextId + 1)
        BY <1>0, <1>1, <1>9, <2>2, <2>3, <3>1, StoreOrderly
      <4>1. StoreLeaves(dev, d, nextId, F)
        BY <1>0, <1>1, <1>9, <2>2, <2>3, <3>1, StoreOrderly
      <4> HIDE DEF m
      <4> QED BY <4>1, <4>2 DEF StoreLeaves
    <3>2. CASE ~dev.enabled
      <4>1. d = dev
        BY <3>2 DEF StoreMessage
      <4>2. Orderly(d, Keys, nextId + 1)
        BY <1>9, <2>2, <4>1, NextIdOrderly
      <4>3. Shed(OnFlash(dev), OnFlash(dev))
        BY <1>9, <2>2
      <4> HIDE DEF d
      <4> QED BY <4>1, <4>2, <4>3
    <3> QED BY <3>1, <3>2
  <2> HIDE DEF m
  <2>8. PICK M : /\ Shed(OnFlash(dev), M) /\ M \subseteq OnFlash(d)
                 /\ \E new \in {{}, {nextId}}, old \in {{}, InRam(dev)} :
                       OnFlash(d) \cup InRam(d) = M \cup old \cup new
    BY <2>4
  <2>5. PICK new \in {{}, {nextId}}, old \in {{}, InRam(dev)} :
           /\ Shed(OnFlash(dev), M) /\ M \subseteq OnFlash(d)
           /\ OnFlash(d) \cup InRam(d) = M \cup old \cup new
    BY <2>8
  <2>6. Completed(d)
    BY <2>1 DEF m
  <2>7. /\ j \in {nextId, nextId + 1, nextId + 2} /\ nextId' = j /\ Shed(L, M)
        /\ new \in {{}, {nextId}, {nextId + 1}} /\ Orderly(d, Keys, j)
    BY <2>1, <2>2, <2>4, <2>5
  <2> HIDE DEF d, j
  <2> QED BY <2>5, <2>6, <2>7, HandlerStep
<1>4. CASE Read
  <2>1. PICK F \in FaultSets :
           /\ power = "on"
           /\ Completed(WriteBufferToFlash(dev, "flush", F).dev)
           /\ nextId' = nextId
    BY <1>4 DEF Read, ReadTo
  <2> DEFINE w == WriteBufferToFlash(dev, "flush", F)
             d == w.dev
  <2>2. Orderly(dev, Keys, nextId) /\ Len(dev.buf) < PageSize
        /\ L = OnFlash(dev)
    BY <2>1, OnOrderly
  <2>3. /\ Orderly(d, Keys, nextId)
        /\ \E M : /\ Shed(OnFlash(dev), M) /\ M \subseteq OnFlash(d)
                  /\ \E old \in {{}, InRam(dev)} :
                        OnFlash(d) \cup InRam(d) = M \cup old
    <3>1. CASE dev.enabled
      <4>1. /\ Orderly(d, Keys, nextId) /\ d.buf = <<>>
            /\ \E M : /\ Shed(OnFlash(dev), M) /\ OneOn(dev, d, M)
                      /\ OnFlash(d) = M \cup (IF w.err THEN {} ELSE InRam(dev))
        BY <1>0, <1>1, <2>2, <3>1, WriteBufferOrderly
      <4>2. PICK M : /\ Shed(OnFlash(dev), M)
                     /\ OnFlash(d) = M \cup (IF w.err THEN {} ELSE InRam(dev))
        BY <4>1
      <4>3. InRam(d) = {}
        BY <4>1 DEF InRam, BufIds
      <4> HIDE DEF w
      <4>4. \E old \in {{}, InRam(dev)} : OnFlash(d) = M \cup old
        BY <4>2
      <4> QED BY <4>1, <4>2, <4>3, <4>4
    <3>2. CASE ~dev.enabled
      <4>1. d = dev
        BY <3>2 DEF WriteBufferToFlash
      <4>2. Shed(OnFlash(dev), OnFlash(dev))
        BY <1>9, <2>2
      <4> HIDE DEF d
      <4> QED BY <2>2, <4>1, <4>2
    <3> QED BY <3>1, <3>2
  <2> HIDE DEF w
  <2>7. PICK M : /\ Shed(OnFlash(dev), M) /\ M \subseteq OnFlash(d)
                 /\ \E old \in {{}, InRam(dev)} :
                       OnFlash(d) \cup InRam(d) = M \cup old
    BY <2>3
  <2>4. PICK old \in {{}, InRam(dev)} :
           /\ Shed(OnFlash(dev), M) /\ M \subseteq OnFlash(d)
           /\ OnFlash(d) \cup InRam(d) = M \cup old
    BY <2>7
  <2>5. Completed(d)
    BY <2>1 DEF w
  <2> DEFINE new == {}
  <2>6. /\ nextId \in {nextId, nextId + 1, nextId + 2} /\ nextId' = nextId
        /\ Shed(L, M) /\ new \in {{}, {nextId}, {nextId + 1}}
        /\ Orderly(d, Keys, nextId)
        /\ OnFlash(d) \cup InRam(d) = M \cup old \cup new
    BY <2>1, <2>2, <2>3, <2>4
  <2> HIDE DEF d, new
  <2> QED BY <2>4, <2>5, <2>6, HandlerStep
<1>5. CASE Clear
  <2>1. PICK F \in FaultSets :
           /\ power = "on" /\ Completed(ClearFlashData(dev, F))
           /\ nextId' = nextId
    BY <1>5 DEF Clear, ClearTo
  <2> DEFINE d == ClearFlashData(dev, F)
  <2>2. Orderly(dev, Keys, nextId) /\ Len(dev.buf) < PageSize
        /\ L = OnFlash(dev)
    BY <2>1, OnOrderly
  <2>3. CASE dev.enabled
    <3>1. /\ Orderly(d, Keys, nextId) /\ OnFlash(d) = {} /\ InRam(d) = {}
      BY <1>1, <1>9, <2>2, <2>3, ClearOrderly
    <3>2. Completed(d)
      BY <2>1
    <3> HIDE DEF d
    <3>3. RInv' /\ Kept(dev, power)' = {} /\ InRam(dev)' = {}
      BY <2>1, <3>1, <3>2, CompletedRInv
    <3>4. Stepped(Kept(dev, power), InRam(dev), nextId, {}, {}, nextId)
      BY DEF Stepped
    <3> QED BY <2>1, <3>3, <3>4
  <2>4. CASE ~dev.enabled
    <3>1. d = dev
      BY <2>4 DEF ClearFlashData
    <3>2. Completed(dev)
      BY <2>1, <3>1
    <3>3. RInv' /\ Kept(dev, power)' = L /\ InRam(dev)' = P
      BY <2>1, <2>2, <3>2, CompletedRInv
    <3>4. P \in {{}, InRam(dev)}
      OBVIOUS
    <3>5. Stepped(L, P, nextId, L, P, nextId)
      BY <3>4, IdleStep
    <3> QED BY <2>1, <3>3, <3>5
  <2> QED BY <2>3, <2>4
<1>6. CASE Disable
  <2> DEFINE x == [dev EXCEPT !.enabled = FALSE]
  <2>1. power = "on" /\ dev' = x /\ power' = power /\ nextId' = nextId
    BY <1>6 DEF Disable
  <2>2. x.flash = dev.flash /\ x.ram = dev.ram /\ x.buf = dev.buf
    BY DEF IInv, Devices
  <2> HIDE DEF x
  <2>3. RInv' /\ Kept(dev, power)' = L /\ InRam(dev)' = P
    BY <2>1, <2>2 DEF RInv, Kept, OnFlash, InRam
  <2>4. P \in {{}, InRam(dev)}
    OBVIOUS
  <2>5. Stepped(L, P, nextId, L, P, nextId)
    BY <2>4, IdleStep
  <2> QED BY <2>1, <2>3, <2>5
<1>7. CASE PowerOff
  <2> DEFINE img == Image(dev)
  <2>1. /\ power = "on" /\ dev' = PoweredDown(img) /\ power' = "off"
        /\ nextId' = nextId
    BY <1>7 DEF PowerOff
  <2>2. dev'.flash = dev.flash /\ dev'.nvs = dev.nvs /\ dev'.buf = <<>>
    BY <2>1 DEF PoweredDown, Image
  <2>3. dev.nvs = dev.ram /\ dev.ram \in Positions
    BY <2>1 DEF IInv, Sound, Agree, Devices, Positions, Records
  <2>4. dev.nvs # NoNvs
    BY <2>3 DEF Positions, NoNvs, NoVal, Keys
  <2> HIDE DEF img
  <2>5. /\ Content(dev.flash, dev.ram, dev.buf, nextId)
        /\ dev.flash \in Chip /\ dev.buf \in Seq(Cells)
    BY <2>1 DEF RInv, IInv, Devices
  <2>6. Content(dev.flash, dev.ram, <<>>, nextId) /\ BufIds(<<>>) = {}
    <3> DEFINE f == dev.flash
               q == dev.ram
               b == dev.buf
    <3>1. Content(f, q, b, nextId) /\ f \in Chip /\ b \in Seq(Cells)
      BY <2>5
    <3> HIDE DEF f, q, b
    <3>2. Content(f, q, <<>>, nextId) /\ BufIds(<<>>) = {}
      BY <1>9, <3>1, ForgetBuffer
    <3> QED BY <3>2 DEF f, q
  <2>7. RInv'
    BY <2>1, <2>2, <2>3, <2>4, <2>6 DEF RInv, OffContent
  <2>8. Kept(dev, power)' = L /\ InRam(dev)' = {}
    BY <2>1, <2>2, <2>3, <2>4, <2>6 DEF Kept, OffIds, OnFlash, InRam
  <2> DEFINE Q == {}
  <2>9. Q \in {{}, InRam(dev)}
    OBVIOUS
  <2> HIDE DEF Q
  <2>10. Stepped(L, P, nextId, L, Q, nextId)
    BY <2>9, IdleStep
  <2> QED BY <2>1, <2>7, <2>8, <2>10 DEF Q
<1>8. CASE UNCHANGED vars
  <2>1. dev' = dev /\ power' = power /\ nextId' = nextId
    BY <1>8 DEF vars
  <2>2. RInv' /\ Kept(dev, power)' = L /\ InRam(dev)' = P
    BY <2>1 DEF RInv, Kept, OnFlash, InRam
  <2>3. P \in {{}, InRam(dev)}
    OBVIOUS
  <2>4. Stepped(L, P, nextId, L, P, nextId)
    BY <2>3, IdleStep
  <2> QED BY <2>1, <2>2, <2>4
<1> QED BY <1>2, <1>3, <1>4, <1>5, <1>6, <1>7, <1>8 DEF Next

(* What a reader finds is what the device keeps, in the order of arrival.  *)
ReaderView == /\ RetainedIn(dev, power) = Kept(dev, power)
              /\ PendingIn(dev) = InRam(dev)

(* The reader's view holds whenever the content is in order.               *)
LEMMA ReaderSees ==
    ASSUME IInv, RInv
    PROVE  /\ RetainedIn(dev, power) = Kept(dev, power)
           /\ PendingIn(dev) = InRam(dev)
           /\ InOrder
<1> DEFINE s == SeenOf(dev, power)
           f == dev.flash
<1>1. f \in Chip /\ dev.buf \in Seq(Cells) /\ power \in {"off", "on"}
  BY DEF IInv, Devices
<1>2. CASE power = "on"
  <2>1. s = dev /\ ~IsFresh(dev, power) /\ ~Fresh /\ Seen = dev
    BY <1>2 DEF SeenOf, IsFresh, Fresh, Seen
  <2>2. dev.flash \in Chip /\ Sited(dev.ram) /\ FlashOk(dev.flash, dev.ram)
    BY <1>1, <1>2 DEF IInv, RInv, Content, Sound, Sited, Devices
  <2>3. /\ {dev.flash[o][1] : o \in Starts(dev)} = Ids(dev.flash, dev.ram)
        /\ \A o, w \in Starts(dev) :
              Walked(dev, o) < Walked(dev, w) => dev.flash[o][1] < dev.flash[w][1]
    BY <2>2, ReaderFinds
  <2>4. RetainedIn(dev, power) = Kept(dev, power)
    BY <1>2, <2>1, <2>3 DEF RetainedIn, Kept, OnFlash
  <2>5. PendingIn(dev) = InRam(dev)
    BY <1>1, <1>2, PendingIsBuffer DEF RInv, Content, InRam
  <2> QED BY <2>1, <2>3, <2>4, <2>5 DEF InOrder
<1>3. CASE power = "off"
  <2>1. PendingIn(dev) = InRam(dev)
    BY <1>3 DEF IInv, PendingIn, InRam, BufIds
  <2>2. CASE dev.nvs = NoNvs
    BY <1>3, <2>1, <2>2 DEF RetainedIn, IsFresh, Fresh, InOrder, Kept, OffIds
  <2>3. CASE dev.nvs # NoNvs
    <3>1. s.ram = dev.nvs /\ s.flash = f /\ ~IsFresh(dev, power) /\ ~Fresh
          /\ Seen = s
      BY <1>3, <2>3 DEF SeenOf, IsFresh, Fresh, Seen, IInv, Devices
    <3>2. Sited(dev.nvs) /\ FlashOk(f, dev.nvs)
      BY <1>3, <2>3 DEF IInv, Loadable, RInv, OffContent, Content, Sited
    <3> HIDE DEF s, f
    <3>3. s.flash \in Chip /\ Sited(s.ram) /\ FlashOk(s.flash, s.ram)
      BY <1>1, <3>1, <3>2
    <3>4. /\ {s.flash[o][1] : o \in Starts(s)} = Ids(s.flash, s.ram)
          /\ \A o, w \in Starts(s) :
                Walked(s, o) < Walked(s, w) => s.flash[o][1] < s.flash[w][1]
      BY <3>3, ReaderFinds
    <3>5. RetainedIn(dev, power) = {f[o][1] : o \in Starts(s)}
      BY <3>1 DEF RetainedIn, s, f
    <3>6. RetainedIn(dev, power) = Kept(dev, power)
      BY <1>3, <2>3, <3>1, <3>4, <3>5 DEF Kept, OffIds, f
    <3>7. InOrder
      BY <3>1, <3>4 DEF InOrder, f
    <3> QED BY <2>1, <3>6, <3>7
  <2> QED BY <2>2, <2>3
<1> QED BY <1>1, <1>2, <1>3

(* The invariant of the log and its content.                               *)
LEMMA SpecRInv ==
    ASSUME "erase" \notin FaultSites, \A n \in Sizes : n <= PageSize
    PROVE  Spec => [](IInv /\ RInv)
<1>1. Init => IInv /\ RInv
  BY InitIInv, InitRInv
<1>2. IInv /\ RInv /\ [Next]_vars => (IInv /\ RInv)'
  BY NextIInv, NextRInv
<1> QED BY <1>1, <1>2, PTL DEF Spec

(* The log is a first-in first-out log of which only the oldest messages   *)
(* are given up, with a buffer that a reset may lose (FlashLogAbs), and a  *)
(* reader finds every message once and in order: whatever the sequence of  *)
(* stores, reads, clears, resets and refused writes, as long as every      *)
(* erasure succeeds and no message is longer than a page.                  *)
THEOREM ImplementsAbs ==
    ASSUME "erase" \notin FaultSites, \A n \in Sizes : n <= PageSize
    PROVE  Spec => Implements
<1>1. IInv /\ RInv => InOrder
  BY ReaderSees
<1>2. Init => Abs!Init
  <2> SUFFICES ASSUME Init PROVE Abs!Init
    OBVIOUS
  <2>1. RetainedIn(dev, power) = {} /\ PendingIn(dev) = {}
    BY InitIInv, InitRInv, ReaderSees
  <2> QED BY <2>1 DEF Init, Abs!Init
<1>4. IInv /\ RInv => ReaderView
  BY ReaderSees DEF ReaderView
<1>5. IInv' /\ RInv' => ReaderView'
  BY <1>4, PTL
<1>3. IInv /\ RInv /\ IInv' /\ RInv' /\ [Next]_vars => [Abs!Next]_Abs!avars
  <2> SUFFICES ASSUME IInv, RInv, IInv', RInv', [Next]_vars PROVE Abs!Next
    OBVIOUS
  <2> DEFINE L == RetainedIn(dev, power)
             P == PendingIn(dev)
  <2>1. L = Kept(dev, power) /\ P = InRam(dev)
    BY ReaderSees
  <2>2. L' = Kept(dev, power)' /\ P' = InRam(dev)'
    BY <1>5 DEF ReaderView
  <2>3. Stepped(L, P, nextId, L', P', nextId')
    BY <2>1, <2>2, NextRInv
  <2>4. /\ Moved(L \cup P, L, nextId, L', P') => Abs!Keep
        /\ Moved(L, L, nextId, L', P') => Abs!Lose
    BY DEF Moved, Abs!Keep, Abs!Lose, Abs!Moves, Abs!OldestFirst, Abs!Gone,
           Abs!Arrivals
  <2>5. L' = {} /\ P' = {} => Abs!Clear
    BY DEF Abs!Clear
  <2> QED BY <2>3, <2>4, <2>5 DEF Stepped, Abs!Next
<1> QED BY <1>1, <1>2, <1>3, SpecRInv, PTL DEF Spec, Abs!Spec, Implements

-----------------------------------------------------------------------------
(* Only a clear, or the old end of a full ring, takes messages away        *)

(* With three blocks or more, the start never comes back to where it was   *)
(* in one or two moves.                                                    *)
LEMMA NextBlocksDiffer ==
    ASSUME NEW b \in Blocks
    PROVE  /\ NextBlock(b) # b
           /\ NBlocks >= 3 => NextBlock(NextBlock(b)) # b
<1>1. /\ b \in Nat /\ b + BlockSize <= Size /\ BlockSize \in Nat
      /\ BlockSize >= 2 /\ Size \in Nat /\ 2 * BlockSize <= Size
  BY BlockArithmetic, TwoBlocks, GeometryAssumption
<1>2. NBlocks >= 3 => 3 * BlockSize <= Size
  BY GeometryAssumption DEF Size
<1> DEFINE s == Size
           n == NextBlock(b)
<1>3. n = IF b + BlockSize >= s THEN 0 ELSE b + BlockSize
  BY DEF NextBlock
<1>4. NextBlock(n) = IF n + BlockSize >= s THEN 0 ELSE n + BlockSize
  BY DEF NextBlock
<1> HIDE DEF s, n
<1>5. n # b
  BY <1>1, <1>3 DEF s
<1>6. ASSUME NBlocks >= 3 PROVE NextBlock(n) # b
  <2>1. 3 * BlockSize <= s
    BY <1>2, <1>6 DEF s
  <2>2. CASE b + BlockSize >= s
    <3>1. n = 0 /\ b + BlockSize = s
      BY <1>1, <1>3, <2>2 DEF s
    <3>2. NextBlock(n) = BlockSize
      BY <1>1, <1>4, <2>1, <3>1 DEF s
    <3> QED BY <1>1, <2>1, <3>1, <3>2 DEF s
  <2>3. CASE ~(b + BlockSize >= s)
    <3>1. n = b + BlockSize
      BY <1>3, <2>3
    <3>2. CASE n + BlockSize >= s
      <4>1. NextBlock(n) = 0
        BY <1>4, <3>2
      <4>2. b # 0
        BY <1>1, <2>1, <3>1, <3>2 DEF s
      <4> QED BY <4>1, <4>2
    <3>3. CASE ~(n + BlockSize >= s)
      BY <1>1, <1>4, <3>1, <3>3
    <3> QED BY <3>2, <3>3
  <2> QED BY <2>2, <2>3
<1> QED BY <1>5, <1>6 DEF n

(* No access that failed means no fault.                                   *)
LEMMA NoFault ==
    ASSUME NEW F \in FaultSets, faults \in Nat,
           faults' = faults + Cardinality(F), faults' = faults
    PROVE  F = {}
<1>1. Cardinality(F) \in Nat
  BY FaultCount DEF FaultSets
<1>2. Cardinality(F) = 0
  BY <1>1
<1>3. IsFiniteSet(F)
  <2>1. IsFiniteSet({"write1"} \cup {"write2"} \cup {"flush"} \cup {"erase"})
    BY FS_Singleton, FS_Union
  <2>2. F \in SUBSET ({"write1"} \cup {"write2"} \cup {"flush"} \cup {"erase"})
    BY BoundsAssumption DEF Sites, FaultSets
  <2> QED BY <2>1, <2>2, FS_Subset
<1> QED BY <1>2, <1>3, FS_EmptySet

(* The start moves by the blocks that are given up, or nothing is lost.    *)
StartMoves ==
    /\ dev.ram.start = dev'.ram.start =>
          Kept(dev, power) \subseteq Kept(dev, power)'
    /\ dev.ram.start # dev'.ram.start =>
          dev'.ram.start = NextBlock(dev'.ram.block)

(* A start that moved is just behind the block that was entered.           *)
LEMMA TwoOnMoves ==
    ASSUME NBlocks >= 3, NEW d, dev.ram.start \in Blocks, dev'.ram = d.ram,
           Kept(dev, power) = OnFlash(dev), Kept(dev, power)' = OnFlash(d),
           TwoOn(dev, d)
    PROVE  StartMoves
<1> DEFINE a == dev.ram.start
           b == d.ram.start
           c == d.ram.block
<1>1. NextBlock(a) # a /\ NextBlock(NextBlock(a)) # a
  BY NextBlocksDiffer
<1>2. \/ b = a /\ OnFlash(dev) \subseteq OnFlash(d)
      \/ (c = a \/ c = NextBlock(a)) /\ b = NextBlock(c)
  BY DEF TwoOn
<1>3. dev'.ram.start = b /\ dev'.ram.block = c
  OBVIOUS
<1>4. CASE b = a /\ OnFlash(dev) \subseteq OnFlash(d)
  BY <1>3, <1>4 DEF StartMoves
<1>5. CASE (c = a \/ c = NextBlock(a)) /\ b = NextBlock(c)
  <2>1. b # a
    BY <1>1, <1>5
  <2> QED BY <1>3, <1>5, <2>1 DEF StartMoves
<1> QED BY <1>2, <1>4, <1>5

(* Between two resets, and while no access fails, a step clears the log,   *)
(* or keeps every message but those of the blocks the start moves past.    *)
LEMMA StepKeeps ==
    ASSUME "erase" \notin FaultSites, \A n \in Sizes : n <= PageSize,
           NBlocks >= 3, IInv, RInv, Next,
           power = "on", power' = "on", faults' = faults, dev.enabled
    PROVE  \/ Kept(dev, power)' = {} /\ InRam(dev)' = {}
           \/ /\ Moved(Kept(dev, power) \cup InRam(dev), Kept(dev, power), nextId,
                       Kept(dev, power)', InRam(dev)')
              /\ StartMoves
<1> DEFINE L == Kept(dev, power)
           P == InRam(dev)
           N == {}
<1>0. Keys \in SUBSET Keys /\ "erase" \notin N /\ "write1" \notin N
      /\ "write2" \notin N /\ "flush" \notin N
  OBVIOUS
<1>1. /\ Orderly(dev, Keys, nextId) /\ Len(dev.buf) < PageSize
      /\ L = OnFlash(dev)
  BY OnOrderly
<1>2. /\ nextId \in Nat /\ nextId \in 1 .. MaxMsgs + 1 /\ Shed(L, L)
  BY LogFacts
<1>3. dev.ram.start \in Blocks
  BY <1>1 DEF Orderly, Sound, Consistent
<1>4. faults \in Nat
  BY DEF IInv
<1>5. CASE StoreMsg
  <2>1. PICK n \in Sizes, F \in FaultSets :
           /\ nextId <= MaxMsgs
           /\ faults' = faults + Cardinality(F)
           /\ Completed(StoreMessage(dev, nextId, n, F).dev)
           /\ nextId' = nextId + 1
    BY <1>5 DEF StoreMsg, StoreTo, Failed
  <2>2. F = N
    BY <1>4, <2>1, NoFault
  <2> DEFINE m == StoreMessage(dev, nextId, n, N)
             d == m.dev
             j == nextId + 1
             new == {nextId}
  <2>3. n \in Nat \ {0} /\ n <= PageSize
    BY SizesAssumption
  <2> HIDE DEF N
  <2>4. Orderly(d, Keys, j)
    BY <1>0, <1>1, <1>2, <2>3, StoreOrderly
  <2>5. StoreLeaves(dev, d, nextId, N)
    BY <1>0, <1>1, <1>2, <2>3, StoreOrderly
  <2>6. TwoOn(dev, d)
    BY <1>0, <1>1, <1>2, <2>3, StoreOrderly
  <2> HIDE DEF m
  <2>7. PICK M : /\ Shed(OnFlash(dev), M) /\ M \subseteq OnFlash(d)
                 /\ OnFlash(d) \cup InRam(d) = M \cup P \cup new
    BY <1>0, <2>5 DEF StoreLeaves
  <2>8. Completed(d)
    BY <2>1, <2>2 DEF m
  <2>9. /\ j \in {nextId, nextId + 1, nextId + 2} /\ nextId' = j /\ Shed(L, M)
        /\ new \in {{}, {nextId}, {nextId + 1}} /\ P \in {{}, InRam(dev)}
        /\ P = InRam(dev)
    BY <1>1, <2>1, <2>7
  <2> HIDE DEF d, j, new, P
  <2>10. /\ Kept(dev, power)' = OnFlash(d) /\ dev'.ram = d.ram
         /\ P = InRam(dev) =>
               Moved(Kept(dev, power) \cup InRam(dev), Kept(dev, power), nextId,
                     Kept(dev, power)', InRam(dev)')
    BY <2>4, <2>7, <2>8, <2>9, HandlerStep
  <2>11. StartMoves
    BY <1>1, <1>3, <2>6, <2>10, TwoOnMoves
  <2> QED BY <2>9, <2>10, <2>11
<1>6. CASE Read
  <2>1. PICK F \in FaultSets :
           /\ faults' = faults + Cardinality(F)
           /\ Completed(WriteBufferToFlash(dev, "flush", F).dev)
           /\ nextId' = nextId
    BY <1>6 DEF Read, ReadTo, Failed
  <2>2. F = N
    BY <1>4, <2>1, NoFault
  <2> DEFINE w == WriteBufferToFlash(dev, "flush", N)
             d == w.dev
             new == {}
  <2> HIDE DEF N
  <2>3. /\ Orderly(d, Keys, nextId) /\ d.buf = <<>>
        /\ w.err <=> "flush" \in N
        /\ \E M : /\ Shed(OnFlash(dev), M) /\ OneOn(dev, d, M)
                  /\ OnFlash(d) = M \cup (IF w.err THEN {} ELSE InRam(dev))
    BY <1>0, <1>1, WriteBufferOrderly
  <2> HIDE DEF w
  <2>4. ~w.err /\ InRam(d) = {}
    BY <1>0, <2>3 DEF InRam, BufIds
  <2>5. PICK M : /\ Shed(OnFlash(dev), M) /\ OneOn(dev, d, M)
                 /\ OnFlash(d) = M \cup P
    BY <2>3, <2>4
  <2>6. TwoOn(dev, d)
    BY <2>5 DEF OneOn, TwoOn
  <2>7. Completed(d)
    BY <2>1, <2>2 DEF w
  <2>8. /\ nextId \in {nextId, nextId + 1, nextId + 2} /\ nextId' = nextId
        /\ Shed(L, M) /\ M \subseteq OnFlash(d)
        /\ new \in {{}, {nextId}, {nextId + 1}} /\ P \in {{}, InRam(dev)}
        /\ OnFlash(d) \cup InRam(d) = M \cup P \cup new
        /\ P = InRam(dev)
    BY <1>1, <2>1, <2>4, <2>5
  <2> HIDE DEF d, new, P
  <2>9. /\ Kept(dev, power)' = OnFlash(d) /\ dev'.ram = d.ram
        /\ P = InRam(dev) =>
              Moved(Kept(dev, power) \cup InRam(dev), Kept(dev, power), nextId,
                    Kept(dev, power)', InRam(dev)')
    BY <2>3, <2>7, <2>8, HandlerStep
  <2>10. StartMoves
    BY <1>1, <1>3, <2>6, <2>9, TwoOnMoves
  <2> QED BY <2>8, <2>9, <2>10
<1>7. CASE Clear
  <2>1. PICK F \in FaultSets :
           /\ Completed(ClearFlashData(dev, F)) /\ nextId' = nextId
    BY <1>7 DEF Clear, ClearTo
  <2> DEFINE d == ClearFlashData(dev, F)
  <2>2. "erase" \notin F
    BY DEF FaultSets
  <2>3. /\ Orderly(d, Keys, nextId) /\ OnFlash(d) = {} /\ InRam(d) = {}
    BY <1>1, <1>2, <2>2, ClearOrderly
  <2>4. Completed(d)
    BY <2>1
  <2> HIDE DEF d
  <2> QED BY <2>1, <2>3, <2>4, CompletedRInv
<1>8. CASE Disable
  <2> DEFINE x == [dev EXCEPT !.enabled = FALSE]
  <2>1. power = "on" /\ dev' = x /\ power' = power /\ nextId' = nextId
    BY <1>8 DEF Disable
  <2>2. x.flash = dev.flash /\ x.ram = dev.ram /\ x.buf = dev.buf
    BY DEF IInv, Devices
  <2> HIDE DEF x
  <2>3. Kept(dev, power)' = L /\ InRam(dev)' = P /\ dev'.ram = dev.ram
    BY <2>1, <2>2 DEF Kept, OnFlash, InRam
  <2>4. P \in {{}, InRam(dev)}
    OBVIOUS
  <2>5. Moved(L \cup P, L, nextId, L, P)
    BY <2>4, IdleStep
  <2> QED BY <2>3, <2>5 DEF StartMoves
<1>9. ~Boot /\ ~PowerOff
  BY DEF Boot, BootTo, PowerOff
<1> QED BY <1>5, <1>6, <1>7, <1>8, <1>9 DEF Next

(* Between two resets, and as long as no flash access fails, a message     *)
(* that was stored leaves the log only by CMD_FLASH_CLEAR, or through the  *)
(* old end of a ring that has no free block left; with three blocks or     *)
(* more and no message longer than a page.                                 *)
THEOREM LostOnlyByFault ==
    ASSUME "erase" \notin FaultSites, \A n \in Sizes : n <= PageSize,
           NBlocks >= 3
    PROVE  Spec => LossOnlyByFault
<1> DEFINE Promise ==
      (power = "on" /\ power' = "on" /\ faults' = faults /\ dev.enabled)
          => \/ Abs!Clear
             \/ /\ Abs!Keep
                /\ dev.ram.start = dev'.ram.start =>
                      RetainedIn(dev, power) \subseteq RetainedIn(dev', power')
                /\ dev.ram.start # dev'.ram.start =>
                      dev'.ram.start = NextBlock(dev'.ram.block)
<1>1. IInv /\ RInv => ReaderView
  BY ReaderSees DEF ReaderView
<1>2. IInv' /\ RInv' => ReaderView'
  BY <1>1, PTL
<1>3. IInv /\ RInv /\ IInv' /\ RInv' /\ [Next]_vars => [Promise]_vars
  <2> SUFFICES ASSUME IInv, RInv, IInv', RInv', Next,
                      power = "on", power' = "on", faults' = faults, dev.enabled
               PROVE  Promise
    OBVIOUS
  <2> DEFINE L == RetainedIn(dev, power)
             P == PendingIn(dev)
  <2>1. L = Kept(dev, power) /\ P = InRam(dev)
    BY <1>1 DEF ReaderView
  <2>2. L' = Kept(dev, power)' /\ P' = InRam(dev)'
    BY <1>2 DEF ReaderView
  <2>3. \/ L' = {} /\ P' = {}
        \/ Moved(L \cup P, L, nextId, L', P') /\ StartMoves
    BY <2>1, <2>2, StepKeeps
  <2>4. L' = RetainedIn(dev', power')
    OBVIOUS
  <2>5. Moved(L \cup P, L, nextId, L', P') => Abs!Keep
    BY DEF Moved, Abs!Keep, Abs!Moves, Abs!OldestFirst, Abs!Gone, Abs!Arrivals
  <2>6. L' = {} /\ P' = {} => Abs!Clear
    BY DEF Abs!Clear
  <2>7. StartMoves =>
           /\ dev.ram.start = dev'.ram.start => L \subseteq L'
           /\ dev.ram.start # dev'.ram.start =>
                 dev'.ram.start = NextBlock(dev'.ram.block)
    BY <2>1, <2>2 DEF StartMoves
  <2> QED BY <2>3, <2>4, <2>5, <2>6, <2>7
<1> QED BY <1>3, SpecRInv, PTL DEF Spec, LossOnlyByFault

-----------------------------------------------------------------------------
(* A power cut in the first lap                                            *)

(* With these positions and these cells a reader finds what it finds on d. *)
Covers(p, f, d) ==
    /\ p.start = 0 /\ p.block \in Blocks /\ p.offset \in Nat
    /\ d.ram.block <= p.block
    /\ p.block = d.ram.block => d.ram.offset <= p.offset
    /\ \A o \in Offsets : o < d.ram.offset => f[o] = d.flash[o]

(* The blocks of a log that starts with the first one.                     *)
LEMMA FirstBlocks ==
    ASSUME NEW d, d.ram.start = 0, d.ram.block \in Blocks
    PROVE  LogBlocks(d) = {b \in Blocks : b <= d.ram.block}
<1> DEFINE p == [k \in Keys |-> IF k = "offset" \/ k = "block" THEN d.ram.block
                                ELSE IF k = "left" THEN BlockSize ELSE 0]
           e == [ram |-> p]
<1>1. d.ram.block \in Nat /\ BlockSize \in Nat /\ 0 \in Blocks
  BY BlockArithmetic, GeometryAssumption
<1>2. /\ p.start = 0 /\ p.block = d.ram.block /\ p.offset = d.ram.block
      /\ p.left = BlockSize /\ p \in Positions
  BY <1>1 DEF Keys, Positions
<1> HIDE DEF p
<1>3. Sited(p)
  BY <1>1, <1>2 DEF Sited, Consistent, StartFollows
<1>4. e.ram = p
  OBVIOUS
<1> HIDE DEF e
<1>5. LogBlocks(e) = {b \in Blocks : e.ram.start # 0 \/ b <= e.ram.block}
  BY <1>3, <1>4, LogBlocksAre
<1>6. LogBlocks(e) = LogBlocks(d)
  BY <1>2, <1>4 DEF LogBlocks
<1> QED BY <1>2, <1>4, <1>5, <1>6

(* A walk through a block that reaches further, over the same cells, finds *)
(* the same messages and maybe more.                                       *)
LEMMA FurtherWalk ==
    ASSUME NEW d, NEW s, NEW b \in Nat,
           BlockEnd(d, b) \in Nat, BlockEnd(s, b) \in Nat,
           BlockEnd(d, b) <= BlockEnd(s, b),
           \A o \in Offsets : o \in Nat /\ (o < BlockEnd(d, b) => s.flash[o] = d.flash[o]),
           \A o \in Offsets : d.flash[o][3] \in Nat
    PROVE  CompleteMsgs(d, b) \subseteq CompleteMsgs(s, b)
<1> DEFINE InD == b .. BlockEnd(d, b) - 1
           InS == b .. BlockEnd(s, b) - 1
           HeadD(o) == o \in InD /\ o \in Offsets /\ IsHead(d.flash[o])
           HeadS(o) == o \in InS /\ o \in Offsets /\ IsHead(s.flash[o])
           ClosedD(S) == /\ HeadD(b) => b \in S
                         /\ \A o \in S : LET e == o + d.flash[o][3]
                                         IN  HeadD(e) => e \in S
           ClosedS(S) == /\ HeadS(b) => b \in S
                         /\ \A o \in S : LET e == o + s.flash[o][3]
                                         IN  HeadS(e) => e \in S
<1>1. \A o : HeadD(o) => HeadS(o) /\ s.flash[o] = d.flash[o]
  OBVIOUS
<1>2. MsgStarts(d, b) = {o \in InD : HeadD(o) /\ \A S \in SUBSET {p \in InD : HeadD(p)} :
                                                   ClosedD(S) => o \in S}
  BY DEF MsgStarts
<1>3. MsgStarts(s, b) = {o \in InS : HeadS(o) /\ \A S \in SUBSET {p \in InS : HeadS(p)} :
                                                   ClosedS(S) => o \in S}
  BY DEF MsgStarts
<1>4. \A o : HeadD(o) => o \in InD
  OBVIOUS
<1>5. \A o : HeadS(o) => o \in InS
  OBVIOUS
<1>6. ASSUME NEW o \in MsgStarts(d, b) PROVE o \in MsgStarts(s, b) /\ HeadD(o)
  <2>1. HeadD(o) /\ HeadS(o)
    BY <1>1, <1>2
  <2>2. ASSUME NEW S \in SUBSET {p \in InS : HeadS(p)}, ClosedS(S)
        PROVE  o \in S
    <3> DEFINE T == {p \in S : HeadD(p)}
    <3>1. T \in SUBSET {p \in InD : HeadD(p)}
      BY <1>4
    <3>2. HeadD(b) => b \in T
      BY <1>1, <2>2
    <3>3. ASSUME NEW p \in T, HeadD(p + d.flash[p][3]) PROVE p + d.flash[p][3] \in T
      <4>1. p \in S /\ HeadD(p) /\ s.flash[p] = d.flash[p]
        BY <1>1
      <4>2. HeadS(p + s.flash[p][3])
        BY <1>1, <3>3, <4>1
      <4>3. p + s.flash[p][3] \in S
        BY <2>2, <4>1, <4>2
      <4> QED BY <3>3, <4>1, <4>3
    <3>4. ClosedD(T)
      BY <3>2, <3>3
    <3> HIDE DEF T, ClosedD, HeadD, InD
    <3>5. o \in T
      BY <1>2, <3>1, <3>4
    <3> QED BY <3>5 DEF T
  <2> HIDE DEF InS, InD, HeadS, HeadD, ClosedS, ClosedD
  <2> QED BY <1>3, <1>5, <2>1, <2>2
<1>7. ASSUME NEW o \in CompleteMsgs(d, b) PROVE o \in CompleteMsgs(s, b)
  <2>1. o \in MsgStarts(d, b) /\ o + d.flash[o][3] <= BlockEnd(d, b)
    BY DEF CompleteMsgs
  <2>2. o \in MsgStarts(s, b) /\ HeadD(o)
    BY <1>6, <2>1
  <2>3. o \in Nat /\ d.flash[o][3] \in Nat /\ s.flash[o] = d.flash[o]
    BY <1>1, <2>2
  <2>4. o + s.flash[o][3] <= BlockEnd(s, b)
    <3> DEFINE x == d.flash[o][3]
               y == BlockEnd(d, b)
               z == BlockEnd(s, b)
    <3>1. x \in Nat /\ y \in Nat /\ z \in Nat /\ o + x <= y /\ y <= z
      BY <2>1, <2>3
    <3> HIDE DEF x, y, z
    <3>2. o + x <= z
      BY <2>3, <3>1
    <3> QED BY <2>3, <3>2 DEF x, z
  <2> QED BY <2>2, <2>4 DEF CompleteMsgs
<1> QED BY <1>7

(* After the cut the reader finds at least what it found before.           *)
LEMMA CutReaderFinds ==
    ASSUME NEW d, Sound(d, Keys), d.ram.start = 0,
           NEW img \in Images, Covers(img.nvs, img.flash, d)
    PROVE  RetainedIn(d, "on") \subseteq RetainedIn(PoweredDown(img), "off")
<1> DEFINE e == PoweredDown(img)
           s == SeenOf(e, "off")
<1>1. /\ s.ram = img.nvs /\ s.flash = img.flash /\ e.flash = img.flash
      /\ e.nvs = img.nvs
  BY DEF SeenOf, PoweredDown
<1>2. ~IsFresh(e, "off")
  <2>1. NoNvs.start = -1
    BY DEF NoNvs, Keys, NoVal
  <2>2. img.nvs.start = 0
    BY DEF Covers
  <2> QED BY <1>1, <2>1, <2>2 DEF IsFresh
<1>3. ~IsFresh(d, "on") /\ SeenOf(d, "on") = d
  BY DEF IsFresh, SeenOf
<1>4. /\ s.ram.start = 0 /\ s.ram.block \in Blocks /\ s.ram.offset \in Nat
      /\ d.ram.block <= s.ram.block
      /\ s.ram.block = d.ram.block => d.ram.offset <= s.ram.offset
      /\ \A o \in Offsets : o < d.ram.offset => s.flash[o] = d.flash[o]
  BY <1>1 DEF Covers
<1> HIDE DEF s
<1>5. /\ d.ram.block \in Blocks /\ BlockSize \in Nat
      /\ d.ram.offset \in d.ram.block .. d.ram.block + BlockSize
      /\ d.flash \in Chip
  BY GeometryAssumption DEF Sound, Consistent, Devices
<1>6. \A b \in Blocks : b \in Nat /\ b + BlockSize <= Size
  BY BlockArithmetic
<1>7. \A o \in Offsets : o \in Nat /\ d.flash[o][3] \in Nat
  <2>1. \A o \in Offsets : o \in Nat
    BY BlockArithmetic DEF Offsets
  <2>2. \A o \in Offsets : d.flash[o] \in Cells
    BY <1>5 DEF Chip
  <2>3. \A c \in Cells : c[3] \in Nat
    BY <1>5 DEF Cells
  <2> QED BY <2>1, <2>2, <2>3
<1>8. /\ LogBlocks(d) = {b \in Blocks : b <= d.ram.block}
      /\ LogBlocks(s) = {b \in Blocks : b <= s.ram.block}
  BY <1>4, <1>5, FirstBlocks
<1>9. ASSUME NEW b \in LogBlocks(d)
      PROVE  /\ b \in LogBlocks(s) /\ CompleteMsgs(d, b) \subseteq CompleteMsgs(s, b)
             /\ b \in Nat /\ BlockEnd(d, b) \in Nat /\ BlockEnd(d, b) <= d.ram.offset
  <2> HIDE DEF e
  <2>0. d.ram.block \in Nat /\ s.ram.block \in Nat
    BY <1>4, <1>5, <1>6
  <2>1. b \in Blocks /\ b \in Nat /\ b <= d.ram.block /\ b \in LogBlocks(s)
    <3>1. b \in Blocks /\ b <= d.ram.block
      BY <1>8
    <3>2. b \in Nat
      BY <1>6, <3>1
    <3>3. b <= s.ram.block
      BY <1>4, <2>0, <3>1, <3>2
    <3> QED BY <1>8, <3>1, <3>2, <3>3
  <2>2. /\ BlockEnd(d, b) \in Nat /\ BlockEnd(d, b) <= d.ram.offset
        /\ BlockEnd(d, b) <= b + BlockSize
    <3>1. CASE b = d.ram.block
      BY <1>5, <2>1, <3>1 DEF BlockEnd
    <3>2. CASE b # d.ram.block
      <4>0. b < d.ram.block
        BY <2>0, <2>1, <3>2
      <4>1. b + BlockSize <= d.ram.block
        BY <1>5, <2>1, <4>0, BlocksApart
      <4>2. BlockEnd(d, b) = b + BlockSize
        BY <3>2 DEF BlockEnd
      <4>3. d.ram.block \in Nat /\ d.ram.block <= d.ram.offset /\ d.ram.offset \in Nat
        BY <1>5, <1>6
      <4> QED BY <1>5, <2>1, <4>1, <4>2, <4>3
    <3> QED BY <3>1, <3>2
  <2>3. BlockEnd(s, b) \in Nat /\ BlockEnd(d, b) <= BlockEnd(s, b)
    <3>1. CASE b = s.ram.block
      <4>1. s.ram.block = d.ram.block
        BY <1>4, <2>0, <2>1, <3>1
      <4>2. BlockEnd(s, b) = s.ram.offset /\ d.ram.offset <= s.ram.offset
        BY <1>4, <3>1, <4>1 DEF BlockEnd
      <4>3. d.ram.offset \in Nat
        BY <1>5, <1>6
      <4> QED BY <1>4, <2>2, <4>2, <4>3
    <3>2. CASE b # s.ram.block
      BY <1>5, <2>1, <2>2, <3>2 DEF BlockEnd
    <3> QED BY <3>1, <3>2
  <2>4. \A o \in Offsets : o \in Nat /\ (o < BlockEnd(d, b) => s.flash[o] = d.flash[o])
    BY <1>4, <1>5, <1>6, <1>7, <2>2
  <2>5. CompleteMsgs(d, b) \subseteq CompleteMsgs(s, b)
    BY <1>7, <2>1, <2>2, <2>3, <2>4, FurtherWalk
  <2> QED BY <2>1, <2>2, <2>5
<1>10. \A o \in Starts(d) : o \in Starts(s) /\ s.flash[o] = d.flash[o]
  <2> SUFFICES ASSUME NEW o \in Starts(d)
               PROVE  o \in Starts(s) /\ s.flash[o] = d.flash[o]
    OBVIOUS
  <2>1. PICK b \in LogBlocks(d) : o \in CompleteMsgs(d, b)
    BY DEF Starts
  <2>2. o \in Starts(s)
    BY <1>9, <2>1 DEF Starts
  <2>3. o \in Offsets /\ o \in b .. BlockEnd(d, b) - 1
    BY <2>1 DEF CompleteMsgs, MsgStarts
  <2>4. b \in Nat /\ BlockEnd(d, b) \in Nat /\ BlockEnd(d, b) <= d.ram.offset
    BY <1>9
  <2>5. o < d.ram.offset
    <3>1. o < BlockEnd(d, b) /\ o \in Nat
      BY <2>3, <2>4
    <3>2. d.ram.offset \in Nat
      BY <1>5, <1>6
    <3> QED BY <2>4, <3>1, <3>2
  <2> QED BY <1>4, <2>2, <2>3, <2>5
<1>11. RetainedIn(d, "on") = {d.flash[o][1] : o \in Starts(d)}
  BY <1>3 DEF RetainedIn
<1>12. RetainedIn(e, "off") = {s.flash[o][1] : o \in Starts(s)}
  BY <1>1, <1>2 DEF RetainedIn, s
<1> HIDE DEF e
<1> QED BY <1>10, <1>11, <1>12 DEF e

(* Whichever image a power cut leaves of what x went through, a reader of  *)
(* it finds what it finds on d; and x itself stands past all of it.        *)
Guarded(x, d) == \A img \in x.trail : Covers(img.nvs, img.flash, d)
Safe(x, d)    == Covers(x.ram, x.flash, d) /\ d.ram.offset <= x.ram.offset /\ Guarded(x, d)

(* Saving a position, with the image it leaves.                            *)
LEMMA CutStore ==
    ASSUME NEW d, NEW x \in Devices, x.nvs = x.ram, Guarded(x, d),
           NEW k \in Keys, NEW v \in Nat,
           Covers([x.ram EXCEPT ![k] = v], x.flash, d)
    PROVE  LET s == Store(x, k, v)
           IN  /\ s \in Devices /\ s.nvs = s.ram /\ Guarded(s, d)
               /\ s.ram = [x.ram EXCEPT ![k] = v] /\ s.flash = x.flash
               /\ Covers(s.ram, s.flash, d)
<1> DEFINE n == [x.nvs EXCEPT ![k] = v]
           i == [nvs |-> n, flash |-> x.flash]
           s == Store(x, k, v)
<1>1. s \in Devices /\ s.ram = [x.ram EXCEPT ![k] = v] /\ s.nvs = n /\ s.flash = x.flash
  BY StoreLemma
<1>2. n = [x.ram EXCEPT ![k] = v] /\ i.nvs = n /\ i.flash = x.flash
  OBVIOUS
<1>3. s.trail = x.trail \cup {i}
  <2> HIDE DEF n, i
  <2>1. s = [x EXCEPT !.ram[k] = v, !.nvs = n, !.trail = @ \cup {i}]
    BY DEF Store, n, i
  <2> QED BY <2>1 DEF Devices
<1> HIDE DEF n, i, s
<1>4. Guarded(s, d)
  BY <1>2, <1>3 DEF Guarded
<1> QED BY <1>1, <1>2, <1>4 DEF s

(* Erasing a block past what a reader of d finds.                          *)
LEMMA CutErase ==
    ASSUME NEW d, d.ram.offset \in Nat, NEW x \in Devices, x.nvs = x.ram,
           Guarded(x, d), Covers(x.ram, x.flash, d),
           NEW o \in Nat, d.ram.offset <= o, NEW fail
    PROVE  LET e == EraseBlock(x, o, fail)
           IN  /\ e \in Devices /\ e.nvs = e.ram /\ e.ram = x.ram
               /\ Guarded(e, d) /\ Covers(e.ram, e.flash, d)
<1> DEFINE f == [p \in Offsets |-> IF o <= p /\ p < o + BlockSize
                                   THEN Erased ELSE x.flash[p]]
           i == [nvs |-> x.nvs, flash |-> f]
           e == EraseBlock(x, o, fail)
<1>1. e \in Devices /\ e.ram = x.ram /\ e.nvs = x.nvs
  BY EraseLemma
<1>2. \A p \in Offsets : p \in Nat
  BY BlockArithmetic DEF Offsets
<1>3. \A p \in Offsets : p < d.ram.offset => f[p] = x.flash[p]
  BY <1>2
<1> HIDE DEF f
<1>4. Covers(x.ram, f, d)
  BY <1>3 DEF Covers
<1>5. i.nvs = x.ram /\ i.flash = f
  OBVIOUS
<1> HIDE DEF i
<1>6. CASE e = x
  BY <1>6
<1>7. CASE e = [x EXCEPT !.flash = f, !.trail = @ \cup {i}]
  <2>1. e.flash = f /\ e.trail = x.trail \cup {i}
    BY <1>7 DEF Devices
  <2> HIDE DEF e
  <2>2. Guarded(e, d)
    BY <1>4, <1>5, <2>1 DEF Guarded
  <2> QED BY <1>1, <1>4, <2>1, <2>2 DEF e
<1>8. e = x \/ e = [x EXCEPT !.flash = f, !.trail = @ \cup {i}]
  BY DEF EraseBlock, f, i
<1> QED BY <1>6, <1>7, <1>8

(* The cells below the place of a write are left alone.                    *)
LEMMA ProgrammedBelow ==
    ASSUME NEW f, NEW o \in Nat, NEW cells
    PROVE  \A p \in Offsets : p < o => Programmed(f, o, cells)[p] = f[p]
<1>1. \A p \in Offsets : p \in Nat
  BY BlockArithmetic DEF Offsets
<1> QED BY <1>1 DEF Programmed

(* Writing past what a reader of d finds, or a prefix of it.               *)
LEMMA CutWrite ==
    ASSUME NEW d, d.ram.offset \in Nat, NEW x \in Devices, x.nvs = x.ram,
           Guarded(x, d), Covers(x.ram, x.flash, d),
           NEW o \in Nat, d.ram.offset <= o, NEW cells \in Seq(Cells)
    PROVE  LET w == WriteCells(x, o, cells)
           IN  /\ w \in Devices /\ w.nvs = w.ram /\ w.ram = x.ram
               /\ Guarded(w, d) /\ Covers(w.ram, w.flash, d)
<1> DEFINE T == {[nvs |-> x.nvs, flash |-> Programmed(x.flash, o, SubSeq(cells, 1, i))]
                    : i \in 0 .. Len(cells)}
           w == WriteCells(x, o, cells)
<1>1. w \in Devices /\ w.ram = x.ram /\ w.nvs = x.nvs
  BY WriteCellsLemma
<1>2. ASSUME NEW c PROVE Covers(x.ram, Programmed(x.flash, o, c), d)
  <2> DEFINE f == Programmed(x.flash, o, c)
  <2>1. \A p \in Offsets : p < o => f[p] = x.flash[p]
    BY ProgrammedBelow
  <2>2. \A p \in Offsets : p \in Nat
    BY BlockArithmetic DEF Offsets
  <2> HIDE DEF f
  <2>3. \A p \in Offsets : p < d.ram.offset => f[p] = x.flash[p]
    BY <2>1, <2>2
  <2>4. Covers(x.ram, f, d)
    BY <2>3 DEF Covers
  <2> QED BY <2>4 DEF f
<1>3. \A img \in T : Covers(img.nvs, img.flash, d)
  <2> SUFFICES ASSUME NEW img \in T PROVE Covers(img.nvs, img.flash, d)
    OBVIOUS
  <2>1. PICK i \in 0 .. Len(cells) :
           img = [nvs |-> x.nvs, flash |-> Programmed(x.flash, o, SubSeq(cells, 1, i))]
    OBVIOUS
  <2>2. img.nvs = x.ram /\ img.flash = Programmed(x.flash, o, SubSeq(cells, 1, i))
    BY <2>1
  <2> QED BY <1>2, <2>2
<1>4. w.flash = Programmed(x.flash, o, cells)
  BY WriteCellsLemma
<1>5. Covers(w.ram, w.flash, d)
  BY <1>1, <1>2, <1>4
<1>6. w.trail = x.trail \cup T
  <2> HIDE DEF T
  <2>1. w = [x EXCEPT !.flash = Programmed(x.flash, o, cells), !.trail = @ \cup T]
    BY DEF WriteCells, T
  <2> QED BY <2>1 DEF Devices
<1> HIDE DEF T, w
<1>7. Guarded(w, d)
  BY <1>3, <1>6 DEF Guarded
<1> QED BY <1>1, <1>5, <1>7 DEF w

(* A sound device has the same positions in RAM and in NVS.                *)
LEMMA SoundAgrees ==
    ASSUME NEW x, Sound(x, Keys)
    PROVE  x \in Devices /\ x.nvs = x.ram /\ x.ram \in Positions
BY DEF Sound, Agree, Devices, Positions, Records

(* The next block of the first lap.                                        *)
LEMMA CutGoTo ==
    ASSUME NEW d, Sound(d, Keys), NEW x, Sound(x, Keys), Safe(x, d),
           x.ram.block = d.ram.block, d.ram.block + BlockSize < Size, NEW F
    PROVE  Safe(GoToNextBlock(x, F), d)
<1> DEFINE g == GoToNextBlock(x, F)
           next == x.ram.block + BlockSize
           fail == "erase" \in F
<1>0. /\ "offset" \in Keys /\ "start" \in Keys /\ "block" \in Keys /\ "left" \in Keys
  BY DEF Keys
<1>1. x \in Devices /\ x.nvs = x.ram /\ x.ram \in Positions
  BY SoundAgrees
<1>2. /\ d.ram.block \in Blocks /\ BlockSize \in Nat /\ BlockSize > 0 /\ Size \in Nat
      /\ d.ram.offset \in d.ram.block .. d.ram.block + BlockSize
      /\ x.ram.block \in Blocks /\ x.ram.left = x.ram.block + BlockSize - x.ram.offset
      /\ x.ram.offset \in x.ram.block .. x.ram.block + BlockSize
  BY BlockArithmetic, GeometryAssumption DEF Sound, Consistent
<1>3. x.ram.block \in Nat /\ d.ram.offset \in Nat /\ x.ram.offset \in Nat
  BY <1>2, BlockArithmetic
<1>4. /\ next \in Blocks /\ next \in Nat /\ next # 0 /\ next > d.ram.block
      /\ d.ram.offset <= next
  <2>1. next \in Blocks
    BY <1>2, BlockArithmetic
  <2> QED BY <1>2, <1>3, <2>1
<1>5. EndOfBlock(x) = next
  BY <1>2, <1>3 DEF EndOfBlock
<1>6. x.ram.start = 0 /\ Covers(x.ram, x.flash, d) /\ Guarded(x, d)
  BY DEF Safe, Covers
<1> HIDE DEF next
<1>7. CASE ~x.enabled
  BY <1>7 DEF GoToNextBlock
<1>8. CASE x.enabled
  <2> DEFINE a == Store(x, "offset", next)
             b == Store(a, "block", next)
             c == MoveStart(b, next)
             e == EraseBlock(c, next, fail)
             h == Store(e, "left", BlockSize)
  <2>1. g = h
    BY <1>5, <1>8 DEF GoToNextBlock, EnterBlock
  <2>2. Covers([x.ram EXCEPT !["offset"] = next], x.flash, d)
    BY <1>0, <1>1, <1>4, <1>6 DEF Covers, Positions, Keys
  <2>3. /\ a \in Devices /\ a.nvs = a.ram /\ Guarded(a, d)
        /\ a.ram = [x.ram EXCEPT !["offset"] = next] /\ a.flash = x.flash
        /\ Covers(a.ram, a.flash, d)
    BY <1>0, <1>1, <1>4, <1>6, <2>2, CutStore
  <2> HIDE DEF a
  <2>4. a.ram \in Positions /\ a.ram.offset = next /\ a.ram.start = 0
    BY <1>0, <1>1, <1>6, <2>3 DEF Devices, Positions, Keys
  <2>5. Covers([a.ram EXCEPT !["block"] = next], a.flash, d)
    BY <1>0, <1>2, <1>3, <1>4, <2>3, <2>4 DEF Covers, Positions, Keys
  <2>6. /\ b \in Devices /\ b.nvs = b.ram /\ Guarded(b, d)
        /\ b.ram = [a.ram EXCEPT !["block"] = next] /\ b.flash = a.flash
        /\ Covers(b.ram, b.flash, d)
    BY <1>0, <1>4, <2>3, <2>5, CutStore
  <2> HIDE DEF b
  <2>7. b.ram \in Positions /\ b.ram.offset = next /\ b.ram.start = 0
    BY <1>0, <2>4, <2>6 DEF Devices, Positions, Keys
  <2>8. c = b
    BY <1>4, <2>7 DEF MoveStart
  <2> HIDE DEF c
  <2>9. /\ e \in Devices /\ e.nvs = e.ram /\ e.ram = b.ram
        /\ Guarded(e, d) /\ Covers(e.ram, e.flash, d)
    <3> HIDE DEF fail
    <3> QED BY <1>3, <1>4, <2>6, <2>8, CutErase
  <2> HIDE DEF e
  <2>10. Covers([e.ram EXCEPT !["left"] = BlockSize], e.flash, d)
    BY <1>0, <2>7, <2>9 DEF Covers, Positions, Keys
  <2>11. /\ Guarded(h, d) /\ h.ram = [e.ram EXCEPT !["left"] = BlockSize]
         /\ Covers(h.ram, h.flash, d)
    BY <1>0, <1>2, <2>9, <2>10, CutStore
  <2> HIDE DEF h
  <2>12. h.ram.offset = next
    BY <1>0, <2>7, <2>9, <2>11 DEF Positions, Keys
  <2> QED BY <1>4, <2>1, <2>11, <2>12 DEF Safe
<1> QED BY <1>7, <1>8

(* Advancing the write position only ever adds to what a reader finds.     *)
LEMMA CutAdvance ==
    ASSUME NEW d, d.ram.offset \in Nat, NEW x \in Devices, x.nvs = x.ram, Safe(x, d),
           NEW n \in Nat, n <= x.ram.left
    PROVE  Safe(Advance(x, n), d)
<1> DEFINE o == x.ram.offset + n
           l == x.ram.left - n
           m == x.ram.count + x.nbuf
           a == Store(x, "offset", o)
           b == Store(a, "left", l)
           c == Store(b, "count", m)
<1>0. "offset" \in Keys /\ "left" \in Keys /\ "count" \in Keys
  BY DEF Keys
<1>1. /\ o \in Nat /\ l \in Nat /\ m \in Nat /\ x.ram \in Positions /\ d.ram.offset <= o
      /\ x.ram.offset \in Nat /\ x.ram.offset <= o
  BY <1>0 DEF Devices, Positions, Safe
<1>2. Advance(x, n) = c
  BY DEF Advance
<1> HIDE DEF o, l, m
<1>3. Covers([x.ram EXCEPT !["offset"] = o], x.flash, d)
  BY <1>0, <1>1 DEF Safe, Covers, Positions, Keys
<1>4. /\ a \in Devices /\ a.nvs = a.ram /\ Guarded(a, d)
      /\ a.ram = [x.ram EXCEPT !["offset"] = o] /\ a.flash = x.flash
      /\ Covers(a.ram, a.flash, d)
  <2>1. Guarded(x, d)
    BY DEF Safe
  <2> QED BY <1>0, <1>1, <1>3, <2>1, CutStore
<1> HIDE DEF a
<1>5. a.ram \in Positions /\ a.ram.offset = o
  BY <1>0, <1>1, <1>4 DEF Devices, Positions, Keys
<1>6. Covers([a.ram EXCEPT !["left"] = l], a.flash, d)
  BY <1>0, <1>4, <1>5 DEF Covers, Positions, Keys
<1>7. /\ b \in Devices /\ b.nvs = b.ram /\ Guarded(b, d)
      /\ b.ram = [a.ram EXCEPT !["left"] = l] /\ b.flash = a.flash
      /\ Covers(b.ram, b.flash, d)
  BY <1>0, <1>1, <1>4, <1>6, CutStore
<1> HIDE DEF b
<1>8. b.ram \in Positions /\ b.ram.offset = o
  BY <1>0, <1>5, <1>7 DEF Devices, Positions, Keys
<1>9. Covers([b.ram EXCEPT !["count"] = m], b.flash, d)
  BY <1>0, <1>7, <1>8 DEF Covers, Positions, Keys
<1>10. /\ Guarded(c, d) /\ c.ram = [b.ram EXCEPT !["count"] = m]
       /\ Covers(c.ram, c.flash, d)
  BY <1>0, <1>1, <1>7, <1>9, CutStore
<1> HIDE DEF c
<1>11. c.ram.offset = o
  BY <1>0, <1>8, <1>10 DEF Positions, Keys
<1> QED BY <1>1, <1>2, <1>10, <1>11 DEF Safe

(* A device that differs in its buffer only.                               *)
LEMMA CutBuffer ==
    ASSUME NEW d, NEW x \in Devices, Safe(x, d), NEW u, NEW n
    PROVE  Safe([x EXCEPT !.buf = u, !.nbuf = n], d)
<1> DEFINE y == [x EXCEPT !.buf = u, !.nbuf = n]
<1>1. y.ram = x.ram /\ y.flash = x.flash /\ y.trail = x.trail
  BY DEF Devices
<1> HIDE DEF y
<1>2. Safe(y, d)
  BY <1>1 DEF Safe, Guarded
<1> QED BY <1>2 DEF y

(* What the buffer holds fits in the rest of the block.                    *)
Fits(x) == Len(x.buf) <= x.ram.left

(* Writing out a buffer that fits does not leave the block.                *)
LEMMA CutWriteBuffer ==
    ASSUME NEW d, d.ram.offset \in Nat, NEW x, Sound(x, Keys), Fits(x), Safe(x, d),
           NEW site, NEW F
    PROVE  Safe(WriteBufferToFlash(x, site, F).dev, d)
<1> DEFINE works == site \notin F
           o == x.ram.offset
           w == WriteCells(x, o, x.buf)
           n == Len(x.buf)
           y == Advance(w, n)
           ok == works /\ o + n <= Size
           z == IF ok THEN y ELSE x
<1>1. x \in Devices /\ x.nvs = x.ram /\ x.ram \in Positions
  BY SoundAgrees
<1>2. o \in Nat /\ x.buf \in Seq(Cells) /\ n \in Nat /\ n <= x.ram.left /\ x.ram.left \in Nat
  BY <1>1 DEF Devices, Positions, Keys, Fits
<1>3. CASE ~x.enabled
  BY <1>3 DEF WriteBufferToFlash
<1>4. CASE x.enabled
  <2>1. WriteBufferToFlash(x, site, F).dev = NoBuffer(z)
    BY <1>2, <1>4 DEF WriteBufferToFlash, WriteOut
  <2>2. /\ w \in Devices /\ w.nvs = w.ram /\ w.ram = x.ram
        /\ Guarded(w, d) /\ Covers(w.ram, w.flash, d)
    <3> HIDE DEF o
    <3>1. Guarded(x, d) /\ Covers(x.ram, x.flash, d) /\ d.ram.offset <= o
      BY DEF Safe, o
    <3> QED BY <1>1, <1>2, <3>1, CutWrite
  <2>3. Safe(w, d) /\ n <= w.ram.left
    BY <1>2, <2>2 DEF Safe
  <2>4. y \in Devices
    <3>1. Sound(w, Keys)
      <4>1. w.buf = x.buf
        <5> HIDE DEF o
        <5> QED BY <1>1, <1>2, WriteCellsLemma
      <4> HIDE DEF w
      <4> QED BY <2>2, <4>1 DEF Sound, Agree
    <3> HIDE DEF w, n
    <3>2. Sound(y, Keys)
      BY <1>2, <2>3, <3>1, AdvanceLemma
    <3> QED BY <3>2 DEF Sound
  <2>5. Safe(y, d)
    <3> HIDE DEF w, n
    <3> QED BY <1>2, <2>2, <2>3, CutAdvance
  <2> HIDE DEF y, ok
  <2>6. z \in Devices /\ Safe(z, d)
    BY <1>1, <2>4, <2>5
  <2> HIDE DEF z
  <2>7. Safe(NoBuffer(z), d)
    BY <2>6, CutBuffer DEF NoBuffer
  <2> QED BY <2>1, <2>7
<1> QED BY <1>3, <1>4

(* A buffer that fits is written where the device stands, or refused.      *)
LEMMA FitsWrite ==
    ASSUME NEW x, Sound(x, Keys), Fits(x), x.enabled, NEW site, NEW F
    PROVE  LET w == WriteBufferToFlash(x, site, F)
           IN  /\ Sound(w.dev, Keys) /\ w.dev.buf = <<>> /\ w.dev.enabled
               /\ w.err <=> site \in F
               /\ ~w.err => /\ w.dev.ram.left = x.ram.left - Len(x.buf)
                            /\ w.dev.ram.block = x.ram.block
<1> DEFINE works == site \notin F
<1>1. Len(x.buf) \in Nat /\ x.ram.left \in Nat
  BY DEF Sound, Devices, Positions, Keys
<1>2. WriteBufferToFlash(x, site, F) = WriteOut(x, works)
  BY <1>1 DEF WriteBufferToFlash, Fits
<1>3. Keys \in SUBSET Keys /\ Len(x.buf) <= x.ram.left
  BY DEF Fits
<1>4. LET w == WriteBufferToFlash(x, site, F)
      IN  Sound(w.dev, Keys) /\ w.dev.buf = <<>> /\ w.dev.enabled
  BY <1>3, WriteBufferLemma
<1> HIDE DEF works
<1>5. LET w == WriteOut(x, works)
      IN  /\ w.err <=> ~works
          /\ works => /\ w.dev.ram.block = x.ram.block
                      /\ w.dev.ram.left = x.ram.left - Len(x.buf)
  BY <1>3, WriteOutClean
<1> QED BY <1>2, <1>4, <1>5 DEF works

(* An empty buffer fits.                                                   *)
LEMMA EmptyFits ==
    ASSUME NEW x, Sound(x, Keys), x.buf = <<>>
    PROVE  Fits(x)
<1>1. x.ram.left \in Nat
  BY DEF Sound, Devices, Positions, Keys
<1>2. Len(x.buf) = 0
  OBVIOUS
<1> QED BY <1>1, <1>2 DEF Fits

(* Whatever is in the buffer fits in a new block.                          *)
LEMMA FitsGoTo ==
    ASSUME NEW x, Sound(x, Keys), Fits(x), NEW F
    PROVE  Fits(GoToNextBlock(x, F))
<1> DEFINE g == GoToNextBlock(x, F)
<1>1. g.buf = x.buf /\ (x.enabled => g.ram.left = BlockSize)
  BY GoToNextLemma
<1>2. ~x.enabled => g = x
  BY DEF GoToNextBlock
<1> HIDE DEF g
<1>3. Len(x.buf) \in Nat /\ Len(x.buf) <= PageSize
  BY DEF Sound, Devices
<1>4. PageSize \in Nat /\ BlockSize \in Nat /\ PageSize <= BlockSize
  BY GeometryAssumption
<1>5. x.enabled => Fits(g)
  BY <1>1, <1>3, <1>4 DEF Fits
<1> QED BY <1>2, <1>5 DEF g

(* What a handler in the first lap starts from.                            *)
FirstLap(x, d) ==
    /\ Sound(d, Keys) /\ Safe(x, d) /\ x.ram.block = d.ram.block
    /\ d.ram.block + BlockSize < Size

(* The write position of a sound device.                                   *)
LEMMA BaseOffset ==
    ASSUME NEW d, Sound(d, Keys)
    PROVE  d.ram.offset \in Nat
BY DEF Sound, Devices, Positions, Keys

(* As long as the write that makes room is not refused, the message fits   *)
(* behind what is in the buffer: the block is left at most once.           *)
LEMMA CutMakeRoom ==
    ASSUME NEW x, Sound(x, Keys), Fits(x), x.enabled,
           NEW n \in Nat, n <= BlockSize, NEW F, "write1" \notin F
    PROVE  LET r == MakeRoom(x, n, F)
           IN  /\ Len(r.buf) + n <= r.ram.left
               /\ \A d : FirstLap(x, d) => Safe(r, d)
<1> DEFINE w == WriteBufferToFlash(x, "write1", F)
           wd == w.dev
           g == GoToNextBlock(wd, F)
           r == MakeRoom(x, n, F)
<1>1. /\ Sound(wd, Keys) /\ wd.buf = <<>> /\ wd.enabled /\ ~w.err
      /\ wd.ram.left = x.ram.left - Len(x.buf) /\ wd.ram.block = x.ram.block
  BY FitsWrite
<1>2. \A d : FirstLap(x, d) => Safe(wd, d)
  <2> SUFFICES ASSUME NEW d, FirstLap(x, d) PROVE Safe(wd, d)
    OBVIOUS
  <2>1. Safe(x, d) /\ d.ram.offset \in Nat
    BY BaseOffset DEF FirstLap
  <2> QED BY <2>1, CutWriteBuffer
<1>3. r = IF Len(x.buf) + n > x.ram.left THEN g
          ELSE IF Len(x.buf) + n > PageSize THEN wd ELSE x
  BY <1>1 DEF MakeRoom, LeaveBlock
<1> HIDE DEF w, wd
<1>4. g.ram.left = BlockSize /\ g.buf = <<>>
  <2>1. Keys \in SUBSET Keys
    OBVIOUS
  <2>2. Sound(wd, Keys)
    BY <1>1
  <2> HIDE DEF r
  <2>3. g.buf = wd.buf /\ (wd.enabled => g.ram.left = BlockSize)
    BY <2>1, <2>2, GoToNextLemma
  <2> QED BY <1>1, <2>3
<1>5. \A d : FirstLap(x, d) => Safe(g, d)
  <2> SUFFICES ASSUME NEW d, FirstLap(x, d) PROVE Safe(g, d)
    OBVIOUS
  <2>1. Sound(d, Keys) /\ Safe(wd, d) /\ wd.ram.block = d.ram.block
        /\ d.ram.block + BlockSize < Size
    BY <1>1, <1>2 DEF FirstLap
  <2> QED BY <1>1, <2>1, CutGoTo
<1> HIDE DEF g
<1>6. \A d : FirstLap(x, d) => Safe(x, d)
  BY DEF FirstLap
<1>7. Len(x.buf) \in Nat /\ x.ram.left \in Nat /\ PageSize \in Nat /\ BlockSize \in Nat
  BY GeometryAssumption DEF Sound, Devices, Positions, Keys
<1>8. Len(<<>>) = 0
  OBVIOUS
<1>9. CASE Len(x.buf) + n > x.ram.left
  BY <1>3, <1>4, <1>5, <1>7, <1>8, <1>9
<1>10. CASE ~(Len(x.buf) + n > x.ram.left) /\ Len(x.buf) + n > PageSize
  <2>1. r = wd
    BY <1>3, <1>10
  <2>2. Len(wd.buf) + n <= wd.ram.left
    BY <1>1, <1>7, <1>8, <1>10
  <2> QED BY <1>2, <2>1, <2>2
<1>11. CASE ~(Len(x.buf) + n > x.ram.left) /\ ~(Len(x.buf) + n > PageSize)
  <2>1. r = x
    BY <1>3, <1>11
  <2> QED BY <1>6, <1>7, <1>11, <2>1
<1> QED BY <1>9, <1>10, <1>11

(* Storing a message in the first lap, and that the buffer fits after it.  *)
LEMMA CutStoreMessage ==
    ASSUME NEW x, Sound(x, Keys), Fits(x), Len(x.buf) < PageSize,
           NEW id \in 0 .. MaxMsgs + 1,
           NEW n \in Nat, n <= BlockSize, n < 2 * PageSize,
           NEW F, "write1" \notin F
    PROVE  LET m == StoreMessage(x, id, n, F)
           IN  /\ Fits(m.dev)
               /\ \A d : FirstLap(x, d) => Safe(m.dev, d)
<1> DEFINE r   == MakeRoom(x, n, F)
           all == r.buf \o MsgCells(id, n)
           hd  == SubSeq(all, 1, PageSize)
           tl  == SubSeq(all, PageSize + 1, Len(all))
           p   == [r EXCEPT !.buf = hd]
           w   == WriteBufferToFlash(p, "write2", F)
           wd  == w.dev
           y   == [r EXCEPT !.buf = all, !.nbuf = r.nbuf + 1]
           z   == [wd EXCEPT !.buf = tl, !.nbuf = wd.nbuf + 1]
<1>0. PageSize \in Nat /\ PageSize >= 2
  BY GeometryAssumption
<1>1. StoreMessage(x, id, n, F).dev =
        IF ~x.enabled THEN x
        ELSE IF Len(all) < PageSize THEN y
        ELSE IF w.err THEN wd ELSE z
  BY DEF StoreMessage, AddMessage, AddCells, KeepRest, Buffered
<1>2. CASE ~x.enabled
  BY <1>1, <1>2 DEF FirstLap
<1>3. CASE x.enabled
  <2>1. /\ Len(r.buf) + n <= r.ram.left
        /\ \A d : FirstLap(x, d) => Safe(r, d)
    BY <1>3, CutMakeRoom
  <2>2. Sound(r, Keys) /\ r.enabled
    BY <1>3, MakeRoomLemma
  <2>3. MsgCells(id, n) \in Seq(Cells) /\ Len(MsgCells(id, n)) = n
    BY MsgCellsType
  <2> HIDE DEF r
  <2>4. r \in Devices /\ r.buf \in Seq(Cells) /\ r.nbuf \in Nat /\ r.ram.left \in Nat
    BY <2>2 DEF Sound, Devices, Positions, Keys
  <2>5. all \in Seq(Cells) /\ Len(all) = Len(r.buf) + n /\ Len(all) <= r.ram.left
    BY <2>1, <2>3, <2>4
  <2> HIDE DEF all
  <2>6. CASE Len(all) < PageSize
    <3>1. y.buf = all /\ y.ram = r.ram
      BY <2>4 DEF Devices
    <3>2. \A d : FirstLap(x, d) => Safe(y, d)
      BY <2>1, <2>4, CutBuffer
    <3>3. Fits(y)
      BY <2>5, <3>1 DEF Fits
    <3> QED BY <1>1, <1>3, <2>6, <3>2, <3>3
  <2>7. CASE ~(Len(all) < PageSize)
    <3>1. hd \in Seq(Cells) /\ Len(hd) = PageSize
      BY <1>0, <2>5, <2>7
    <3>2. tl \in Seq(Cells) /\ Len(tl) = Len(all) - PageSize
      BY <1>0, <2>5, <2>7
    <3> HIDE DEF hd, tl
    <3>3. p = [r EXCEPT !.buf = hd, !.nbuf = r.nbuf]
      BY <2>4 DEF Devices
    <3>4. p.buf = hd /\ p.ram = r.ram /\ p.enabled = r.enabled
      BY <2>4 DEF Devices
    <3>5. Sound(p, Keys)
      <4>1. Sound([r EXCEPT !.buf = hd, !.nbuf = r.nbuf], Keys)
        <5>1. Len(hd) <= PageSize
          BY <1>0, <3>1
        <5> QED BY <2>2, <2>4, <3>1, <5>1, BufferLemma
      <4> QED BY <3>3, <4>1
    <3>6. \A d : FirstLap(x, d) => Safe(p, d)
      BY <2>1, <2>4, <3>3, CutBuffer
    <3>7. Fits(p)
      BY <1>0, <2>4, <2>5, <2>7, <3>1, <3>4 DEF Fits
    <3> HIDE DEF p
    <3>8. /\ Sound(wd, Keys) /\ wd.buf = <<>>
          /\ ~w.err => wd.ram.left = p.ram.left - Len(p.buf)
      BY <2>2, <3>4, <3>5, <3>7, FitsWrite
    <3>9. \A d : FirstLap(x, d) => Safe(wd, d)
      <4> SUFFICES ASSUME NEW d, FirstLap(x, d) PROVE Safe(wd, d)
        OBVIOUS
      <4>1. Safe(p, d) /\ d.ram.offset \in Nat
        BY <3>6, BaseOffset DEF FirstLap
      <4> QED BY <3>5, <3>7, <4>1, CutWriteBuffer
    <3> HIDE DEF w, wd
    <3>10. wd \in Devices
      BY <3>8 DEF Sound
    <3>11. z.buf = tl /\ z.ram = wd.ram
      BY <3>10 DEF Devices
    <3>12. \A d : FirstLap(x, d) => Safe(z, d)
      BY <3>9, <3>10, CutBuffer
    <3>13. ASSUME ~w.err PROVE Fits(z)
      <4> HIDE DEF z
      <4>1. z.ram.left = r.ram.left - PageSize
        BY <3>1, <3>4, <3>8, <3>11, <3>13
      <4>2. Len(z.buf) = Len(all) - PageSize
        BY <3>2, <3>11
      <4>3. Len(all) \in Nat
        BY <2>5
      <4> QED BY <1>0, <2>4, <2>5, <4>1, <4>2, <4>3 DEF Fits
    <3>14. Fits(wd)
      BY <3>8, EmptyFits
    <3> HIDE DEF z
    <3> QED BY <1>1, <1>3, <2>7, <3>9, <3>12, <3>13, <3>14
  <2> QED BY <2>6, <2>7
<1> QED BY <1>2, <1>3

(* The buffer fits after it was written out or the write refused, ...      *)
LEMMA FitsFlush ==
    ASSUME NEW x, Sound(x, Keys), Fits(x), NEW site, NEW F
    PROVE  Fits(WriteBufferToFlash(x, site, F).dev)
<1> DEFINE y == WriteBufferToFlash(x, site, F).dev
<1>1. ~x.enabled => y = x
  BY DEF WriteBufferToFlash
<1>2. x.enabled => Sound(y, Keys) /\ y.buf = <<>>
  BY FitsWrite
<1> HIDE DEF y
<1>3. Fits(y)
  BY <1>1, <1>2, EmptyFits
<1> QED BY <1>3 DEF y

(* ... after the test of the flash at boot, ...                            *)
LEMMA FitsTest ==
    ASSUME NEW x, Sound(x, Keys), Fits(x), Len(x.buf) < PageSize,
           NEW id \in 0 .. MaxMsgs + 1, NEW F, "write1" \notin F
    PROVE  Fits(TestFlash(x, id, F).dev)
<1> DEFINE s == StoreMessage(x, id, TestSize, F)
           sd == s.dev
           y == WriteBufferToFlash(sd, "flush", F).dev
<1>1. TestSize \in Nat /\ TestSize <= BlockSize /\ TestSize < 2 * PageSize
  BY GeometryAssumption
<1>2. Sound(sd, Keys)
  BY <1>1, StoreMessageLemma
<1>3. Fits(sd)
  BY <1>1, CutStoreMessage
<1>4. TestFlash(x, id, F).dev = IF s.err THEN sd ELSE y
  BY DEF TestFlash, FlushAndCompare, Compared
<1> HIDE DEF s, sd
<1>5. Fits(y)
  BY <1>2, <1>3, FitsFlush
<1> QED BY <1>3, <1>4, <1>5

(* ... after both attempts of a boot, ...                                  *)
LEMMA FitsInit ==
    ASSUME NEW d \in Devices, d.ram = NoRam, d.buf = <<>>, Loadable(d.nvs),
           NEW id \in 0 .. MaxMsgs, NEW F, NEW G, "write1" \notin F, "write1" \notin G
    PROVE  Fits(InitFlash(d, id, F, G))
<1> DEFINE p == LoadPositions(d, F)
           t == TestFlash(p, id, F)
           td == t.dev
           g == GoToNextBlock(td, G)
           k == id + 1
           u == TestFlash(g, k, G)
           ud == u.dev
           v == ud.enabled /\ ~u.err
           x == [ud EXCEPT !.enabled = v]
<1>0. Keys \in SUBSET Keys /\ id \in 0 .. MaxMsgs + 1 /\ k \in 0 .. MaxMsgs + 1
  BY BoundsAssumption
<1> HIDE DEF k
<1>1. Sound(p, Keys) /\ p.buf = <<>>
  BY LoadPositionsLemma
<1> HIDE DEF p
<1>2. Fits(p) /\ Len(p.buf) < PageSize
  BY <1>1, EmptyFits, GeometryAssumption
<1>3. Sound(td, Keys) /\ Len(td.buf) < PageSize
  BY <1>0, <1>1, <1>2, TestFlashLemma
<1>4. Fits(td)
  BY <1>0, <1>1, <1>2, FitsTest
<1> HIDE DEF td
<1>5. Sound(g, Keys) /\ g.buf = td.buf
  BY <1>0, <1>3, GoToNextLemma
<1>6. Fits(g)
  BY <1>3, <1>4, FitsGoTo
<1> HIDE DEF g
<1>7. Sound(ud, Keys)
  BY <1>0, <1>3, <1>5, TestFlashLemma
<1>8. Fits(ud)
  BY <1>0, <1>3, <1>5, <1>6, FitsTest
<1> HIDE DEF ud, v
<1>9. x.buf = ud.buf /\ x.ram = ud.ram
  BY <1>7 DEF Sound, Devices
<1> HIDE DEF x
<1>10. Fits(x)
  BY <1>8, <1>9 DEF Fits
<1>11. InitFlash(d, id, F, G) = IF ~t.err THEN td ELSE x
  BY DEF InitFlash, Retry, DisabledOnError, x, v, ud, u, g, td, t, p, k
<1> HIDE DEF t
<1> QED BY <1>4, <1>10, <1>11

(* ... after a clear, ...                                                  *)
LEMMA FitsClear ==
    ASSUME NEW x, Sound(x, Keys), Fits(x), Len(x.buf) < PageSize, NEW F
    PROVE  Fits(ClearFlashData(x, F))
<1> DEFINE c == ClearFlashData(x, F)
<1>1. Sound(c, Keys) /\ (x.enabled => c.buf = <<>>) /\ (~x.enabled => c = x)
  BY ClearLemma
<1> HIDE DEF c
<1>2. Fits(c)
  BY <1>1, EmptyFits
<1> QED BY <1>2 DEF c

(* Between two handlers the buffer fits, as long as the device is on.      *)
FitsOn == power = "on" => Fits(dev)

(* ... and so after every handler that runs to its end.                    *)
LEMMA FitsStep ==
    ASSUME "write1" \notin FaultSites
    PROVE  IInv /\ FitsOn /\ [Next]_vars => FitsOn'
<1> SUFFICES ASSUME IInv, FitsOn, [Next]_vars PROVE FitsOn'
  OBVIOUS
<1>0. Keys \in SUBSET Keys /\ \A F \in FaultSets : "write1" \notin F
  BY DEF FaultSets
<1>1. ASSUME NEW d, Completed(d), Fits(d), d \in Devices PROVE FitsOn'
  <2> DEFINE x == [d EXCEPT !.trail = {}]
  <2>1. dev' = x
    BY <1>1 DEF Completed
  <2>2. x.buf = d.buf /\ x.ram = d.ram
    BY <1>1 DEF Devices
  <2> HIDE DEF x
  <2> QED BY <1>1, <2>1, <2>2 DEF FitsOn, Fits
<1>2. CASE Boot
  <2>1. PICK F \in FaultSets, G \in FaultSets :
           /\ power = "off" /\ nextId + 1 <= MaxMsgs
           /\ Completed(InitFlash(dev, nextId, F, G))
    BY <1>2 DEF Boot, BootTo
  <2> DEFINE d == InitFlash(dev, nextId, F, G)
  <2>2. nextId \in 0 .. MaxMsgs
    BY <2>1, BoundsAssumption DEF IInv
  <2>3. dev \in Devices /\ dev.ram = NoRam /\ dev.buf = <<>> /\ Loadable(dev.nvs)
    BY <2>1 DEF IInv
  <2>4. Sound(d, Keys)
    BY <2>2, <2>3, InitFlashLemma
  <2>5. Fits(d)
    BY <1>0, <2>2, <2>3, FitsInit
  <2>6. Completed(d)
    BY <2>1
  <2> HIDE DEF d
  <2>7. d \in Devices
    BY <2>4 DEF Sound
  <2> QED BY <1>1, <2>5, <2>6, <2>7
<1>3. CASE StoreMsg
  <2>1. PICK n \in Sizes, F \in FaultSets :
           /\ power = "on" /\ nextId <= MaxMsgs
           /\ Completed(StoreMessage(dev, nextId, n, F).dev)
    BY <1>3 DEF StoreMsg, StoreTo
  <2> DEFINE d == StoreMessage(dev, nextId, n, F).dev
  <2>2. nextId \in 0 .. MaxMsgs + 1
    BY <2>1, BoundsAssumption DEF IInv
  <2>3. Sound(dev, Keys) /\ Len(dev.buf) < PageSize /\ Fits(dev)
    BY <2>1 DEF IInv, FitsOn
  <2>4. n \in Nat /\ n <= BlockSize /\ n < 2 * PageSize
    BY SizesAssumption
  <2>5. Sound(d, Keys)
    BY <1>0, <2>2, <2>3, <2>4, StoreMessageLemma
  <2>6. Fits(d)
    BY <1>0, <2>2, <2>3, <2>4, CutStoreMessage
  <2>7. Completed(d)
    BY <2>1
  <2> HIDE DEF d
  <2>8. d \in Devices
    BY <2>5 DEF Sound
  <2> QED BY <1>1, <2>6, <2>7, <2>8
<1>4. CASE Read
  <2>1. PICK F \in FaultSets :
           power = "on" /\ Completed(WriteBufferToFlash(dev, "flush", F).dev)
    BY <1>4 DEF Read, ReadTo
  <2> DEFINE d == WriteBufferToFlash(dev, "flush", F).dev
  <2>2. Sound(dev, Keys) /\ Len(dev.buf) < PageSize /\ Fits(dev)
    BY <2>1 DEF IInv, FitsOn
  <2>3. Sound(d, Keys)
    BY <1>0, <2>2, FlushLemma
  <2>4. Fits(d)
    BY <2>2, FitsFlush
  <2>5. Completed(d)
    BY <2>1
  <2> HIDE DEF d
  <2>6. d \in Devices
    BY <2>3 DEF Sound
  <2> QED BY <1>1, <2>4, <2>5, <2>6
<1>5. CASE Clear
  <2>1. PICK F \in FaultSets : power = "on" /\ Completed(ClearFlashData(dev, F))
    BY <1>5 DEF Clear, ClearTo
  <2> DEFINE d == ClearFlashData(dev, F)
  <2>2. Sound(dev, Keys) /\ Len(dev.buf) < PageSize /\ Fits(dev)
    BY <2>1 DEF IInv, FitsOn
  <2>3. Sound(d, Keys)
    BY <1>0, <2>2, ClearLemma
  <2>4. Fits(d)
    BY <2>2, FitsClear
  <2>5. Completed(d)
    BY <2>1
  <2> HIDE DEF d
  <2>6. d \in Devices
    BY <2>3 DEF Sound
  <2> QED BY <1>1, <2>4, <2>5, <2>6
<1>6. CASE Disable
  <2>1. dev' = [dev EXCEPT !.enabled = FALSE] /\ power = "on"
    BY <1>6 DEF Disable
  <2>2. dev'.buf = dev.buf /\ dev'.ram = dev.ram
    BY <2>1 DEF IInv, Devices
  <2> QED BY <2>1, <2>2 DEF FitsOn, Fits
<1>7. CASE PowerOff
  <2>1. power' = "off"
    BY <1>7 DEF PowerOff
  <2> QED BY <2>1 DEF FitsOn
<1>8. CASE UNCHANGED vars
  BY <1>8 DEF vars, FitsOn
<1> QED BY <1>2, <1>3, <1>4, <1>5, <1>6, <1>7, <1>8 DEF Next

(* Until the first cut the device is as it is without cuts.                *)
UncutInv == cuts \in Nat /\ (cuts = 0 => IInv /\ FitsOn)

(* With power cuts allowed, the invariants hold until the first of them.   *)
LEMMA CutSpecUncut ==
    ASSUME "write1" \notin FaultSites
    PROVE  CutSpec => []UncutInv
<1>1. Init => UncutInv
  BY InitIInv DEF Init, UncutInv, FitsOn, IInv
<1>2. UncutInv /\ [Next \/ Cut]_vars => UncutInv'
  <2> SUFFICES ASSUME UncutInv, [Next \/ Cut]_vars PROVE UncutInv'
    OBVIOUS
  <2>1. CASE [Next]_vars
    <3>1. cuts' = cuts
      BY <2>1 DEF Next, Boot, BootTo, StoreMsg, StoreTo, Read, ReadTo, Clear, ClearTo,
                  Completed, Disable, PowerOff, vars
    <3>2. cuts = 0 => IInv' /\ FitsOn'
      BY <2>1, NextIInv, FitsStep DEF UncutInv
    <3> QED BY <3>1, <3>2 DEF UncutInv
  <2>2. CASE Cut
    <3>1. cuts' = cuts + 1
      BY <2>2 DEF Cut, BootTo, StoreTo, ReadTo, ClearTo, CutDuring
    <3> QED BY <3>1 DEF UncutInv
  <2> QED BY <2>1, <2>2
<1> QED BY <1>1, <1>2, PTL DEF CutSpec

(* In the first lap of the ring, a power cut inside a handler other than   *)
(* CMD_FLASH_CLEAR leaves every message that was on flash where a reader   *)
(* finds it, whatever the sizes and whichever accesses were refused, but   *)
(* for the write that makes room for a message.                            *)
THEOREM FirstLapCutsKeep ==
    ASSUME "write1" \notin FaultSites
    PROVE  CutSpec => FirstLapCutKeepsLog
<1> DEFINE Promise ==
      (/\ cuts = 0 /\ cuts' = 1 /\ power = "on"
       /\ dev.ram.start = 0 /\ dev.ram.block + BlockSize < Size
       /\ (StoreTo(CutDuring) \/ ReadTo(CutDuring)))
         => RetainedIn(dev, power) \subseteq RetainedIn(dev', power')
<1>1. UncutInv => [Promise]_vars
  <2> SUFFICES ASSUME UncutInv, cuts = 0, power = "on",
                      dev.ram.start = 0, dev.ram.block + BlockSize < Size,
                      StoreTo(CutDuring) \/ ReadTo(CutDuring)
               PROVE  RetainedIn(dev, power) \subseteq RetainedIn(dev', power')
    OBVIOUS
  <2>1. /\ Sound(dev, Keys) /\ Len(dev.buf) < PageSize /\ Fits(dev) /\ dev.trail = {}
        /\ nextId \in 1 .. MaxMsgs + 1
    BY DEF UncutInv, IInv, FitsOn
  <2>2. FirstLap(dev, dev)
    <3>1. /\ dev.ram.block \in Blocks /\ dev.ram.block \in Nat /\ dev.ram.offset \in Nat
      BY <2>1, BaseOffset, BlockArithmetic DEF Sound, Consistent
    <3>2. Covers(dev.ram, dev.flash, dev)
      BY <3>1 DEF Covers
    <3> QED BY <2>1, <3>1, <3>2 DEF FirstLap, Safe, Guarded
  <2>3. \A F \in FaultSets : "write1" \notin F
    BY DEF FaultSets
  <2>4. ASSUME NEW d, Sound(d, Keys), Safe(d, dev), CutDuring(d)
        PROVE  RetainedIn(dev, power) \subseteq RetainedIn(dev', power')
    <3>1. PICK img \in d.trail : dev' = PoweredDown(img)
      BY <2>4 DEF CutDuring
    <3>2. power' = "off"
      BY <2>4 DEF CutDuring
    <3>3. img \in Images
      BY <2>4 DEF Sound, Devices
    <3>4. Covers(img.nvs, img.flash, dev)
      BY <2>4 DEF Safe, Guarded
    <3>5. RetainedIn(dev, "on") \subseteq RetainedIn(PoweredDown(img), "off")
      BY <2>1, <3>3, <3>4, CutReaderFinds
    <3> QED BY <3>1, <3>2, <3>5
  <2>5. CASE StoreTo(CutDuring)
    <3>1. PICK n \in Sizes, F \in FaultSets :
             CutDuring(StoreMessage(dev, nextId, n, F).dev)
      BY <2>5 DEF StoreTo
    <3> DEFINE d == StoreMessage(dev, nextId, n, F).dev
    <3>2. n \in Nat /\ n <= BlockSize /\ n < 2 * PageSize
      BY SizesAssumption
    <3>3. nextId \in 0 .. MaxMsgs + 1 /\ Keys \in SUBSET Keys
      BY <2>1, BoundsAssumption
    <3>4. Sound(d, Keys)
      BY <2>1, <3>2, <3>3, StoreMessageLemma
    <3>5. Safe(d, dev)
      BY <2>1, <2>2, <2>3, <3>2, <3>3, CutStoreMessage
    <3>6. CutDuring(d)
      BY <3>1
    <3> HIDE DEF d
    <3> QED BY <2>4, <3>4, <3>5, <3>6
  <2>6. CASE ReadTo(CutDuring)
    <3>1. PICK F \in FaultSets : CutDuring(WriteBufferToFlash(dev, "flush", F).dev)
      BY <2>6 DEF ReadTo
    <3> DEFINE d == WriteBufferToFlash(dev, "flush", F).dev
    <3>2. Keys \in SUBSET Keys
      OBVIOUS
    <3>3. Sound(d, Keys)
      BY <2>1, <3>2, FlushLemma
    <3>4. dev.ram.offset \in Nat /\ Safe(dev, dev)
      BY <2>1, <2>2, BaseOffset DEF FirstLap
    <3>5. Safe(d, dev)
      BY <2>1, <3>4, CutWriteBuffer
    <3>6. CutDuring(d)
      BY <3>1
    <3> HIDE DEF d
    <3> QED BY <2>4, <3>3, <3>5, <3>6
  <2> QED BY <2>5, <2>6
<1> QED BY <1>1, CutSpecUncut, PTL DEF FirstLapCutKeepsLog
=============================================================================
