----------------------- MODULE FlashProgrammer_proofs -----------------------
(***************************************************************************)
(* Proofs about FlashProgrammer for a chip of any size and any files.  The   *)
(* sketch believes what the chip answers for its status, so the core of the *)
(* invariant is where the chip is at rest (Rests): wait_for_write comes back *)
(* only then, also at the one place where it looks with the select line      *)
(* still low.  The rest follows the address of the block (Placed) and the    *)
(* blocks that are already behind it (Kept, Cleared).                        *)
(***************************************************************************)
EXTENDS FlashProgrammer, TLAPS

Pcs == {"off", "unlock", "erase", "fread", "enable", "program", "compare",
        "sum", "error", "wait"}
WellFormed(f) == /\ f \in Seq(Blocks) /\ Len(f) * Page <= Size
                 /\ \A k \in 1 .. Len(f) - 1 : f[k].count = Page

SketchShape ==
  /\ DOMAIN sketch = {"pc", "then", "runs", "rested"}
  /\ sketch.pc \in Pcs /\ sketch.rested \in BOOLEAN
  /\ sketch.pc = "wait" => sketch.then \in {"erase", "fread", "enable", "compare"}
FileShape ==
  /\ DOMAIN file = {"blocks", "read"}
  /\ WellFormed(file.blocks) /\ file.read \in 0 .. Len(file.blocks)
AddrShape ==
  /\ addr[1] \in 0 .. Rows - 1 /\ addr[2] \in 0 .. Rows - 1 /\ addr[3] \in Int
ChipShape ==
  /\ DOMAIN chip = {"mem", "work", "enabled"} /\ chip.enabled \in BOOLEAN
  /\ DOMAIN chip.work = {"kind", "zeros"}
  /\ chip.work.kind = "rest" => Resting
Shape == SketchShape /\ FileShape /\ AddrShape /\ ChipShape

(* Where the sketch is: before the first block, between two blocks, or at    *)
(* block number file.read.                                                   *)
At(pc)      == sketch.pc = pc
WaitsTo(pc) == sketch.pc = "wait" /\ sketch.then = pc
Before  == At("unlock") \/ WaitsTo("erase") \/ At("erase") \/ WaitsTo("fread")
Between == Before \/ At("fread")
Entered == WaitsTo("enable") \/ At("enable") \/ At("program")
AtBlock == Entered \/ WaitsTo("compare") \/ At("compare")

(* The blocks before the last are full, so each begins a page, and the       *)
(* address does not go round before the last one.                            *)
Placed ==
  /\ Before => file.read = 0
  /\ Between /\ file.read < Len(file.blocks) =>
       addr[3] = 0 /\ addr[1] * Rows + addr[2] = file.read
  /\ AtBlock => /\ file.read > 0
                /\ addr[3] = 0 /\ addr[1] * Rows + addr[2] = file.read - 1

(* wait_for_write looks with the select line low only after a read back,     *)
(* when the chip is at rest anyway.                                          *)
Rests ==
  /\ At("erase") \/ At("fread") \/ Entered \/ At("compare") \/ At("sum") => Resting
  /\ At("unlock") \/ At("erase") \/ At("enable") \/ At("program") \/ At("compare")
       \/ WaitsTo("erase") \/ WaitsTo("fread") \/ WaitsTo("compare")
       => select = High
  /\ WaitsTo("compare") /\ ~Resting =>
       chip.work.kind = "program" /\ chip.work.zeros = Written

(* The first k blocks of the file are in the flash, and nothing behind them. *)
Held(k) ==
  \A j \in 1 .. k : \A i \in 0 .. file.blocks[j].count - 1 :
    (j - 1) * Page + i \in chip.mem <=> i \in file.blocks[j].zeros
Below(k) == \A a \in chip.mem : a \in Nat /\ a < k * Page

Kept ==
  /\ At("fread") \/ At("sum") => Held(file.read)
  /\ AtBlock => Held(file.read - 1)
  /\ At("sum") => file.read = Len(file.blocks)

(* A sketch that begins with the chip at rest erases it.                     *)
Cleared ==
  sketch.rested =>
    /\ At("unlock") => Resting
    /\ WaitsTo("erase") \/ At("erase") => Resting /\ chip.enabled
    /\ WaitsTo("fread") => chip.work.kind = "erase" \/ (Resting /\ chip.mem = {})
    /\ At("fread") => Below(file.read)
    /\ Entered => Below(file.read - 1)
    /\ At("program") => chip.enabled
    /\ WaitsTo("compare") => \/ ~Resting /\ Below(file.read - 1)
                             \/ (Resting /\ Below(file.read) /\ Held(file.read))
    /\ At("compare") => Below(file.read) /\ Held(file.read)
    /\ ~At("error")

FlashInv == Shape /\ Placed /\ Rests /\ Kept /\ Cleared

-----------------------------------------------------------------------------
(* A place below the size is not taken around.                              *)
LEMMA NoWrap ==
  ASSUME NEW a \in Nat, NEW b \in Nat, a < b PROVE a % b = a
OBVIOUS

(* Addresses of different blocks are different.                              *)
LEMMA Apart ==
  ASSUME NEW j \in Nat, NEW k \in Nat, j < k, NEW i \in 0 .. Page - 1
  PROVE  /\ j * Page + i \in Nat /\ j * Page + i < k * Page
         /\ j * Page \in Nat /\ k * Page \in Nat
<1>1. Page \in Nat BY FlashAssumption
<1> DEFINE d == k - (j + 1)
<1>2. d \in Nat OBVIOUS
<1>3. d * Page \in Nat /\ j * Page \in Nat BY <1>1, <1>2
<1>4. k * Page = j * Page + Page + d * Page BY <1>1
<1> QED BY <1>1, <1>3, <1>4

(* A block of a file has at most a page, the last one maybe less.           *)
LEMMA BlockFacts ==
  ASSUME FileShape, NEW k \in 1 .. Len(file.blocks)
  PROVE  /\ file.blocks[k].count \in 1 .. Page
         /\ file.blocks[k].zeros \subseteq 0 .. file.blocks[k].count - 1
         /\ k < Len(file.blocks) => file.blocks[k].count = Page
<1>1. file.blocks[k] \in Blocks BY DEF FileShape, WellFormed
<1> QED BY <1>1 DEF FileShape, WellFormed, Blocks

(* The block lies within the chip.                                           *)
LEMMA BlockAddress ==
  ASSUME Shape, Placed, AtBlock
  PROVE  /\ file.read \in 1 .. Len(file.blocks)
         /\ Address = (file.read - 1) * Page /\ Address \in Nat
         /\ \A i \in 0 .. Page - 1 : Address + i < Size
<1>1. file.read \in 1 .. Len(file.blocks) BY DEF Shape, FileShape, Placed
<1>2. Page \in Nat \ {0} /\ Rows \in Nat BY FlashAssumption
<1>3. Address = (file.read - 1) * Page
  BY <1>2 DEF Address, Placed, Shape, AddrShape
<1>4. Len(file.blocks) * Page <= Size /\ Len(file.blocks) \in Nat
  BY DEF Shape, FileShape, WellFormed
<1>5. file.read - 1 \in Nat /\ file.read - 1 < Len(file.blocks) BY <1>1, <1>4
<1>6. Size \in Nat BY <1>2 DEF Size
<1>7. ASSUME NEW i \in 0 .. Page - 1
      PROVE  /\ (file.read - 1) * Page \in Nat
             /\ (file.read - 1) * Page + i < Size
  BY <1>2, <1>4, <1>5, <1>6, Apart
<1>8. 0 \in 0 .. Page - 1 BY <1>2
<1>9. Address \in Nat BY <1>3, <1>7, <1>8
<1> QED BY <1>1, <1>3, <1>7, <1>9

-----------------------------------------------------------------------------
(* Each step keeps the invariant.                                            *)
LEMMA InitFlash == FlashInit => FlashInv
<1> SUFFICES ASSUME FlashInit PROVE FlashInv OBVIOUS
<1>1. Shape
  BY FlashAssumption DEF FlashInit, Shape, SketchShape, FileShape, AddrShape,
     ChipShape, WellFormed, Pcs, AtRest, Resting, Size
<1>2. sketch.pc = "off" /\ sketch.rested BY DEF FlashInit
<1> QED BY <1>1, <1>2 DEF FlashInv, Placed, Rests, Kept, Cleared, Before,
     Between, Entered, AtBlock, At, WaitsTo

(* The sketch is started, again maybe, with any file that fits.             *)
LEMMA SetupKeeps == FlashInv /\ Setup => FlashInv'
<1> SUFFICES ASSUME FlashInv, Setup PROVE FlashInv' OBVIOUS
<1>1. /\ sketch' = [pc |-> "unlock", then |-> "unlock", runs |-> sketch.runs + 1,
                    rested |-> Resting]
      /\ addr' = <<0, 0, 0>> /\ select' = High /\ chip' = chip
      /\ \E f \in Files : file' = [blocks |-> f, read |-> 0]
  BY DEF Setup
<1>2. sketch'.pc = "unlock" /\ sketch'.rested = Resting /\ file'.read = 0
  BY <1>1
<1>3. FileShape'
  BY <1>1, FlashAssumption DEF FileShape, WellFormed
<1>4. Resting \in BOOLEAN BY DEF Resting
<1>5. SketchShape' BY <1>1, <1>4 DEF SketchShape, Pcs
<1>6. AddrShape' BY <1>1, FlashAssumption DEF AddrShape
<1>7. ChipShape' BY <1>1 DEF FlashInv, Shape, ChipShape, Resting
<1>8. Shape' BY <1>3, <1>5, <1>6, <1>7 DEF Shape
<1>9. Placed'
  BY <1>1, <1>2, FlashAssumption
  DEF Placed, Before, Between, Entered, AtBlock, At, WaitsTo
<1>10. Resting' <=> Resting BY <1>1 DEF Resting
<1>11. Rests' /\ Kept' /\ Cleared'
  BY <1>1, <1>2, <1>10 DEF Rests, Kept, Cleared, Entered, AtBlock, At, WaitsTo
<1> QED BY <1>8, <1>9, <1>11 DEF FlashInv

(* Looking changes nothing but where the sketch is, and it goes on only      *)
(* when the chip is at rest.                                                 *)
LEMMA LookKeeps == FlashInv /\ Look => FlashInv'
<1> SUFFICES ASSUME FlashInv, Look PROVE FlashInv' OBVIOUS
<1> USE DEF FlashInv
<1>1. /\ At("wait") /\ select' = High
      /\ file' = file /\ addr' = addr /\ chip' = chip
      /\ sketch' = sketch \/ (~Busy /\ sketch' = [sketch EXCEPT !.pc = sketch.then])
  BY DEF Look, Goes, At
<1>2. Resting' = Resting /\ Address' = Address /\ Written' = Written
  BY <1>1 DEF Resting, Address, Written, Block
<1>3. \A k : Held(k)' = Held(k) /\ Below(k)' = Below(k)
  BY <1>1 DEF Held, Below
<1>4. CASE sketch' = sketch
  BY <1>1, <1>2, <1>3, <1>4
  DEF Shape, SketchShape, FileShape, AddrShape, ChipShape, Placed, Rests, Kept,
      Cleared, Before, Between, Entered, AtBlock, At, WaitsTo
<1>5. CASE ~Busy /\ sketch' = [sketch EXCEPT !.pc = sketch.then]
  <2>1. /\ sketch'.pc = sketch.then /\ sketch'.rested = sketch.rested
        /\ sketch'.then = sketch.then
        /\ sketch.pc = "wait"
        /\ sketch.then \in {"erase", "fread", "enable", "compare"}
    BY <1>1, <1>5 DEF Shape, SketchShape, At
  <2>2. Shape'
    BY <1>1, <1>2, <1>5, <2>1
    DEF Shape, SketchShape, FileShape, AddrShape, ChipShape, Pcs
  <2>3. Resting
    BY <1>5, <2>1 DEF Busy, Rests, Entered, At, WaitsTo
  <2>4. Placed'
    BY <1>1, <2>1 DEF Placed, Before, Between, Entered, AtBlock, At, WaitsTo
  <2>5. Rests'
    BY <1>1, <1>2, <2>1, <2>3 DEF Rests, Entered, At, WaitsTo
  <2>6. file.read = 0 => Held(file.read)
    BY DEF Held
  <2>7. Kept'
    BY <1>1, <1>3, <2>1, <2>6
    DEF Kept, AtBlock, Entered, At, WaitsTo, Placed, Before
  <2>8. Resting => chip.work.kind # "erase"
    BY DEF Resting, AtRest
  <2>9. chip.mem = {} => Below(file.read)
    BY DEF Below
  <2>10. Cleared'
    BY <1>1, <1>2, <1>3, <2>1, <2>3, <2>8, <2>9
    DEF Cleared, Entered, At, WaitsTo
  <2> QED BY <2>2, <2>4, <2>5, <2>7, <2>10
<1> QED BY <1>1, <1>4, <1>5

(* Write enable changes the latch alone, and not that of a chip at work.    *)
LEMMA EnableFacts ==
  ASSUME Shape, chip' = WriteEnabled
  PROVE  /\ ChipShape' /\ chip'.mem = chip.mem /\ chip'.work = chip.work
         /\ Resting' = Resting /\ (Resting => chip'.enabled)
BY DEF Shape, ChipShape, WriteEnabled, Resting

(* Write enable before the chip erase.                                      *)
LEMMA EraseEnableKeeps == FlashInv /\ EraseEnable => FlashInv'
<1> SUFFICES ASSUME FlashInv, EraseEnable PROVE FlashInv' OBVIOUS
<1> USE DEF FlashInv
<1>1. /\ At("unlock") /\ chip' = WriteEnabled
      /\ sketch' = [sketch EXCEPT !.pc = "wait", !.then = "erase"]
      /\ file' = file /\ addr' = addr /\ select' = select
  BY DEF EraseEnable, Waits, At
<1>2. /\ sketch'.pc = "wait" /\ sketch'.then = "erase"
      /\ sketch'.rested = sketch.rested
  BY <1>1 DEF Shape, SketchShape
<1>3. Shape'
  BY <1>1, <1>2, EnableFacts DEF Shape, SketchShape, FileShape, AddrShape, Pcs
<1>4. Placed'
  BY <1>1, <1>2 DEF Placed, Before, Between, Entered, AtBlock, At, WaitsTo
<1>5. Rests' /\ Kept'
  BY <1>1, <1>2 DEF Rests, Kept, Entered, AtBlock, At, WaitsTo
<1>6. Cleared'
  BY <1>1, <1>2, EnableFacts DEF Cleared, Entered, At, WaitsTo
<1> QED BY <1>3, <1>4, <1>5, <1>6

(* The chip erase: the flash is empty when the chip comes to rest.          *)
LEMMA EraseKeeps == FlashInv /\ Erase => FlashInv'
<1> SUFFICES ASSUME FlashInv, Erase PROVE FlashInv' OBVIOUS
<1> USE DEF FlashInv
<1>1. /\ At("erase") /\ chip' = Working("erase", {})
      /\ sketch' = [sketch EXCEPT !.pc = "wait", !.then = "fread"]
      /\ file' = file /\ addr' = addr /\ select' = select
  BY DEF Erase, Waits, At
<1>2. /\ sketch'.pc = "wait" /\ sketch'.then = "fread"
      /\ sketch'.rested = sketch.rested
  BY <1>1 DEF Shape, SketchShape
<1>3. ChipShape' /\ (Resting /\ chip.enabled => chip'.work.kind = "erase")
  BY <1>1 DEF Shape, ChipShape, Working, Resting
<1>4. Shape'
  BY <1>1, <1>2, <1>3 DEF Shape, SketchShape, FileShape, AddrShape, Pcs
<1>5. Placed'
  BY <1>1, <1>2 DEF Placed, Before, Between, Entered, AtBlock, At, WaitsTo
<1>6. Rests' /\ Kept'
  BY <1>1, <1>2 DEF Rests, Kept, Entered, AtBlock, At, WaitsTo
<1>7. sketch.rested => chip'.work.kind = "erase"
  BY <1>1, <1>3 DEF Cleared
<1>8. Cleared'
  BY <1>2, <1>7 DEF Cleared, Entered, At, WaitsTo
<1> QED BY <1>4, <1>5, <1>6, <1>8

(* A block that is read is the next one, and a full block is written too.    *)
LEMMA FreadKeeps == FlashInv /\ Fread => FlashInv'
<1> SUFFICES ASSUME FlashInv, Fread PROVE FlashInv' OBVIOUS
<1> USE DEF FlashInv
<1>1. At("fread") /\ addr' = addr /\ select' = select /\ chip' = chip
  BY DEF Fread, At
<1>2. Resting' = Resting /\ Resting
  BY <1>1 DEF Resting, Rests
<1>3. \A k : file'.blocks = file.blocks => Held(k)' = Held(k) /\ Below(k)' = Below(k)
  BY <1>1 DEF Held, Below
<1>4. CASE file.read = Len(file.blocks)
  <2>1. file' = file /\ sketch' = [sketch EXCEPT !.pc = "sum"]
    BY <1>4 DEF Fread, Goes
  <2>2. sketch'.pc = "sum" /\ sketch'.rested = sketch.rested
    BY <2>1 DEF Shape, SketchShape
  <2>3. Shape'
    BY <1>1, <1>2, <2>1, <2>2
    DEF Shape, SketchShape, FileShape, AddrShape, ChipShape, Pcs
  <2>4. Placed'
    BY <2>2 DEF Placed, Before, Between, Entered, AtBlock, At, WaitsTo
  <2>5. Rests'
    BY <1>2, <2>2 DEF Rests, Entered, At, WaitsTo
  <2>6. Kept'
    BY <1>1, <1>3, <1>4, <2>1, <2>2 DEF Kept, Entered, AtBlock, At, WaitsTo
  <2>7. Cleared'
    BY <2>2 DEF Cleared, Entered, At, WaitsTo
  <2> QED BY <2>3, <2>4, <2>5, <2>6, <2>7
<1>5. CASE file.read # Len(file.blocks)
  <2>1. file.read \in Nat /\ file.read < Len(file.blocks) /\ addr[3] = 0
    BY <1>1, <1>5 DEF Shape, FileShape, WellFormed, Placed, Between
  <2>2. /\ file' = [file EXCEPT !.read = file.read + 1]
        /\ sketch' = [sketch EXCEPT !.pc = "wait", !.then = "enable"]
    BY <1>5, <2>1 DEF Fread, Waits
  <2>3. /\ file'.read = file.read + 1 /\ file'.blocks = file.blocks
        /\ DOMAIN file' = DOMAIN file
        /\ sketch'.pc = "wait" /\ sketch'.then = "enable"
        /\ sketch'.rested = sketch.rested /\ DOMAIN sketch' = DOMAIN sketch
    BY <2>2 DEF Shape, SketchShape, FileShape
  <2>4. Shape'
    <3>1. file'.read \in 0 .. Len(file'.blocks)
      BY <2>1, <2>3 DEF Shape, FileShape, WellFormed
    <3> QED BY <1>1, <1>2, <2>3, <3>1
         DEF Shape, SketchShape, FileShape, AddrShape, ChipShape, Pcs, WellFormed
  <2>5. addr[1] * Rows + addr[2] = file.read
    BY <1>1, <2>1 DEF Placed, Between
  <2>6. Placed'
    BY <1>1, <2>1, <2>3, <2>5
    DEF Placed, Before, Between, Entered, AtBlock, At, WaitsTo
  <2>7. Rests'
    BY <1>2, <2>3 DEF Rests, Entered, At, WaitsTo
  <2>8. file'.read - 1 = file.read BY <2>1, <2>3
  <2>9. Kept'
    <3>1. Held(file.read - 1)' BY <1>1, <1>3, <2>3, <2>8 DEF Kept
    <3> QED BY <2>3, <3>1 DEF Kept, At
  <2>10. Cleared'
    <3>1. sketch.rested => Below(file.read - 1)'
      BY <1>1, <1>3, <2>3, <2>8 DEF Cleared
    <3> QED BY <2>3, <3>1 DEF Cleared, Entered, At, WaitsTo
  <2> QED BY <2>4, <2>6, <2>7, <2>9, <2>10
<1> QED BY <1>4, <1>5

(* Write enable before a page.                                              *)
LEMMA ProgramEnableKeeps == FlashInv /\ ProgramEnable => FlashInv'
<1> SUFFICES ASSUME FlashInv, ProgramEnable PROVE FlashInv' OBVIOUS
<1> USE DEF FlashInv
<1>1. /\ At("enable") /\ chip' = WriteEnabled
      /\ sketch' = [sketch EXCEPT !.pc = "program"]
      /\ file' = file /\ addr' = addr /\ select' = select
  BY DEF ProgramEnable, Goes, At
<1>2. sketch'.pc = "program" /\ sketch'.rested = sketch.rested
  BY <1>1 DEF Shape, SketchShape
<1>3. Shape'
  BY <1>1, <1>2, EnableFacts DEF Shape, SketchShape, FileShape, AddrShape, Pcs
<1>4. Placed'
  BY <1>1, <1>2 DEF Placed, Before, Between, Entered, AtBlock, At, WaitsTo
<1>5. Resting /\ Resting' /\ chip'.enabled /\ chip'.mem = chip.mem
  BY <1>1, EnableFacts DEF Rests, Entered
<1>6. Rests'
  BY <1>1, <1>2, <1>5 DEF Rests, Entered, At, WaitsTo
<1>7. \A k : Held(k)' = Held(k) /\ Below(k)' = Below(k)
  BY <1>1, <1>5 DEF Held, Below
<1>8. Kept' /\ Cleared'
  BY <1>1, <1>2, <1>5, <1>7 DEF Kept, Cleared, Entered, AtBlock, At, WaitsTo
<1> QED BY <1>3, <1>4, <1>6, <1>8

(* The page program, taken by a chip at rest.                               *)
LEMMA ProgramKeeps == FlashInv /\ Program => FlashInv'
<1> SUFFICES ASSUME FlashInv, Program PROVE FlashInv' OBVIOUS
<1> USE DEF FlashInv
<1>1. /\ At("program") /\ chip' = Working("program", Written)
      /\ sketch' = [sketch EXCEPT !.pc = "wait", !.then = "compare"]
      /\ file' = file /\ addr' = addr /\ select' = select
  BY DEF Program, Waits, At
<1>2. /\ sketch'.pc = "wait" /\ sketch'.then = "compare"
      /\ sketch'.rested = sketch.rested
  BY <1>1 DEF Shape, SketchShape
<1>3. /\ ChipShape' /\ chip'.mem = chip.mem
      /\ ~Resting' => chip'.work.kind = "program" /\ chip'.work.zeros = Written
      /\ chip.enabled => ~Resting'
  <2>1. Resting BY <1>1 DEF Rests, Entered
  <2>2. CASE chip.enabled
    <3>1. chip' = [chip EXCEPT !.work = [kind |-> "program", zeros |-> Written]]
      BY <1>1, <2>1, <2>2 DEF Working
    <3>2. /\ chip'.mem = chip.mem /\ chip'.enabled = chip.enabled
          /\ chip'.work = [kind |-> "program", zeros |-> Written]
          /\ DOMAIN chip' = DOMAIN chip
      BY <3>1 DEF Shape, ChipShape
    <3>3. /\ chip'.work.kind = "program" /\ chip'.work.zeros = Written
          /\ DOMAIN chip'.work = {"kind", "zeros"}
      BY <3>2
    <3>4. ~Resting' BY <3>3 DEF Resting, AtRest
    <3> QED BY <3>2, <3>3, <3>4 DEF Shape, ChipShape
  <2>3. CASE ~chip.enabled
    <3>1. chip' = chip BY <1>1, <2>3 DEF Working
    <3> QED BY <2>1, <2>3, <3>1 DEF Shape, ChipShape, Resting
  <2> QED BY <2>2, <2>3
<1>4. Shape'
  BY <1>1, <1>2, <1>3 DEF Shape, SketchShape, FileShape, AddrShape, Pcs
<1>5. Placed'
  BY <1>1, <1>2 DEF Placed, Before, Between, Entered, AtBlock, At, WaitsTo
<1>6. Written' = Written BY <1>1 DEF Written, Address, Block
<1>7. Rests'
  BY <1>1, <1>2, <1>3, <1>6 DEF Rests, Entered, At, WaitsTo
<1>8. \A k : Held(k)' = Held(k) /\ Below(k)' = Below(k)
  BY <1>1, <1>3 DEF Held, Below
<1>9. Kept'
  BY <1>1, <1>2, <1>8 DEF Kept, AtBlock, Entered, At, WaitsTo
<1>10. Cleared'
  BY <1>1, <1>2, <1>3, <1>8 DEF Cleared, Entered, At, WaitsTo
<1> QED BY <1>4, <1>5, <1>7, <1>9, <1>10

(* What the chip does at last: it erases all, or adds the zeros of the block *)
(* the sketch waits for, which lie behind the blocks before it.              *)
LEMMA WrittenFacts ==
  ASSUME Shape, Placed, AtBlock, NEW k, k = file.read
  PROVE  /\ \A i \in 0 .. Block.count - 1 :
              (k - 1) * Page + i \in Written <=> i \in Block.zeros
         /\ \A a \in Written : a \in Nat /\ a < k * Page /\ (k - 1) * Page <= a
<1>1. k \in 1 .. Len(file.blocks) /\ Address = (k - 1) * Page /\ Address \in Nat
  BY BlockAddress
<1>2. Page \in Nat \ {0} BY FlashAssumption
<1>3. Block.count \in 1 .. Page /\ Block.zeros \subseteq 0 .. Block.count - 1
  BY <1>1, BlockFacts DEF Shape, Block
<1>4. ASSUME NEW i \in Block.zeros
      PROVE  i \in 0 .. Page - 1 /\ (addr[3] + i) % Page = i
  <2>1. addr[3] = 0 BY DEF Placed
  <2>2. i \in 0 .. Page - 1 BY <1>2, <1>3
  <2>3. i % Page = i BY <1>2, <2>2
  <2> QED BY <2>1, <2>2, <2>3
<1>5. Written = {Address + i : i \in Block.zeros}
  <2>1. \A i \in Block.zeros : Address - addr[3] + ((addr[3] + i) % Page) = Address + i
    BY <1>1, <1>4 DEF Placed
  <2> QED BY <2>1 DEF Written
<1>6. ASSUME NEW i \in 0 .. Block.count - 1
      PROVE  (k - 1) * Page + i \in Written <=> i \in Block.zeros
  <2>1. \A l \in Block.zeros : Address + l = Address + i => l = i
    BY <1>1, <1>3
  <2> QED BY <1>1, <1>5, <2>1
<1>7. ASSUME NEW a \in Written
      PROVE  a \in Nat /\ a < k * Page /\ (k - 1) * Page <= a
  <2>1. PICK i \in Block.zeros : a = Address + i BY <1>5
  <2>2. i \in 0 .. Page - 1 BY <1>4
  <2>3. k \in Nat /\ k - 1 \in Nat /\ k - 1 < k BY <1>1
  <2>4. a \in Nat /\ a < k * Page BY <1>1, <2>1, <2>2, <2>3, Apart
  <2> QED BY <1>1, <2>1, <2>2, <2>4
<1> QED BY <1>6, <1>7

(* The chip ends its work by itself.                                        *)
LEMMA ChipDoneKeeps == FlashInv /\ ChipDone => FlashInv'
<1> SUFFICES ASSUME FlashInv, ChipDone PROVE FlashInv' OBVIOUS
<1> USE DEF FlashInv
<1>1. /\ ~Resting /\ sketch' = sketch /\ file' = file /\ addr' = addr
      /\ select' = select
      /\ chip'.work = AtRest /\ chip'.enabled = FALSE
      /\ DOMAIN chip' = {"mem", "work", "enabled"}
      /\ chip'.mem = IF chip.work.kind = "erase" THEN {}
                     ELSE chip.mem \cup chip.work.zeros
  BY DEF ChipDone
<1>2. Resting' BY <1>1 DEF Resting
<1>3. Shape'
  BY <1>1, <1>2 DEF Shape, SketchShape, FileShape, AddrShape, ChipShape, AtRest
<1>4. Placed'
  BY <1>1 DEF Placed, Before, Between, Entered, AtBlock, At, WaitsTo
<1>5. Rests'
  BY <1>1, <1>2 DEF Rests, Entered, At, WaitsTo
<1>6. ~At("fread") /\ ~Entered /\ ~At("compare") /\ ~At("erase") /\ ~At("sum")
  BY <1>1 DEF Rests
<1>7. CASE WaitsTo("compare")
  <2> DEFINE n == file.read
  <2>1. AtBlock BY <1>7 DEF AtBlock
  <2>2. n \in Nat /\ n > 0 /\ n - 1 \in Nat
    BY <2>1, BlockAddress
  <2>3. chip'.mem = chip.mem \cup Written
    BY <1>1, <1>7 DEF Rests
  <2>4. \A a \in Written : a \in Nat /\ a < n * Page /\ (n - 1) * Page <= a
    BY <2>1, WrittenFacts
  <2>5. ASSUME NEW j \in 1 .. n - 1, NEW i \in 0 .. file.blocks[j].count - 1
        PROVE  (j - 1) * Page + i \in chip'.mem <=> i \in file.blocks[j].zeros
    <3>1. (j - 1) * Page + i \in chip.mem <=> i \in file.blocks[j].zeros
      BY <2>1 DEF Kept, Held
    <3>2. j \in 1 .. Len(file.blocks) /\ j - 1 \in Nat /\ j - 1 < n - 1
      BY <2>1, <2>2, BlockAddress
    <3>3. i \in 0 .. Page - 1
      BY <3>2, BlockFacts, FlashAssumption DEF Shape
    <3>4. (j - 1) * Page + i \in Nat /\ (j - 1) * Page + i < (n - 1) * Page
      BY <2>2, <3>2, <3>3, Apart
    <3>5. (n - 1) * Page \in Nat BY <2>2, FlashAssumption
    <3>6. (j - 1) * Page + i \notin Written
      BY <2>4, <3>4, <3>5
    <3> QED BY <2>3, <3>1, <3>6
  <2>6. Held(n - 1)' BY <1>1, <2>5 DEF Held
  <2>7. Kept'
    BY <1>1, <1>7, <2>6 DEF Kept, AtBlock, Entered, At, WaitsTo
  <2>8. ASSUME sketch.rested PROVE Below(n)' /\ Held(n)'
    <3>1. Below(n - 1) BY <1>1, <1>7, <2>8 DEF Cleared
    <3>2. \A a \in chip.mem : a \in Nat /\ a < (n - 1) * Page
      BY <3>1 DEF Below
    <3>3. (n - 1) * Page \in Nat /\ n * Page \in Nat
          /\ n * Page = (n - 1) * Page + Page
      BY <2>2, FlashAssumption
    <3>4. Below(n)'
      BY <1>1, <2>3, <2>4, <3>2, <3>3, FlashAssumption DEF Below
    <3>5. ASSUME NEW i \in 0 .. file.blocks[n].count - 1
          PROVE  (n - 1) * Page + i \in chip'.mem <=> i \in file.blocks[n].zeros
      <4>1. (n - 1) * Page + i \in Written <=> i \in file.blocks[n].zeros
        BY <2>1, WrittenFacts DEF Block
      <4>2. (n - 1) * Page + i \notin chip.mem
        BY <3>2, <3>3
      <4> QED BY <2>3, <4>1, <4>2
    <3>6. n \in 1 .. n /\ \A j \in 1 .. n : j \in 1 .. n - 1 \/ j = n
      BY <2>2
    <3>7. Held(n)' BY <1>1, <2>5, <3>5, <3>6 DEF Held
    <3> QED BY <3>4, <3>7
  <2>9. Cleared'
    BY <1>1, <1>2, <1>7, <2>8 DEF Cleared, Entered, At, WaitsTo
  <2> QED BY <1>3, <1>4, <1>5, <2>7, <2>9
<1>8. CASE ~WaitsTo("compare")
  <2>1. Kept'
    BY <1>1, <1>6, <1>8 DEF Kept, AtBlock, Entered, At, WaitsTo
  <2>2. Cleared'
    BY <1>1, <1>2, <1>6, <1>8 DEF Cleared, Entered, At, WaitsTo
  <2> QED BY <1>3, <1>4, <1>5, <2>1, <2>2
<1> QED BY <1>7, <1>8

(* The third place of an address that is put together.                      *)
LEMMA Third ==
  ASSUME NEW a \in Int, NEW b \in Int, NEW c \in Int, NEW s, s = <<a, b>>
  PROVE  Append(s, c)[1] = a /\ Append(s, c)[2] = b /\ Append(s, c)[3] = c
<1>1. s \in Seq(Int) /\ Len(s) = 2 /\ s[1] = a /\ s[2] = b OBVIOUS
<1> QED BY <1>1

(* The read back tells the truth, and agrees if the chip was erased; the     *)
(* address that follows is that of the next block, if there is one.          *)
LEMMA NextAddrFacts ==
  ASSUME Shape, Placed, At("compare")
  PROVE  /\ NextAddr[1] \in 0 .. Rows - 1 /\ NextAddr[2] \in 0 .. Rows - 1
         /\ NextAddr[3] \in Int
         /\ file.read < Len(file.blocks) =>
              NextAddr[3] = 0 /\ NextAddr[1] * Rows + NextAddr[2] = file.read
<1> DEFINE n == file.read
<1>1. AtBlock BY DEF AtBlock
<1>2. /\ n \in 1 .. Len(file.blocks)
      /\ addr[3] = 0 /\ addr[1] * Rows + addr[2] = n - 1
      /\ addr[1] \in 0 .. Rows - 1 /\ addr[2] \in 0 .. Rows - 1
  BY <1>1, BlockAddress DEF Placed, Shape, AddrShape
<1>3. Page \in Nat \ {0, 1} /\ Rows \in Nat \ {0, 1} BY FlashAssumption
<1>4. Block.count \in 1 .. Page /\ (n < Len(file.blocks) => Block.count = Page)
  BY <1>2, BlockFacts DEF Shape, Block
<1>5. Carry = IF addr[2] < Rows - 1 THEN <<addr[1], addr[2] + 1>>
              ELSE <<(addr[1] + 1) % Rows, 0>>
  BY DEF Carry
<1>6. /\ Carry = <<Carry[1], Carry[2]>>
      /\ Carry[1] \in 0 .. Rows - 1 /\ Carry[2] \in 0 .. Rows - 1
  <2>1. (addr[1] + 1) % Rows \in 0 .. Rows - 1 BY <1>2, <1>3
  <2>2. \E a, b \in 0 .. Rows - 1 : Carry = <<a, b>>
    <3>1. CASE addr[2] < Rows - 1
      <4>1. addr[2] + 1 \in 0 .. Rows - 1 BY <1>2, <1>3, <3>1
      <4> QED BY <1>2, <1>5, <3>1, <4>1
    <3>2. CASE ~(addr[2] < Rows - 1)
      <4>1. 0 \in 0 .. Rows - 1 BY <1>3
      <4> QED BY <1>5, <2>1, <3>2, <4>1
    <3> QED BY <3>1, <3>2
  <2> QED BY <2>2
<1>7. ASSUME n < Len(file.blocks) PROVE Carry[1] * Rows + Carry[2] = n
  <2>1. CASE addr[2] < Rows - 1
    BY <1>2, <1>3, <1>5, <2>1
  <2>2. CASE ~(addr[2] < Rows - 1)
    <3>1. addr[2] = Rows - 1 /\ n = (addr[1] + 1) * Rows
      <4>1. addr[2] = Rows - 1 BY <1>2, <1>3, <2>2
      <4>2. (addr[1] + 1) * Rows = addr[1] * Rows + Rows BY <1>2, <1>3
      <4>3. addr[1] * Rows \in Int BY <1>2, <1>3
      <4> QED BY <1>2, <1>3, <4>1, <4>2, <4>3
    <3>2. Len(file.blocks) \in Nat /\ Len(file.blocks) * Page <= Rows * Rows * Page
      BY DEF Shape, FileShape, WellFormed, Size
    <3>3. n < Rows * Rows
      <4> DEFINE l == Len(file.blocks)
                 r == Rows * Rows
      <4>1. r \in Nat /\ l \in Nat /\ l * Page <= r * Page BY <1>3, <3>2
      <4>2. ASSUME r < l PROVE FALSE
        <5>1. r * Page + 0 < l * Page BY <1>3, <4>1, <4>2, Apart
        <5> QED BY <1>3, <4>1, <5>1
      <4> QED BY <1>2, <1>7, <4>1, <4>2
    <3>4. addr[1] + 1 < Rows
      <4>1. CASE addr[1] + 1 = Rows BY <1>2, <1>3, <3>1, <3>3, <4>1
      <4> QED BY <1>2, <1>3, <4>1
    <3>5. (addr[1] + 1) % Rows = addr[1] + 1
      <4>1. addr[1] + 1 \in Nat BY <1>2
      <4> QED BY <1>3, <3>4, <4>1, NoWrap
    <3> QED BY <1>2, <1>3, <1>5, <2>2, <3>1, <3>5
  <2> QED BY <2>1, <2>2
<1>8. CASE Block.count = Page
  <2>1. NextAddr[1] = Carry[1] /\ NextAddr[2] = Carry[2] /\ NextAddr[3] = addr[3]
    <3>1. NextAddr = Append(Carry, addr[3]) BY <1>8 DEF NextAddr
    <3> QED BY <1>6, <3>1, Third
  <2> QED BY <1>2, <1>6, <1>7, <2>1
<1>9. CASE Block.count # Page
  <2> DEFINE low == (Block.count - (Page - 1 - Block.count)) % Page
  <2>1. low \in Int BY <1>3, <1>4
  <2>2. \/ NextAddr = <<addr[1], addr[2], addr[3] + Block.count>>
        \/ NextAddr = Append(Carry, low)
    BY <1>9 DEF NextAddr
  <2>3. CASE NextAddr = <<addr[1], addr[2], addr[3] + Block.count>>
    BY <1>2, <1>4, <1>9, <2>3
  <2>4. CASE NextAddr = Append(Carry, low)
    <3>1. NextAddr[1] = Carry[1] /\ NextAddr[2] = Carry[2] /\ NextAddr[3] = low
      BY <1>6, <2>1, <2>4, Third
    <3> QED BY <1>4, <1>6, <1>9, <2>1, <3>1
  <2> QED BY <2>2, <2>3, <2>4
<1> QED BY <1>8, <1>9

(* The comparison of what is read back with the block.                      *)
LEMMA SameFacts ==
  ASSUME Shape, Placed, Rests, Kept, Cleared, At("compare")
  PROVE  /\ Same => Held(file.read)
         /\ sketch.rested => Same
<1> DEFINE n == file.read
<1>1. AtBlock BY DEF AtBlock
<1>2. n \in 1 .. Len(file.blocks) /\ Address = (n - 1) * Page /\ Address \in Nat
      /\ \A i \in 0 .. Page - 1 : Address + i < Size
  BY <1>1, BlockAddress
<1>3. Block.count \in 1 .. Page BY <1>2, BlockFacts DEF Shape, Block
<1>4. Size \in Nat /\ Page \in Nat BY FlashAssumption DEF Size
<1>5. ASSUME NEW i \in 0 .. Block.count - 1
      PROVE  (Address + i) % Size = (n - 1) * Page + i
  <2>1. i \in 0 .. Page - 1 BY <1>3, <1>4
  <2>2. Address + i \in Nat /\ Address + i < Size BY <1>2, <2>1
  <2>3. (Address + i) % Size = Address + i BY <1>4, <2>2
  <2> QED BY <1>2, <2>3
<1>6. Same <=> \A i \in 0 .. file.blocks[n].count - 1 :
                 (n - 1) * Page + i \in chip.mem <=> i \in file.blocks[n].zeros
  BY <1>5 DEF Same, Block
<1>7. Held(n - 1) BY <1>1 DEF Kept
<1>8. n \in 1 .. n /\ \A j \in 1 .. n : j \in 1 .. n - 1 \/ j = n
  BY <1>2
<1>9. Same => Held(n) BY <1>6, <1>7, <1>8 DEF Held
<1>10. sketch.rested => Same BY <1>6, <1>8 DEF Cleared, Held
<1> QED BY <1>9, <1>10

(* The read back, and the step to the next block.                           *)
LEMMA CompareKeeps == FlashInv /\ Compare => FlashInv'
<1> SUFFICES ASSUME FlashInv, Compare PROVE FlashInv' OBVIOUS
<1> USE DEF FlashInv
<1>1. /\ At("compare") /\ file' = file /\ chip' = chip
      /\ Resting
  BY DEF Compare, At, Rests
<1>2. \/ Same /\ sketch' = [sketch EXCEPT !.pc = "fread"] /\ addr' = NextAddr
      \/ ~Same /\ sketch' = [sketch EXCEPT !.pc = "error"] /\ addr' = addr
  BY <1>1 DEF Compare, Goes
<1>3. Resting' BY <1>1 DEF Resting
<1>4. \A k : Held(k)' = Held(k) /\ Below(k)' = Below(k)
  BY <1>1 DEF Held, Below
<1>5. CASE Same /\ sketch' = [sketch EXCEPT !.pc = "fread"] /\ addr' = NextAddr
  <2>1. sketch'.pc = "fread" /\ sketch'.rested = sketch.rested
        /\ DOMAIN sketch' = DOMAIN sketch
    BY <1>5 DEF Shape, SketchShape
  <2>2. AddrShape' BY <1>1, <1>5, NextAddrFacts DEF AddrShape
  <2>3. Shape'
    BY <1>1, <1>3, <2>1, <2>2 DEF Shape, SketchShape, FileShape, ChipShape, Pcs
  <2>4. Placed'
    BY <1>1, <1>5, <2>1, NextAddrFacts
    DEF Placed, Before, Between, Entered, AtBlock, At, WaitsTo
  <2>5. Rests' BY <1>3, <2>1 DEF Rests, Entered, At, WaitsTo
  <2>6. Held(file.read)' BY <1>1, <1>4, <1>5, SameFacts
  <2>7. Kept' BY <1>1, <2>1, <2>6 DEF Kept, AtBlock, Entered, At, WaitsTo
  <2>8. sketch.rested => Below(file.read)' BY <1>1, <1>4 DEF Cleared
  <2>9. Cleared' BY <2>1, <2>8 DEF Cleared, Entered, At, WaitsTo
  <2> QED BY <2>3, <2>4, <2>5, <2>7, <2>9
<1>6. CASE ~Same /\ sketch' = [sketch EXCEPT !.pc = "error"] /\ addr' = addr
  <2>1. sketch'.pc = "error" /\ sketch'.rested = sketch.rested
        /\ DOMAIN sketch' = DOMAIN sketch
    BY <1>6 DEF Shape, SketchShape
  <2>2. Shape'
    BY <1>1, <1>3, <1>6, <2>1 DEF Shape, SketchShape, FileShape, AddrShape, ChipShape, Pcs
  <2>3. Placed'
    BY <2>1 DEF Placed, Before, Between, Entered, AtBlock, At, WaitsTo
  <2>4. Rests' /\ Kept'
    BY <2>1 DEF Rests, Kept, Entered, AtBlock, At, WaitsTo
  <2>5. ~sketch.rested BY <1>1, <1>6, SameFacts
  <2>6. Cleared' BY <2>1, <2>5 DEF Cleared
  <2> QED BY <2>2, <2>3, <2>4, <2>6
<1> QED BY <1>2, <1>5, <1>6

-----------------------------------------------------------------------------
(* The sketch sums up only what is in the flash byte for byte, and reports   *)
(* an error only if the chip was at work when it began: for every file that  *)
(* fits, wherever it was stopped before, and although wait_for_write looks   *)
(* at a chip that is still selected after a read back.                       *)
THEOREM FileAlwaysInFlash == FlashSpec => []FileInFlash
<1>1. FlashInit => FlashInv BY InitFlash
<1>2. FlashInv /\ [FlashNext]_flashVars => FlashInv'
  <2> SUFFICES ASSUME FlashInv, [FlashNext]_flashVars PROVE FlashInv' OBVIOUS
  <2>1. CASE FlashNext
    BY <2>1, SetupKeeps, LookKeeps, EraseEnableKeeps, EraseKeeps, FreadKeeps,
       ProgramEnableKeeps, ProgramKeeps, CompareKeeps, ChipDoneKeeps
    DEF FlashNext
  <2>2. CASE UNCHANGED flashVars
    <3>1. sketch' = sketch /\ file' = file /\ addr' = addr /\ select' = select
          /\ chip' = chip
      BY <2>2 DEF flashVars
    <3>2. Resting' = Resting /\ Written' = Written
      BY <3>1 DEF Resting, Written, Address, Block
    <3>3. \A k : Held(k)' = Held(k) /\ Below(k)' = Below(k)
      BY <3>1 DEF Held, Below
    <3> QED BY <3>1, <3>2, <3>3
         DEF FlashInv, Shape, SketchShape, FileShape, AddrShape, ChipShape, Placed,
             Rests, Kept, Cleared, Before, Between, Entered, AtBlock, At, WaitsTo
  <2> QED BY <2>1, <2>2
<1>3. FlashInv => FileInFlash
  <2> SUFFICES ASSUME FlashInv PROVE FileInFlash OBVIOUS
  <2>1. sketch.pc = "sum" =>
          \A k \in 1 .. Len(file.blocks) : \A i \in 0 .. file.blocks[k].count - 1 :
            (k - 1) * Page + i \in chip.mem <=> i \in file.blocks[k].zeros
    BY DEF FlashInv, Kept, At, Held
  <2>2. DOMAIN file.blocks = 1 .. Len(file.blocks)
    BY DEF FlashInv, Shape, FileShape, WellFormed
  <2>3. sketch.pc = "error" => ~sketch.rested
    BY DEF FlashInv, Cleared, At
  <2> QED BY <2>1, <2>2, <2>3 DEF FileInFlash
<1> QED BY <1>1, <1>2, <1>3, PTL DEF FlashSpec
=============================================================================
