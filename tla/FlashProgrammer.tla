-------------------------- MODULE FlashProgrammer --------------------------
(***************************************************************************)
(* spi_flash_programer: the sketch that writes the bit stream of the FPGA    *)
(* into the flash beside it: erase the chip, then write a page and read it   *)
(* back, page after page.  One action per call of api.cpp.  The chip is       *)
(* external: it takes a command only after the select line falls, ignores    *)
(* all but the status command while it erases or writes, and erases or       *)
(* writes only after a write enable.  The sketch can be stopped and started  *)
(* again at any call; the chip goes on.  A byte of the model is erased or 0. *)
(***************************************************************************)
EXTENDS Integers, Sequences

CONSTANTS
  Files,      \* what may be written: blocks, full ones but for the last
  Page,       \* the bytes of a page, 256
  Rows,       \* the values of addr[1] and of addr[0], 256
  MaxRuns     \* bound of the model: how often the sketch is started

Size == Rows * Rows * Page
Blocks == {b \in [count : 1 .. Page, zeros : SUBSET (0 .. Page - 1)] :
             b.zeros \subseteq 0 .. b.count - 1}

ASSUME FlashAssumption ==
  /\ Page \in Nat \ {0, 1} /\ Rows \in Nat \ {0, 1} /\ MaxRuns \in Nat
  /\ \A f \in Files : /\ f \in Seq(Blocks) /\ Len(f) * Page <= Size
                      /\ \A k \in 1 .. Len(f) - 1 : f[k].count = Page

VARIABLES
  sketch,     \* where it is, where wait_for_write returns to, how often it was
              \* started, and whether the chip was at rest then
  file,       \* the blocks, and how many were read
  addr,       \* addr[0], addr[1], addr[2]
  select,     \* the select line: high, or low since a read up to this byte
  chip        \* the addresses that are 0, the command at work, write enable

flashVars == <<sketch, file, addr, select, chip>>

High == -1
AtRest == [kind |-> "rest", zeros |-> {}]
FlashInit ==
  /\ sketch = [pc |-> "off", then |-> "off", runs |-> 0, rested |-> TRUE]
  /\ file = [blocks |-> <<>>, read |-> 0]
  /\ addr = <<0, 0, 0>> /\ select = High
  /\ chip = [mem |-> {}, work |-> AtRest, enabled |-> FALSE]

(* The chip.                                                                 *)
Resting == chip.work = AtRest
WriteEnabled == IF Resting THEN [chip EXCEPT !.enabled = TRUE] ELSE chip
Working(kind, zeros) ==
  IF Resting /\ chip.enabled
    THEN [chip EXCEPT !.work = [kind |-> kind, zeros |-> zeros]] ELSE chip
ChipDone ==
  /\ ~Resting
  /\ chip' = [mem |-> IF chip.work.kind = "erase" THEN {} ELSE chip.mem \cup chip.work.zeros,
              work |-> AtRest, enabled |-> FALSE]
  /\ UNCHANGED <<sketch, file, addr, select>>

-----------------------------------------------------------------------------
Goes(pc)   == sketch' = [sketch EXCEPT !.pc = pc]
Waits(pc)  == sketch' = [sketch EXCEPT !.pc = "wait", !.then = pc]
Block      == file.blocks[file.read]
Address    == (addr[1] * Rows + addr[2]) * Page + addr[3]

Setup ==
  /\ sketch.runs < MaxRuns
  /\ sketch' = [pc |-> "unlock", then |-> "unlock", runs |-> sketch.runs + 1,
                rested |-> Resting]
  /\ \E f \in Files : file' = [blocks |-> f, read |-> 0]
  /\ addr' = <<0, 0, 0>> /\ select' = High /\ UNCHANGED chip

(* One look of wait_for_write.  If the select line is still low after a      *)
(* read, the chip takes the command for one more byte to read, and what it   *)
(* answers for its status is the byte after that: busy, if it is erased.     *)
Busy == IF select = High THEN ~Resting ELSE (select + 1) % Size \notin chip.mem
Look ==
  /\ sketch.pc = "wait" /\ select' = High
  /\ IF Busy THEN UNCHANGED sketch ELSE Goes(sketch.then)
  /\ UNCHANGED <<file, addr, chip>>

(* chip_erase, after readMD_ID: enable, wait, erase, wait.                   *)
EraseEnable ==
  /\ sketch.pc = "unlock" /\ chip' = WriteEnabled /\ Waits("erase")
  /\ UNCHANGED <<file, addr, select>>
Erase ==
  /\ sketch.pc = "erase" /\ chip' = Working("erase", {}) /\ Waits("fread")
  /\ UNCHANGED <<file, addr, select>>

(* fread, and the tests pp begins with: they leave a full block that is not  *)
(* at the start of a page unwritten.                                         *)
Fread ==
  /\ sketch.pc = "fread"
  /\ IF file.read = Len(file.blocks) THEN Goes("sum") /\ UNCHANGED file
     ELSE /\ file' = [file EXCEPT !.read = @ + 1]
          /\ Waits(IF Block'.count = Page /\ addr[3] # 0 THEN "compare" ELSE "enable")
  /\ UNCHANGED <<addr, select, chip>>

ProgramEnable ==
  /\ sketch.pc = "enable" /\ chip' = WriteEnabled /\ Goes("program")
  /\ UNCHANGED <<file, addr, select>>

Written == {Address - addr[3] + ((addr[3] + i) % Page) : i \in Block.zeros}
ProgramHasty ==                     \* wrong: the read does not wait
  /\ sketch.pc = "program" /\ chip' = Working("program", Written)
  /\ Goes("compare")
  /\ UNCHANGED <<file, addr, select>>
Program ==
  /\ sketch.pc = "program" /\ chip' = Working("program", Written)
  /\ Waits("compare")
  /\ UNCHANGED <<file, addr, select>>

(* The address of the next block.                                            *)
Carry == IF addr[2] < Rows - 1 THEN <<addr[1], addr[2] + 1>>
         ELSE <<(addr[1] + 1) % Rows, 0>>
NextAddr ==
  LET count == Block.count
      room  == Page - 1 - count
  IN  IF count = Page THEN Append(Carry, addr[3])
      ELSE IF addr[3] < room THEN <<addr[1], addr[2], addr[3] + count>>
      ELSE Append(Carry, (count - room) % Page)

(* rd4cmp: returns before it raises the select line.  A chip at work does    *)
(* not take the read, and the bytes that come back are anything.             *)
Same == \A i \in 0 .. Block.count - 1 :
          (Address + i) % Size \in chip.mem <=> i \in Block.zeros
Compare ==
  /\ sketch.pc = "compare"
  /\ \E same \in IF Resting THEN {Same} ELSE BOOLEAN :
       IF same THEN Goes("fread") /\ addr' = NextAddr
       ELSE Goes("error") /\ UNCHANGED addr
  /\ select' = (Address + Block.count) % Size
  /\ UNCHANGED <<file, chip>>

FlashNext == \/ Setup \/ Look \/ EraseEnable \/ Erase \/ Fread \/ ProgramEnable
             \/ Program \/ Compare \/ ChipDone
FlashSpec == FlashInit /\ [][FlashNext]_flashVars

-----------------------------------------------------------------------------
(* When the sketch prints the sum, every byte of the file is in the flash at *)
(* its place, whatever was there and however often the sketch was stopped;   *)
(* and it reports an error only if the chip was still at work when it began  *)
(* (chip_erase, api.cpp:131-133, enables before it waits), although the read *)
(* back leaves the chip selected (api.cpp:114-128, spi_flash.ino:69-79).     *)
FileInFlash ==
  /\ sketch.pc = "sum" =>
       \A k \in DOMAIN file.blocks : \A i \in 0 .. file.blocks[k].count - 1 :
         (k - 1) * Page + i \in chip.mem <=> i \in file.blocks[k].zeros
  /\ sketch.pc = "error" => ~sketch.rested
=============================================================================
