------------------------------ MODULE SramFifo ------------------------------
(***************************************************************************)
(* SRAM_ctrl as the two queues of FifoPair.  A queue is the words from the  *)
(* read pointer on, as many as the count says; the word of a write that is  *)
(* still on the bus is the one the bus holds, and the word of a read is     *)
(* taken when its address is put on the bus.                                *)
(***************************************************************************)
EXTENDS SramCtrl, Sequences

Wrap(a, lo, hi) == IF a > hi THEN a - (hi - lo + 1) ELSE a

Held(a) ==
  IF Current_State = 20 /\ a = mem_addr THEN data_to_sram ELSE mem[a]

QueueI == [k \in 1 .. fifo_i_count |->
             Held(Wrap(fifo_i_rd_ptr + k - 1, MIN_FIFO_I_PTR, MAX_FIFO_I_PTR))]
QueueO == [k \in 1 .. fifo_o_count |->
             Held(Wrap(fifo_o_rd_ptr + k - 1, MIN_FIFO_O_PTR, MAX_FIFO_O_PTR))]

SlaveAnswer  == IF opcode = 2 THEN mem[mem_addr] ELSE slave_data_from_sram
MasterAnswer ==
  IF opcode \in {4, 6, 8} THEN mem[mem_addr] ELSE master_data_from_sram

Fifos == INSTANCE FifoPair WITH
  SizeI <- FIFO_I_SIZE, SizeO <- FIFO_O_SIZE,
  qi <- QueueI, qo <- QueueO,
  slaveData <- SlaveAnswer, masterData <- MasterAnswer

(* Without rollbacks SRAM_ctrl implements the two queues: no word is lost,  *)
(* duplicated, reordered or overwritten between two clients whose requests  *)
(* interleave in any way.                                                   *)
ImplementsFifos == Fifos!Spec
=============================================================================
