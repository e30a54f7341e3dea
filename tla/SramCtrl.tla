------------------------------ MODULE SramCtrl ------------------------------
(***************************************************************************)
(* fpga-si4463/SRAM_ctrl.v: the arbiter of the one SRAM chip.  It serves    *)
(* ten kinds of request in a fixed priority and keeps four regions in the   *)
(* chip: FIFO_I (CPU to radio), FIFO_O (radio to CPU), the start-up         *)
(* configuration and the single commands.                                   *)
(*                                                                          *)
(* One step is one posedge of clk.  The request lines, the data lines and   *)
(* the two rollback lines belong to the other modules and are parameters of *)
(* Step, sampled before the edge; every variable below is a register of     *)
(* SRAM_ctrl, except mem, the chip.                                         *)
(***************************************************************************)
EXTENDS Integers

CONSTANTS
  CONFIG_START_P, CONFIG_MAXEND_P,   \* configuration region, end exclusive
  CMD_START_P, CMD_MAXEND_P,         \* single-command region
  MIN_FIFO_I_PTR, MAX_FIFO_I_PTR,    \* FIFO_I region
  MIN_FIFO_O_PTR, MAX_FIFO_O_PTR,    \* FIFO_O region
  ADDR_SPACE,                        \* 2^18, the width of pointers and counts
  Word,                              \* the 16-bit words
  RequestSets,                       \* the sets of requests raised together
  Starts, Rollbacks                  \* the values of the receiver's two lines

ASSUME LayoutAssumption ==
  /\ CONFIG_START_P \in Nat /\ CONFIG_MAXEND_P \in Nat
  /\ CMD_START_P \in Nat /\ CMD_MAXEND_P \in Nat
  /\ MIN_FIFO_I_PTR \in Nat /\ MAX_FIFO_I_PTR \in Nat
  /\ MIN_FIFO_O_PTR \in Nat /\ MAX_FIFO_O_PTR \in Nat
  /\ ADDR_SPACE \in Nat
  /\ CONFIG_START_P < CONFIG_MAXEND_P /\ CONFIG_MAXEND_P <= CMD_START_P
  /\ CMD_START_P <= CMD_MAXEND_P /\ CMD_MAXEND_P < MIN_FIFO_I_PTR
  /\ MIN_FIFO_I_PTR <= MAX_FIFO_I_PTR /\ MAX_FIFO_I_PTR < MIN_FIFO_O_PTR
  /\ MIN_FIFO_O_PTR <= MAX_FIFO_O_PTR /\ MAX_FIFO_O_PTR < ADDR_SPACE - 1

(* The requests, numbered by priority.  The number of a request is also the *)
(* value Current_State takes when it is granted.                            *)
slave_write       == 1
slave_read        == 2
master_write      == 3
master_read       == 4
config_write      == 5
config_read       == 6
config_write_done == 7
config_read_done  == 8
cmd_write         == 9
cmd_read          == 10

Request == 1 .. 10

ASSUME InputAssumption ==
  /\ RequestSets \subseteq SUBSET Request /\ Word # {}
  /\ Starts \subseteq BOOLEAN /\ Rollbacks \subseteq BOOLEAN

FIFO_I_SIZE == MAX_FIFO_I_PTR - MIN_FIFO_I_PTR + 1
FIFO_O_SIZE == MAX_FIFO_O_PTR - MIN_FIFO_O_PTR + 1
Addr == 0 .. (ADDR_SPACE - 1)

VARIABLES
  Current_State, nUsing, opcode,
  mem, mem_addr, data_to_sram, data_from_sram,
  slave_hint, master_hint, slave_data_from_sram, master_data_from_sram,
  fifo_i_rd_ptr, fifo_i_wr_ptr, fifo_i_count, fifo_i_empty, fifo_i_full,
  fifo_o_rd_ptr, fifo_o_wr_ptr, fifo_o_count, fifo_o_empty, fifo_o_full,
  fifo_o_wr_ptr_tmp,
  config_wr_ptr, config_rd_ptr, cmd_wr_ptr, cmd_rd_ptr,
  wireless_control_need_reset

ctlVars    == <<Current_State, nUsing, opcode, wireless_control_need_reset>>
busVars    == <<mem, mem_addr, data_to_sram, data_from_sram>>
answerVars == <<slave_hint, master_hint,
                slave_data_from_sram, master_data_from_sram>>
fifoIVars  == <<fifo_i_rd_ptr, fifo_i_wr_ptr, fifo_i_count>>
fifoOVars  == <<fifo_o_rd_ptr, fifo_o_count>>
storeVars  == <<config_wr_ptr, config_rd_ptr, cmd_wr_ptr, cmd_rd_ptr>>
flagVars   == <<fifo_i_empty, fifo_i_full, fifo_o_empty, fifo_o_full>>
vars == <<ctlVars, busVars, answerVars, fifoIVars, fifoOVars, storeVars,
          flagVars, fifo_o_wr_ptr, fifo_o_wr_ptr_tmp>>

-----------------------------------------------------------------------------
(* 18-bit arithmetic, and a ring pointer's step: the pointer is incremented *)
(* first and compared with the end of its region afterwards.                *)
Inc18(p) == IF p = ADDR_SPACE - 1 THEN 0 ELSE p + 1
Dec18(p) == IF p = 0 THEN ADDR_SPACE - 1 ELSE p - 1
(* Wrong variants, here and below, which the runs tell from the code:       *)
(* wrapping one word early, one word late, or never.                        *)
RingNextEarly(p, lo, hi)   == IF Inc18(p) >= hi THEN lo ELSE Inc18(p)
RingNextLate(p, lo, hi)    == IF Inc18(p) > hi + 1 THEN lo ELSE Inc18(p)
RingNextUnbound(p, lo, hi) == p + 1
RingNext(p, lo, hi) == IF Inc18(p) > hi THEN lo ELSE Inc18(p)

Init ==
  /\ Current_State = 0 /\ nUsing = FALSE /\ opcode = 0
  /\ wireless_control_need_reset = FALSE
  /\ mem \in {[a \in Addr |-> w] : w \in Word}
  /\ mem_addr = 0
  /\ data_to_sram \in Word /\ data_from_sram \in Word
  /\ slave_hint = FALSE /\ master_hint = FALSE
  /\ slave_data_from_sram \in Word /\ master_data_from_sram \in Word
  /\ fifo_i_rd_ptr = MIN_FIFO_I_PTR /\ fifo_i_wr_ptr = MIN_FIFO_I_PTR
  /\ fifo_i_count = 0 /\ fifo_i_empty = TRUE /\ fifo_i_full = FALSE
  /\ fifo_o_rd_ptr = MIN_FIFO_O_PTR /\ fifo_o_wr_ptr = MIN_FIFO_O_PTR
  /\ fifo_o_count = 0 /\ fifo_o_empty = TRUE /\ fifo_o_full = FALSE
  /\ fifo_o_wr_ptr_tmp = 0         \* no initialiser: the FPGA's power-up value
  /\ config_wr_ptr = CONFIG_START_P /\ config_rd_ptr = CONFIG_START_P
  /\ cmd_wr_ptr = CMD_START_P /\ cmd_rd_ptr = CMD_START_P

(* The two lines of the receiver, handled before the case statement: a      *)
(* packet starts, its words are to be dropped.  fifo_o_count stays.         *)
MarkedWrPtrNever(start) == fifo_o_wr_ptr_tmp    \* wrong: the mark is lost
MarkedWrPtr(start) == IF start THEN fifo_o_wr_ptr ELSE fifo_o_wr_ptr_tmp
FifoOWrPtr(start, rollback) ==
  IF rollback THEN MarkedWrPtr(start) ELSE fifo_o_wr_ptr

(* The second always block: the flags follow the counts one edge later.     *)
UpdateFlagsEarly ==              \* wrong: full one word early
  /\ fifo_i_full'  = (fifo_i_count = FIFO_I_SIZE - 1)
  /\ fifo_i_empty' = (fifo_i_count = 0)
  /\ fifo_o_full'  = (fifo_o_count = FIFO_O_SIZE - 1)
  /\ fifo_o_empty' = (fifo_o_count = 0)

UpdateFlags ==
  /\ fifo_i_full'  = (fifo_i_count = FIFO_I_SIZE)
  /\ fifo_i_empty' = (fifo_i_count = 0)
  /\ fifo_o_full'  = (fifo_o_count = FIFO_O_SIZE)
  /\ fifo_o_empty' = (fifo_o_count = 0)

-----------------------------------------------------------------------------
(* State 0, an if-else chain: only the first raised request is looked at,   *)
(* and when its FIFO is full or empty nothing else is granted either.       *)
BlockedNotFull(r) ==             \* wrong: no test for a full FIFO_O
  \/ r = slave_write /\ fifo_i_full
  \/ r = slave_read  /\ fifo_o_empty
  \/ r = master_read /\ fifo_i_empty
Blocked(r) == \/ r = slave_write  /\ fifo_i_full
              \/ r = slave_read   /\ fifo_o_empty
              \/ r = master_write /\ fifo_o_full
              \/ r = master_read  /\ fifo_i_empty

First(r, req) == r \in req /\ \A q \in req : r <= q

Granted(r, req) == ~nUsing /\ First(r, req) /\ ~Blocked(r)

Arbitrate(req, wr) ==
  /\ Current_State = 0
  /\ \/ \E r \in req : /\ Granted(r, req)
                       /\ Current_State' = r
                       /\ nUsing' = TRUE
     \/ /\ \A r \in req : ~Granted(r, req)
        /\ UNCHANGED <<Current_State, nUsing>>
  /\ fifo_o_wr_ptr' = wr
  /\ UNCHANGED <<opcode, wireless_control_need_reset, busVars, answerVars,
                 fifoIVars, fifoOVars, storeVars>>

(* What the states 1 to 6, 9 and 10 have in common: put an address (and for *)
(* a write the data) on the bus and go to the write or the read cycle.      *)
StartWrite(op, addr, data) ==
  /\ opcode' = op /\ mem_addr' = addr /\ data_to_sram' = data
  /\ Current_State' = 20
  /\ UNCHANGED <<nUsing, wireless_control_need_reset, mem, data_from_sram,
                 answerVars>>

StartRead(op, addr) ==
  /\ opcode' = op /\ mem_addr' = addr
  /\ Current_State' = 21
  /\ UNCHANGED <<nUsing, wireless_control_need_reset, mem, data_to_sram,
                 data_from_sram, answerVars>>

SlaveWrite(data, wr) ==
  /\ Current_State = 1
  /\ StartWrite(1, fifo_i_wr_ptr, data)
  /\ fifo_i_wr_ptr' = RingNext(fifo_i_wr_ptr, MIN_FIFO_I_PTR, MAX_FIFO_I_PTR)
  /\ fifo_i_count' = Inc18(fifo_i_count)
  /\ fifo_o_wr_ptr' = wr
  /\ UNCHANGED <<fifo_i_rd_ptr, fifoOVars, storeVars>>

SlaveRead(wr) ==
  /\ Current_State = 2
  /\ StartRead(2, fifo_o_rd_ptr)
  /\ fifo_o_rd_ptr' = RingNext(fifo_o_rd_ptr, MIN_FIFO_O_PTR, MAX_FIFO_O_PTR)
  /\ fifo_o_count' = Dec18(fifo_o_count)
  /\ fifo_o_wr_ptr' = wr
  /\ UNCHANGED <<fifoIVars, storeVars>>

MasterWrite(data, wr) ==
  /\ Current_State = 3
  /\ StartWrite(3, wr, data)
  /\ fifo_o_wr_ptr' = RingNext(wr, MIN_FIFO_O_PTR, MAX_FIFO_O_PTR)
  /\ fifo_o_count' = Inc18(fifo_o_count)
  /\ UNCHANGED <<fifo_o_rd_ptr, fifoIVars, storeVars>>

MasterRead(wr) ==
  /\ Current_State = 4
  /\ StartRead(4, fifo_i_rd_ptr)
  /\ fifo_i_rd_ptr' = RingNext(fifo_i_rd_ptr, MIN_FIFO_I_PTR, MAX_FIFO_I_PTR)
  /\ fifo_i_count' = Dec18(fifo_i_count)
  /\ fifo_o_wr_ptr' = wr
  /\ UNCHANGED <<fifo_i_wr_ptr, fifoOVars, storeVars>>

(* The configuration pointers have no test for the end of their region.     *)
ConfigWrite(data, wr) ==
  /\ Current_State = 5
  /\ StartWrite(5, config_wr_ptr, data)
  /\ config_wr_ptr' = Inc18(config_wr_ptr)
  /\ fifo_o_wr_ptr' = wr
  /\ UNCHANGED <<config_rd_ptr, cmd_wr_ptr, cmd_rd_ptr, fifoIVars, fifoOVars>>

ConfigRead(wr) ==
  /\ Current_State = 6
  /\ StartRead(6, config_rd_ptr)
  /\ config_rd_ptr' = Inc18(config_rd_ptr)
  /\ fifo_o_wr_ptr' = wr
  /\ UNCHANGED <<config_wr_ptr, cmd_wr_ptr, cmd_rd_ptr, fifoIVars, fifoOVars>>

(* A new configuration is complete: both FIFOs are emptied and a one-cycle  *)
(* reset of Wireless_Ctrl follows (states 25 and 26).                       *)
ConfigWriteDoneKeeps ==          \* wrong: the write pointer is not reset
  /\ Current_State = 7
  /\ Current_State' = 25
  /\ config_rd_ptr' = CONFIG_START_P
  /\ fifo_i_rd_ptr' = MIN_FIFO_I_PTR /\ fifo_i_wr_ptr' = MIN_FIFO_I_PTR
  /\ fifo_o_rd_ptr' = MIN_FIFO_O_PTR /\ fifo_o_wr_ptr' = MIN_FIFO_O_PTR
  /\ fifo_i_count' = 0 /\ fifo_o_count' = 0
  /\ UNCHANGED <<config_wr_ptr, nUsing, opcode, wireless_control_need_reset,
                 busVars, answerVars, cmd_wr_ptr, cmd_rd_ptr>>

ConfigWriteDone ==
  /\ Current_State = 7
  /\ Current_State' = 25
  /\ config_wr_ptr' = CONFIG_START_P /\ config_rd_ptr' = CONFIG_START_P
  /\ fifo_i_rd_ptr' = MIN_FIFO_I_PTR /\ fifo_i_wr_ptr' = MIN_FIFO_I_PTR
  /\ fifo_o_rd_ptr' = MIN_FIFO_O_PTR /\ fifo_o_wr_ptr' = MIN_FIFO_O_PTR
  /\ fifo_i_count' = 0 /\ fifo_o_count' = 0
  /\ UNCHANGED <<nUsing, opcode, wireless_control_need_reset, busVars,
                 answerVars, cmd_wr_ptr, cmd_rd_ptr>>

ConfigReadDone(wr) ==
  /\ Current_State = 8
  /\ Current_State' = 27
  /\ config_wr_ptr' = CONFIG_START_P /\ config_rd_ptr' = CONFIG_START_P
  /\ fifo_o_wr_ptr' = wr
  /\ UNCHANGED <<nUsing, opcode, wireless_control_need_reset, busVars,
                 answerVars, fifoIVars, fifoOVars, cmd_wr_ptr, cmd_rd_ptr>>

CmdWrite(data, wr) ==
  /\ Current_State = 9
  /\ StartWrite(7, cmd_wr_ptr, data)
  /\ cmd_wr_ptr' = RingNext(cmd_wr_ptr, CMD_START_P, CMD_MAXEND_P)
  /\ fifo_o_wr_ptr' = wr
  /\ UNCHANGED <<cmd_rd_ptr, config_wr_ptr, config_rd_ptr, fifoIVars,
                 fifoOVars>>

CmdRead(wr) ==
  /\ Current_State = 10
  /\ StartRead(8, cmd_rd_ptr)
  /\ cmd_rd_ptr' = RingNext(cmd_rd_ptr, CMD_START_P, CMD_MAXEND_P)
  /\ fifo_o_wr_ptr' = wr
  /\ UNCHANGED <<cmd_wr_ptr, config_wr_ptr, config_rd_ptr, fifoIVars,
                 fifoOVars>>

-----------------------------------------------------------------------------
(* The bus cycle: 20 or 21, 19, 22, 23, 24.                                 *)
pointerVars == <<fifoIVars, fifoOVars, storeVars>>

DriveWrite(wr) ==                \* WE_n low: the chip takes the word
  /\ Current_State = 20
  /\ Current_State' = 19
  /\ mem' = [mem EXCEPT ![mem_addr] = data_to_sram]
  /\ fifo_o_wr_ptr' = wr
  /\ UNCHANGED <<nUsing, opcode, wireless_control_need_reset, mem_addr,
                 data_to_sram, data_from_sram, answerVars, pointerVars>>

AccessTime(wr) ==                \* 21 drives OE_n, 19 waits for the chip
  /\ Current_State \in {21, 19}
  /\ Current_State' = IF Current_State = 21 THEN 19 ELSE 22
  /\ fifo_o_wr_ptr' = wr
  /\ UNCHANGED <<nUsing, opcode, wireless_control_need_reset, busVars,
                 answerVars, pointerVars>>

Latch(wr) ==                     \* data_from_sram <= Dout
  /\ Current_State = 22
  /\ Current_State' = 23
  /\ data_from_sram' = mem[mem_addr]
  /\ fifo_o_wr_ptr' = wr
  /\ UNCHANGED <<nUsing, opcode, wireless_control_need_reset, mem, mem_addr,
                 data_to_sram, answerVars, pointerVars>>

SlaveOps  == {1, 2, 5, 7}        \* opcodes answered with slave_hint
MasterOps == {3, 4, 6, 8}        \* opcodes answered with master_hint

HintAlways(wr) ==                \* wrong: a write changes the data lines too
  /\ Current_State = 23
  /\ Current_State' = 24
  /\ slave_hint'  = (slave_hint  \/ opcode \in SlaveOps)
  /\ master_hint' = (master_hint \/ opcode \in MasterOps)
  /\ slave_data_from_sram' =
       IF opcode \in {1, 2} THEN data_from_sram ELSE slave_data_from_sram
  /\ master_data_from_sram' =
       IF opcode \in {4, 6, 8} THEN data_from_sram ELSE master_data_from_sram
  /\ opcode' = 0
  /\ fifo_o_wr_ptr' = wr
  /\ UNCHANGED <<nUsing, wireless_control_need_reset, busVars, pointerVars>>

Hint(wr) ==
  /\ Current_State = 23
  /\ Current_State' = 24
  /\ slave_hint'  = (slave_hint  \/ opcode \in SlaveOps)
  /\ master_hint' = (master_hint \/ opcode \in MasterOps)
  /\ slave_data_from_sram' =
       IF opcode = 2 THEN data_from_sram ELSE slave_data_from_sram
  /\ master_data_from_sram' =
       IF opcode \in {4, 6, 8} THEN data_from_sram ELSE master_data_from_sram
  /\ opcode' = 0
  /\ fifo_o_wr_ptr' = wr
  /\ UNCHANGED <<nUsing, wireless_control_need_reset, busVars, pointerVars>>

Release(wr) ==
  /\ Current_State = 24
  /\ Current_State' = 0 /\ nUsing' = FALSE
  /\ slave_hint' = FALSE /\ master_hint' = FALSE
  /\ fifo_o_wr_ptr' = wr
  /\ UNCHANGED <<opcode, wireless_control_need_reset, busVars,
                 slave_data_from_sram, master_data_from_sram, pointerVars>>

(* States 25 and 26 pulse the reset of Wireless_Ctrl; 27 only releases.     *)
ResetPulse(wr) ==
  /\ Current_State \in {25, 26, 27}
  /\ wireless_control_need_reset' =
       IF Current_State = 27 THEN wireless_control_need_reset
                             ELSE Current_State = 25
  /\ Current_State' = IF Current_State = 25 THEN 26 ELSE 0
  /\ nUsing' = (Current_State = 25 /\ nUsing)
  /\ fifo_o_wr_ptr' = wr
  /\ UNCHANGED <<opcode, busVars, answerVars, pointerVars>>

BusCycle(wr) ==
  DriveWrite(wr) \/ AccessTime(wr) \/ Latch(wr) \/ Hint(wr) \/ Release(wr)
  \/ ResetPulse(wr)

(* Everything but state 0 and the states that sample a data line.           *)
Serve(wr) ==
  \/ SlaveRead(wr) \/ MasterRead(wr)
  \/ ConfigRead(wr) \/ ConfigWriteDone \/ ConfigReadDone(wr)
  \/ CmdRead(wr) \/ BusCycle(wr)

(* One posedge, given what the other modules drive.                         *)
Edge(start) == UpdateFlags /\ fifo_o_wr_ptr_tmp' = MarkedWrPtr(start)

Step(req, start, rollback, slaveData, masterData) ==
  LET wr == FifoOWrPtr(start, rollback) IN
  /\ Edge(start)
  /\ \/ Arbitrate(req, wr)
     \/ SlaveWrite(slaveData, wr) \/ ConfigWrite(slaveData, wr)
     \/ CmdWrite(slaveData, wr) \/ MasterWrite(masterData, wr)
     \/ Serve(wr)

(* The controller under arbitrary neighbours: a Step with any requests of   *)
(* RequestSets, any data and any marks and rollbacks the constants allow.   *)
Next ==
  \E start \in Starts, rollback \in Rollbacks :
    LET wr == FifoOWrPtr(start, rollback) IN
    /\ Edge(start)
    /\ \/ \E req \in RequestSets : Arbitrate(req, wr)
       \/ \E w \in Word : \/ SlaveWrite(w, wr) \/ ConfigWrite(w, wr)
                          \/ CmdWrite(w, wr) \/ MasterWrite(w, wr)
       \/ Serve(wr)

Spec == Init /\ [][Next]_vars

-----------------------------------------------------------------------------
(* Type invariant: every register keeps its width.                          *)
TypeOK ==
  /\ Current_State \in 0 .. 10 \cup {19, 20, 21, 22, 23, 24, 25, 26, 27}
  /\ nUsing \in BOOLEAN /\ opcode \in 0 .. 8
  /\ wireless_control_need_reset \in BOOLEAN
  /\ mem \in [Addr -> Word] /\ mem_addr \in Addr
  /\ data_to_sram \in Word /\ data_from_sram \in Word
  /\ slave_hint \in BOOLEAN /\ master_hint \in BOOLEAN
  /\ slave_data_from_sram \in Word /\ master_data_from_sram \in Word
  /\ fifo_i_rd_ptr \in Addr /\ fifo_i_wr_ptr \in Addr /\ fifo_i_count \in Addr
  /\ fifo_o_rd_ptr \in Addr /\ fifo_o_wr_ptr \in Addr /\ fifo_o_count \in Addr
  /\ fifo_o_wr_ptr_tmp \in Addr
  /\ fifo_i_empty \in BOOLEAN /\ fifo_i_full \in BOOLEAN
  /\ fifo_o_empty \in BOOLEAN /\ fifo_o_full \in BOOLEAN
  /\ config_wr_ptr \in Addr /\ config_rd_ptr \in Addr
  /\ cmd_wr_ptr \in Addr /\ cmd_rd_ptr \in Addr

(* The claim of the comment at SRAM_ctrl.v:461: although the flags lag the  *)
(* counts by an edge, whenever another request can be granted they tell the *)
(* truth.                                                                   *)
FlagsTrueWhenArbitrating ==
  Current_State = 0 =>
    /\ fifo_i_full = (fifo_i_count = FIFO_I_SIZE)
    /\ fifo_i_empty = (fifo_i_count = 0)
    /\ fifo_o_full = (fifo_o_count = FIFO_O_SIZE)
    /\ fifo_o_empty = (fifo_o_count = 0)

(* No FIFO is written when full or read when empty, whoever asks, so the    *)
(* 18-bit counts never wrap: the guards of states 0 (SRAM_ctrl.v:178-209)   *)
(* read flags of an earlier edge.                                           *)
CountsInBounds ==
  fifo_i_count \in 0 .. FIFO_I_SIZE /\ fifo_o_count \in 0 .. FIFO_O_SIZE

(* A ring whose count is the distance from its read to its write pointer.   *)
Consistent(rd, wr, count, lo, hi) ==
  /\ rd \in lo .. hi /\ wr \in lo .. hi
  /\ count \in 0 .. (hi - lo + 1)
  /\ wr = rd + count \/ wr = rd + count - (hi - lo + 1)

(* FIFO_I's two pointers and its count (SRAM_ctrl.v:248-292) always agree.  *)
FifoIConsistent ==
  Consistent(fifo_i_rd_ptr, fifo_i_wr_ptr, fifo_i_count,
             MIN_FIFO_I_PTR, MAX_FIFO_I_PTR)

(* The same of FIFO_O; a rollback (SRAM_ctrl.v:170-173) moves its write     *)
(* pointer and leaves its count.                                            *)
FifoOConsistent ==
  Consistent(fifo_o_rd_ptr, fifo_o_wr_ptr, fifo_o_count,
             MIN_FIFO_O_PTR, MAX_FIFO_O_PTR)

(* The word a bus write is about to store lies in the region of the request *)
(* that was granted: packets of the two directions and commands never       *)
(* overwrite one another.  The configuration region has no end test.        *)
Region(op) == CASE op = 1 -> MIN_FIFO_I_PTR .. MAX_FIFO_I_PTR
                [] op = 3 -> MIN_FIFO_O_PTR .. MAX_FIFO_O_PTR
                [] op = 7 -> CMD_START_P .. CMD_MAXEND_P
                [] OTHER -> Addr
WritesInOwnRegion == Current_State = 20 => mem_addr \in Region(opcode)
=============================================================================
