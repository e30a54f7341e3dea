--------------------------- MODULE SramFifo_proofs ---------------------------
(***************************************************************************)
(* Proofs about SramCtrl for every layout of the regions, every set of      *)
(* words and arbitrary neighbours; and that it implements the two queues of *)
(* FifoPair, as long as nothing is rolled back and no configuration is      *)
(* longer than its region.                                                  *)
(***************************************************************************)
EXTENDS SramFifo, SequenceTheorems, TLAPS

(* The write pointer a clock edge starts from is an 18-bit address.         *)
LEMMA WrPtrType ==
  ASSUME TypeOK, NEW start \in BOOLEAN, NEW rollback \in BOOLEAN
  PROVE  FifoOWrPtr(start, rollback) \in Addr /\ MarkedWrPtr(start) \in Addr
BY DEF TypeOK, FifoOWrPtr, MarkedWrPtr

(* Stepping a pointer or a count keeps it an 18-bit number.                 *)
LEMMA StepType ==
  ASSUME NEW p \in Addr, NEW lo \in Addr, NEW hi \in Addr
  PROVE  Inc18(p) \in Addr /\ Dec18(p) \in Addr /\ RingNext(p, lo, hi) \in Addr
BY LayoutAssumption DEF Addr, Inc18, Dec18, RingNext

(* The ends of the regions are addresses.                                   *)
LEMMA LayoutType ==
  /\ CONFIG_START_P \in Addr /\ CMD_START_P \in Addr /\ CMD_MAXEND_P \in Addr
  /\ MIN_FIFO_I_PTR \in Addr /\ MAX_FIFO_I_PTR \in Addr
  /\ MIN_FIFO_O_PTR \in Addr /\ MAX_FIFO_O_PTR \in Addr
  /\ 0 \in Addr
BY LayoutAssumption DEF Addr

(* Every step of SramCtrl keeps the registers in their types.               *)
LEMMA TypeStep == TypeOK /\ [Next]_vars => TypeOK'
<1> SUFFICES ASSUME TypeOK, [Next]_vars PROVE TypeOK'
  OBVIOUS
<1>1. CASE UNCHANGED vars
  BY <1>1 DEF TypeOK, vars, ctlVars, busVars, answerVars, fifoIVars,
              fifoOVars, storeVars, flagVars
<1>2. CASE Next
  <2>1. PICK start \in Starts, rollback \in Rollbacks :
          LET wr == FifoOWrPtr(start, rollback) IN
          /\ Edge(start)
          /\ \/ \E req \in RequestSets : Arbitrate(req, wr)
             \/ \E w \in Word : \/ SlaveWrite(w, wr) \/ ConfigWrite(w, wr)
                                \/ CmdWrite(w, wr) \/ MasterWrite(w, wr)
             \/ Serve(wr)
    BY <1>2 DEF Next
  <2> DEFINE wr == FifoOWrPtr(start, rollback)
  <2>2. wr \in Addr /\ MarkedWrPtr(start) \in Addr
    BY WrPtrType, InputAssumption
  <2> HIDE DEF wr
  <2>3. /\ fifo_o_wr_ptr_tmp' \in Addr
        /\ fifo_i_empty' \in BOOLEAN /\ fifo_i_full' \in BOOLEAN
        /\ fifo_o_empty' \in BOOLEAN /\ fifo_o_full' \in BOOLEAN
    BY <2>1, <2>2 DEF Edge, UpdateFlags
  <2>4. ASSUME NEW req \in RequestSets, Arbitrate(req, wr) PROVE TypeOK'
    <3>1. req \subseteq Request
      BY InputAssumption
    <3>2. Current_State' \in 0 .. 10
      BY <2>4, <3>1 DEF Arbitrate, Request, TypeOK
    <3>3. nUsing' \in BOOLEAN
      BY <2>4, Zenon DEF Arbitrate, TypeOK
    <3>4. QED
      BY <2>4, <3>2, <3>3, <2>2, <2>3 DEF TypeOK, Arbitrate, busVars, answerVars,
                                    fifoIVars, fifoOVars, storeVars
  <2>a. /\ RingNext(fifo_i_wr_ptr, MIN_FIFO_I_PTR, MAX_FIFO_I_PTR) \in Addr
        /\ RingNext(fifo_i_rd_ptr, MIN_FIFO_I_PTR, MAX_FIFO_I_PTR) \in Addr
        /\ RingNext(fifo_o_rd_ptr, MIN_FIFO_O_PTR, MAX_FIFO_O_PTR) \in Addr
        /\ RingNext(wr, MIN_FIFO_O_PTR, MAX_FIFO_O_PTR) \in Addr
        /\ RingNext(cmd_wr_ptr, CMD_START_P, CMD_MAXEND_P) \in Addr
        /\ RingNext(cmd_rd_ptr, CMD_START_P, CMD_MAXEND_P) \in Addr
        /\ Inc18(fifo_i_count) \in Addr /\ Dec18(fifo_i_count) \in Addr
        /\ Inc18(fifo_o_count) \in Addr /\ Dec18(fifo_o_count) \in Addr
        /\ Inc18(config_wr_ptr) \in Addr /\ Inc18(config_rd_ptr) \in Addr
    BY <2>2, StepType, LayoutType DEF TypeOK
  <2> USE LayoutType, <2>2, <2>3, <2>a DEF TypeOK, StartWrite, StartRead,
        busVars, answerVars, fifoIVars, fifoOVars, storeVars, pointerVars
  <2>5. ASSUME NEW w \in Word, SlaveWrite(w, wr) PROVE TypeOK'
    BY <2>5 DEF SlaveWrite
  <2>6. ASSUME NEW w \in Word, ConfigWrite(w, wr) PROVE TypeOK'
    BY <2>6 DEF ConfigWrite
  <2>7. ASSUME NEW w \in Word, CmdWrite(w, wr) PROVE TypeOK'
    BY <2>7 DEF CmdWrite
  <2>8. ASSUME NEW w \in Word, MasterWrite(w, wr) PROVE TypeOK'
    BY <2>8 DEF MasterWrite
  <2>9. CASE SlaveRead(wr)
    BY <2>9 DEF SlaveRead
  <2>10. CASE MasterRead(wr)
    BY <2>10 DEF MasterRead
  <2>11. CASE ConfigRead(wr)
    BY <2>11 DEF ConfigRead
  <2>12. CASE ConfigWriteDone
    BY <2>12 DEF ConfigWriteDone
  <2>13. CASE ConfigReadDone(wr)
    BY <2>13 DEF ConfigReadDone
  <2>14. CASE CmdRead(wr)
    BY <2>14 DEF CmdRead
  <2>15. CASE DriveWrite(wr)
    BY <2>15 DEF DriveWrite
  <2>16. CASE AccessTime(wr)
    BY <2>16 DEF AccessTime
  <2>17. CASE Latch(wr)
    BY <2>17 DEF Latch
  <2>18. CASE Hint(wr)
    BY <2>18 DEF Hint, SlaveOps, MasterOps
  <2>19. CASE Release(wr)
    <3>1. nUsing' \in BOOLEAN /\ slave_hint' \in BOOLEAN /\ master_hint' \in BOOLEAN
      BY <2>19, Zenon DEF Release
    <3>2. QED
      BY <2>19, <3>1 DEF Release
  <2>20. CASE ResetPulse(wr)
    <3>1. nUsing' \in BOOLEAN /\ wireless_control_need_reset' \in BOOLEAN
      BY <2>20, Zenon DEF ResetPulse
    <3>2. QED
      BY <2>20, <3>1 DEF ResetPulse
  <2>21. QED
    BY <2>1, <2>4, <2>5, <2>6, <2>7, <2>8, <2>9, <2>10, <2>11, <2>12, <2>13,
       <2>14, <2>15, <2>16, <2>17, <2>18, <2>19, <2>20
       DEF Serve, BusCycle, wr
<1>3. QED
  BY <1>1, <1>2

LEMMA TypeInit == Init => TypeOK
<1> SUFFICES ASSUME Init PROVE TypeOK
  OBVIOUS
<1>1. /\ nUsing \in BOOLEAN /\ wireless_control_need_reset \in BOOLEAN
      /\ slave_hint \in BOOLEAN /\ master_hint \in BOOLEAN
      /\ fifo_i_empty \in BOOLEAN /\ fifo_i_full \in BOOLEAN
      /\ fifo_o_empty \in BOOLEAN /\ fifo_o_full \in BOOLEAN
  BY Zenon DEF Init
<1>2. QED
  BY <1>1, LayoutType DEF Init, TypeOK

(* SRAM_ctrl's registers never leave their widths, whatever is requested.   *)
THEOREM TypeCorrect == Spec => []TypeOK
BY TypeInit, TypeStep, PTL DEF Spec

-----------------------------------------------------------------------------
(* Why the lagging flags are never misread: a count changes in states 1 to  *)
(* 4 and 7 only, the flags are stale on the one edge after that (states 20, *)
(* 21 and 25), and no request is granted there.  A granted FIFO request     *)
(* therefore still finds room, or a word, when it is carried out.           *)
FlagsMatch ==
  /\ fifo_i_full = (fifo_i_count = FIFO_I_SIZE)
  /\ fifo_i_empty = (fifo_i_count = 0)
  /\ fifo_o_full = (fifo_o_count = FIFO_O_SIZE)
  /\ fifo_o_empty = (fifo_o_count = 0)

CountInv ==
  /\ CountsInBounds
  /\ Current_State \notin {20, 21, 25} => FlagsMatch
  /\ Current_State = 1 => fifo_i_count < FIFO_I_SIZE
  /\ Current_State = 2 => 0 < fifo_o_count
  /\ Current_State = 3 => fifo_o_count < FIFO_O_SIZE
  /\ Current_State = 4 => 0 < fifo_i_count

(* A FIFO is smaller than the address space, so its count does not wrap.    *)
LEMMA SizeFact ==
  /\ FIFO_I_SIZE \in Nat \ {0} /\ FIFO_I_SIZE < ADDR_SPACE
  /\ FIFO_O_SIZE \in Nat \ {0} /\ FIFO_O_SIZE < ADDR_SPACE
BY LayoutAssumption DEF FIFO_I_SIZE, FIFO_O_SIZE

(* The steps that leave both counts alone: from a state whose flags lag at  *)
(* most until this edge, to a state in which no count is about to change.   *)
LEMMA QuietStep ==
  ASSUME CountInv, UpdateFlags,
         fifo_i_count' = fifo_i_count, fifo_o_count' = fifo_o_count,
         Current_State' \notin {1, 2, 3, 4}
  PROVE  CountInv'
<1>1. CountsInBounds'
  BY DEF CountInv, CountsInBounds, FIFO_I_SIZE, FIFO_O_SIZE
<1>2. FlagsMatch'
  BY DEF UpdateFlags, FlagsMatch, FIFO_I_SIZE, FIFO_O_SIZE
<1>3. QED
  BY <1>1, <1>2 DEF CountInv

(* Every step of SramCtrl preserves the inductive invariant.                *)
LEMMA CountStep == TypeOK /\ CountInv /\ [Next]_vars => CountInv'
<1> SUFFICES ASSUME TypeOK, CountInv, [Next]_vars PROVE CountInv'
  OBVIOUS
<1>1. CASE UNCHANGED vars
  BY <1>1 DEF CountInv, CountsInBounds, FlagsMatch, FIFO_I_SIZE, FIFO_O_SIZE,
              vars, ctlVars, fifoIVars, fifoOVars, flagVars
<1>2. CASE Next
  <2>1. PICK start \in Starts, rollback \in Rollbacks :
          LET wr == FifoOWrPtr(start, rollback) IN
          /\ Edge(start)
          /\ \/ \E req \in RequestSets : Arbitrate(req, wr)
             \/ \E w \in Word : \/ SlaveWrite(w, wr) \/ ConfigWrite(w, wr)
                                \/ CmdWrite(w, wr) \/ MasterWrite(w, wr)
             \/ Serve(wr)
    BY <1>2 DEF Next
  <2> DEFINE wr == FifoOWrPtr(start, rollback)
  <2>2. UpdateFlags
    BY <2>1 DEF Edge
  <2> HIDE DEF wr
  <2>3. ASSUME NEW req \in RequestSets, Arbitrate(req, wr) PROVE CountInv'
    <3>1. /\ fifo_i_count' = fifo_i_count /\ fifo_o_count' = fifo_o_count
          /\ Current_State = 0
      BY <2>3 DEF Arbitrate, fifoIVars, fifoOVars
    <3>2. CountsInBounds' /\ FlagsMatch'
      BY <2>2, <3>1 DEF CountInv, CountsInBounds, UpdateFlags, FlagsMatch,
                        FIFO_I_SIZE, FIFO_O_SIZE
    <3>3. FlagsMatch
      BY <3>1 DEF CountInv
    <3>4. CASE \E r \in req : Granted(r, req) /\ Current_State' = r
      <4>1. PICK r \in req : ~Blocked(r) /\ Current_State' = r
        BY <3>4 DEF Granted
      <4>2. /\ Current_State' = 1 => fifo_i_count # FIFO_I_SIZE
            /\ Current_State' = 2 => fifo_o_count # 0
            /\ Current_State' = 3 => fifo_o_count # FIFO_O_SIZE
            /\ Current_State' = 4 => fifo_i_count # 0
        BY <3>3, <4>1 DEF Blocked, FlagsMatch, slave_write, slave_read,
                          master_write, master_read
      <4>3. QED
        BY <3>1, <3>2, <4>2, SizeFact
           DEF CountInv, CountsInBounds, FIFO_I_SIZE, FIFO_O_SIZE
    <3>5. CASE Current_State' = Current_State
      BY <3>1, <3>5, <2>2, QuietStep
    <3>6. QED
      BY <2>3, <3>4, <3>5 DEF Arbitrate
  <2> USE SizeFact DEF CountInv, CountsInBounds, FIFO_I_SIZE, FIFO_O_SIZE,
        StartWrite, StartRead, Inc18, Dec18, fifoIVars, fifoOVars
  <2>4. ASSUME NEW w \in Word, SlaveWrite(w, wr) PROVE CountInv'
    BY <2>4 DEF SlaveWrite
  <2>5. ASSUME NEW w \in Word, MasterWrite(w, wr) PROVE CountInv'
    BY <2>5 DEF MasterWrite
  <2>6. CASE SlaveRead(wr)
    BY <2>6 DEF SlaveRead
  <2>7. CASE MasterRead(wr)
    BY <2>7 DEF MasterRead
  <2>8. CASE ConfigWriteDone
    BY <2>8 DEF ConfigWriteDone
  <2>9. ASSUME NEW w \in Word, ConfigWrite(w, wr) \/ CmdWrite(w, wr)
        PROVE  CountInv'
    BY <2>2, <2>9, QuietStep DEF ConfigWrite, CmdWrite
  <2>10. CASE ConfigRead(wr) \/ CmdRead(wr) \/ ConfigReadDone(wr)
    BY <2>2, <2>10, QuietStep DEF ConfigRead, CmdRead, ConfigReadDone
  <2>11. CASE BusCycle(wr)
    <3>1. /\ fifo_i_count' = fifo_i_count /\ fifo_o_count' = fifo_o_count
          /\ Current_State' \notin {1, 2, 3, 4}
      BY <2>11 DEF BusCycle, DriveWrite, AccessTime, Latch, Hint, Release,
                   ResetPulse, pointerVars
    <3>2. QED
      BY <2>2, <3>1, QuietStep
  <2>12. QED
    BY <2>1, <2>3, <2>4, <2>5, <2>6, <2>7, <2>8, <2>9, <2>10, <2>11
       DEF Serve, wr
<1>3. QED
  BY <1>1, <1>2

(* The inductive invariant holds throughout.                                *)
LEMMA CountInvariant == Spec => []CountInv
<1>1. Init => CountInv
  <2> SUFFICES ASSUME Init PROVE CountInv
    OBVIOUS
  <2>1. /\ fifo_i_count = 0 /\ fifo_o_count = 0 /\ Current_State = 0
        /\ FIFO_I_SIZE # 0 /\ FIFO_O_SIZE # 0
    BY SizeFact DEF Init
  <2>2. FlagsMatch
    BY <2>1, Zenon DEF Init, FlagsMatch
  <2>3. QED
    BY <2>1, <2>2, SizeFact DEF CountInv, CountsInBounds, FIFO_I_SIZE,
                                FIFO_O_SIZE
<1>2. QED
  BY <1>1, CountStep, TypeCorrect, PTL DEF Spec

(* No FIFO is ever written when full or read when empty, for any layout and *)
(* any clients, rollbacks included.                                         *)
THEOREM NoOverrun == Spec => []CountsInBounds
<1>1. CountInv => CountsInBounds
  BY DEF CountInv
<1>2. QED
  BY <1>1, CountInvariant, PTL

(* The comment at SRAM_ctrl.v:461 is right.                                 *)
THEOREM FlagsNeverMislead == Spec => []FlagsTrueWhenArbitrating
<1>1. CountInv => FlagsTrueWhenArbitrating
  BY DEF CountInv, FlagsMatch, FlagsTrueWhenArbitrating
<1>2. QED
  BY <1>1, CountInvariant, PTL

-----------------------------------------------------------------------------
(* One word put into, or taken from, a ring that has room, or a word.       *)
LEMMA RingPut ==
  ASSUME NEW lo \in Nat, NEW hi \in Nat, lo <= hi, hi < ADDR_SPACE - 1,
         NEW rd, NEW wr, NEW count,
         Consistent(rd, wr, count, lo, hi), count < hi - lo + 1
  PROVE  Consistent(rd, RingNext(wr, lo, hi), Inc18(count), lo, hi)
BY LayoutAssumption DEF Consistent, RingNext, Inc18

(* A word taken from a ring.                                                *)
LEMMA RingTake ==
  ASSUME NEW lo \in Nat, NEW hi \in Nat, lo <= hi, hi < ADDR_SPACE - 1,
         NEW rd, NEW wr, NEW count,
         Consistent(rd, wr, count, lo, hi), 0 < count
  PROVE  Consistent(RingNext(rd, lo, hi), wr, Dec18(count), lo, hi)
BY LayoutAssumption DEF Consistent, RingNext, Inc18, Dec18

(* A ring that is reset.                                                    *)
LEMMA RingEmpty ==
  ASSUME NEW lo \in Nat, NEW hi \in Nat, lo <= hi
  PROVE  Consistent(lo, lo, 0, lo, hi)
BY DEF Consistent

(* FIFO_I is consistent after every step: a rollback is no business of it.  *)
LEMMA FifoIStep == CountInv /\ FifoIConsistent /\ [Next]_vars => FifoIConsistent'
<1> SUFFICES ASSUME CountInv, FifoIConsistent, [Next]_vars
             PROVE  FifoIConsistent'
  OBVIOUS
<1> USE DEF FifoIConsistent
<1>1. CASE UNCHANGED vars
  BY <1>1 DEF vars, fifoIVars, Consistent
<1>2. CASE Next
  <2>1. PICK wr :
          \/ \E req \in RequestSets : Arbitrate(req, wr)
          \/ \E w \in Word : \/ SlaveWrite(w, wr) \/ ConfigWrite(w, wr)
                             \/ CmdWrite(w, wr) \/ MasterWrite(w, wr)
          \/ Serve(wr)
    BY <1>2 DEF Next
  <2>2. CASE UNCHANGED fifoIVars
    BY <2>2 DEF fifoIVars, Consistent
  <2>3. ASSUME NEW w \in Word, SlaveWrite(w, wr) PROVE FifoIConsistent'
    <3>1. /\ fifo_i_count < MAX_FIFO_I_PTR - MIN_FIFO_I_PTR + 1
          /\ fifo_i_wr_ptr' = RingNext(fifo_i_wr_ptr, MIN_FIFO_I_PTR, MAX_FIFO_I_PTR)
          /\ fifo_i_count' = Inc18(fifo_i_count)
          /\ fifo_i_rd_ptr' = fifo_i_rd_ptr
      BY <2>3 DEF SlaveWrite, CountInv, FIFO_I_SIZE
    <3>2. QED
      BY <3>1, RingPut, LayoutAssumption
  <2>4. CASE MasterRead(wr)
    <3>1. /\ 0 < fifo_i_count
          /\ fifo_i_rd_ptr' = RingNext(fifo_i_rd_ptr, MIN_FIFO_I_PTR, MAX_FIFO_I_PTR)
          /\ fifo_i_count' = Dec18(fifo_i_count)
          /\ fifo_i_wr_ptr' = fifo_i_wr_ptr
      BY <2>4 DEF MasterRead, CountInv
    <3>2. QED
      BY <3>1, RingTake, LayoutAssumption
  <2>5. CASE ConfigWriteDone
    BY <2>5, RingEmpty, LayoutAssumption DEF ConfigWriteDone
  <2>6. QED
    BY <2>1, <2>2, <2>3, <2>4, <2>5
       DEF Arbitrate, ConfigWrite, CmdWrite, MasterWrite, Serve, SlaveRead,
           ConfigRead, ConfigReadDone, CmdRead, BusCycle, DriveWrite,
           AccessTime, Latch, Hint, Release, ResetPulse, pointerVars
<1>3. QED
  BY <1>1, <1>2

(* FIFO_I's pointers and count agree in every reachable state.              *)
THEOREM FifoICorrect == Spec => []FifoIConsistent
<1>1. Init => FifoIConsistent
  BY RingEmpty, LayoutAssumption DEF Init, FifoIConsistent
<1>2. QED
  BY <1>1, FifoIStep, CountInvariant, PTL DEF Spec

-----------------------------------------------------------------------------
(* Without rollbacks the same holds of FIFO_O, and then every write stays   *)
(* in its region: the pointers never leave theirs.                          *)
RegionInv ==
  /\ FifoIConsistent /\ FifoOConsistent
  /\ cmd_wr_ptr \in CMD_START_P .. CMD_MAXEND_P
  /\ WritesInOwnRegion

(* FIFO_O is consistent after every step that does not roll back.           *)
LEMMA FifoOStep ==
  ASSUME Rollbacks = {FALSE}
  PROVE  CountInv /\ FifoOConsistent /\ [Next]_vars => FifoOConsistent'
<1> SUFFICES ASSUME CountInv, FifoOConsistent, [Next]_vars
             PROVE  FifoOConsistent'
  OBVIOUS
<1> USE DEF FifoOConsistent
<1>1. CASE UNCHANGED vars
  BY <1>1 DEF vars, fifoOVars, Consistent
<1>2. CASE Next
  <2>1. LET wr == fifo_o_wr_ptr IN
          \/ \E req \in RequestSets : Arbitrate(req, wr)
          \/ \E w \in Word : \/ SlaveWrite(w, wr) \/ ConfigWrite(w, wr)
                             \/ CmdWrite(w, wr) \/ MasterWrite(w, wr)
          \/ Serve(wr)
    BY <1>2 DEF Next, FifoOWrPtr
  <2> DEFINE wr == fifo_o_wr_ptr
  <2>2. CASE UNCHANGED <<fifoOVars, fifo_o_wr_ptr>>
    BY <2>2 DEF fifoOVars, Consistent
  <2>3. ASSUME NEW w \in Word, MasterWrite(w, wr) PROVE FifoOConsistent'
    <3>1. /\ fifo_o_count < MAX_FIFO_O_PTR - MIN_FIFO_O_PTR + 1
          /\ fifo_o_wr_ptr' = RingNext(fifo_o_wr_ptr, MIN_FIFO_O_PTR, MAX_FIFO_O_PTR)
          /\ fifo_o_count' = Inc18(fifo_o_count)
          /\ fifo_o_rd_ptr' = fifo_o_rd_ptr
      BY <2>3 DEF MasterWrite, CountInv, FIFO_O_SIZE
    <3>2. QED
      BY <3>1, RingPut, LayoutAssumption
  <2>4. CASE SlaveRead(wr)
    <3>1. /\ 0 < fifo_o_count
          /\ fifo_o_rd_ptr' = RingNext(fifo_o_rd_ptr, MIN_FIFO_O_PTR, MAX_FIFO_O_PTR)
          /\ fifo_o_count' = Dec18(fifo_o_count)
          /\ fifo_o_wr_ptr' = fifo_o_wr_ptr
      BY <2>4 DEF SlaveRead, CountInv
    <3>2. QED
      BY <3>1, RingTake, LayoutAssumption
  <2>5. CASE ConfigWriteDone
    BY <2>5, RingEmpty, LayoutAssumption DEF ConfigWriteDone
  <2>6. QED
    BY <2>1, <2>2, <2>3, <2>4, <2>5
       DEF Arbitrate, ConfigWrite, CmdWrite, SlaveWrite, MasterRead, Serve,
           ConfigRead, ConfigReadDone, CmdRead, BusCycle, DriveWrite,
           AccessTime, Latch, Hint, Release, ResetPulse, pointerVars
<1>3. QED
  BY <1>1, <1>2

(* A write is put on the bus from a pointer that is in its region.          *)
LEMMA RegionStep ==
  ASSUME Rollbacks = {FALSE}
  PROVE  TypeOK /\ CountInv /\ RegionInv /\ [Next]_vars => RegionInv'
<1> SUFFICES ASSUME TypeOK, CountInv, RegionInv, [Next]_vars
             PROVE  RegionInv'
  OBVIOUS
<1>1. FifoIConsistent' /\ FifoOConsistent'
  BY FifoIStep, FifoOStep DEF RegionInv
<1>2. CASE UNCHANGED vars
  BY <1>1, <1>2 DEF RegionInv, WritesInOwnRegion, Region, vars, ctlVars,
                    busVars, storeVars
<1>3. CASE Next
  <2>1. LET wr == fifo_o_wr_ptr IN
          \/ \E req \in RequestSets : Arbitrate(req, wr)
          \/ \E w \in Word : \/ SlaveWrite(w, wr) \/ ConfigWrite(w, wr)
                             \/ CmdWrite(w, wr) \/ MasterWrite(w, wr)
          \/ Serve(wr)
    BY <1>3 DEF Next, FifoOWrPtr
  <2> DEFINE wr == fifo_o_wr_ptr
  <2>2. ASSUME cmd_wr_ptr' \in CMD_START_P .. CMD_MAXEND_P,
               Current_State' # 20
        PROVE  RegionInv'
    BY <1>1, <2>2 DEF RegionInv, WritesInOwnRegion
  <2>3. ASSUME NEW req \in RequestSets, Arbitrate(req, wr) PROVE RegionInv'
    <3>1. req \subseteq 1 .. 10
      BY InputAssumption DEF Request
    <3>2. Current_State' # 20 /\ cmd_wr_ptr' = cmd_wr_ptr
      BY <2>3, <3>1 DEF Arbitrate, storeVars
    <3>3. QED
      BY <2>2, <3>2 DEF RegionInv
  <2>4. ASSUME NEW w \in Word, SlaveWrite(w, wr) PROVE RegionInv'
    BY <1>1, <2>4 DEF SlaveWrite, StartWrite, storeVars, RegionInv,
                      WritesInOwnRegion, Region, FifoIConsistent, Consistent
  <2>5. ASSUME NEW w \in Word, MasterWrite(w, wr) PROVE RegionInv'
    BY <1>1, <2>5 DEF MasterWrite, StartWrite, storeVars, RegionInv,
                      WritesInOwnRegion, Region, FifoOConsistent, Consistent
  <2>6. ASSUME NEW w \in Word, CmdWrite(w, wr) PROVE RegionInv'
    BY <1>1, <2>6, LayoutAssumption
       DEF CmdWrite, StartWrite, RegionInv, WritesInOwnRegion, Region,
           RingNext, Inc18
  <2>7. ASSUME NEW w \in Word, ConfigWrite(w, wr) PROVE RegionInv'
    BY <1>1, <2>7 DEF ConfigWrite, StartWrite, RegionInv, WritesInOwnRegion,
                      Region, TypeOK
  <2>8. CASE Serve(wr)
    <3>1. Current_State' # 20 /\ cmd_wr_ptr' = cmd_wr_ptr
      BY <2>8 DEF Serve, SlaveRead, MasterRead, ConfigRead, ConfigWriteDone,
           ConfigReadDone, CmdRead, StartRead, BusCycle, DriveWrite,
           AccessTime, Latch, Hint, Release, ResetPulse, pointerVars, storeVars
    <3>2. QED
      BY <2>2, <3>1 DEF RegionInv
  <2>9. QED
    BY <2>1, <2>3, <2>4, <2>5, <2>6, <2>7, <2>8
<1>4. QED
  BY <1>2, <1>3

(* The invariant of the rings and regions holds while nothing is rolled back. *)
LEMMA RegionInvariant ==
  ASSUME Rollbacks = {FALSE}
  PROVE  Spec => []RegionInv
<1>1. Init => RegionInv
  BY RingEmpty, LayoutAssumption
     DEF Init, RegionInv, FifoIConsistent, FifoOConsistent, WritesInOwnRegion
<1>2. QED
  BY <1>1, RegionStep, TypeCorrect, CountInvariant, PTL DEF Spec

(* FIFO_O's pointers and count agree as long as no packet is rolled back.   *)
THEOREM FifoOCorrect ==
  ASSUME Rollbacks = {FALSE}
  PROVE  Spec => []FifoOConsistent
<1>1. RegionInv => FifoOConsistent
  BY DEF RegionInv
<1>2. QED
  BY <1>1, RegionInvariant, PTL

(* No FIFO or command word is ever stored outside its own region.           *)
THEOREM RegionsKept ==
  ASSUME Rollbacks = {FALSE}
  PROVE  Spec => []WritesInOwnRegion
<1>1. RegionInv => WritesInOwnRegion
  BY DEF RegionInv
<1>2. QED
  BY <1>1, RegionInvariant, PTL

-----------------------------------------------------------------------------

(* State 5 has no test for the end of the region (SRAM_ctrl.v:294-305):      *)
(* that a configuration fits is up to the CPU.                              *)
ConfigFits == Current_State = 5 => config_wr_ptr < CONFIG_MAXEND_P

(* The operation the bus is busy with, and what a read has latched.         *)
BusInv ==
  /\ Current_State \notin {19, 20, 21, 22, 23} => opcode = 0
  /\ Current_State = 20 => opcode \in {1, 3, 5, 7}
  /\ Current_State = 23 => data_from_sram = mem[mem_addr]

(* The chip as it is once the word on the bus is written, and the queue a   *)
(* ring in it is.                                                           *)
Contents == [a \in Addr |-> Held(a)]
Queue(m, rd, count, lo, hi) == [k \in 1 .. count |-> m[Wrap(rd + k - 1, lo, hi)]]

-----------------------------------------------------------------------------
(* A ring holds words.                                                      *)
LEMMA QueueType ==
  ASSUME NEW lo \in Nat, NEW hi \in Nat, lo <= hi, hi < ADDR_SPACE,
         NEW m \in [Addr -> Word], NEW rd, NEW wr, NEW count,
         Consistent(rd, wr, count, lo, hi)
  PROVE  /\ Queue(m, rd, count, lo, hi) \in Seq(Word)
         /\ Len(Queue(m, rd, count, lo, hi)) = count
<1>1. count \in Nat /\ count <= hi - lo + 1 /\ rd \in lo .. hi
  BY DEF Consistent
<1>2. \A k \in 1 .. count : Wrap(rd + k - 1, lo, hi) \in Addr
  BY <1>1, LayoutAssumption DEF Wrap, Addr
<1>3. Queue(m, rd, count, lo, hi) \in [1 .. count -> Word]
  BY <1>2 DEF Queue
<1>4. QED
  BY <1>1, <1>3

(* What is stored elsewhere is no matter of a ring.                         *)
LEMMA QueueSame ==
  ASSUME NEW lo \in Nat, NEW hi \in Nat, lo <= hi, hi < ADDR_SPACE,
         NEW m, NEW n, NEW rd, NEW wr, NEW count,
         Consistent(rd, wr, count, lo, hi),
         \A a \in lo .. hi : m[a] = n[a]
  PROVE  Queue(m, rd, count, lo, hi) = Queue(n, rd, count, lo, hi)
<1>1. count \in Nat /\ count <= hi - lo + 1 /\ rd \in lo .. hi
  BY DEF Consistent
<1>2. \A k \in 1 .. count : Wrap(rd + k - 1, lo, hi) \in lo .. hi
  BY <1>1 DEF Wrap
<1>3. QED
  BY <1>2 DEF Queue

(* A word stored at the write pointer of a ring with room is appended.      *)
LEMMA QueuePut ==
  ASSUME NEW lo \in Nat, NEW hi \in Nat, lo <= hi, hi < ADDR_SPACE - 1,
         NEW m \in [Addr -> Word], NEW n \in [Addr -> Word], NEW w \in Word,
         NEW rd, NEW wr, NEW count,
         Consistent(rd, wr, count, lo, hi), count < hi - lo + 1,
         n[wr] = w, \A a \in lo .. hi : a # wr => n[a] = m[a]
  PROVE  Queue(n, rd, Inc18(count), lo, hi)
           = Append(Queue(m, rd, count, lo, hi), w)
<1> DEFINE old == Queue(m, rd, count, lo, hi)
           new == Queue(n, rd, Inc18(count), lo, hi)
<1>1. /\ count \in Nat /\ count < hi - lo + 1 /\ rd \in lo .. hi /\ wr \in lo .. hi
      /\ Inc18(count) = count + 1
  BY LayoutAssumption DEF Consistent, Inc18
<1>2. Wrap(rd + count, lo, hi) = wr
  BY <1>1 DEF Consistent, Wrap
<1>3. \A k \in 1 .. count : Wrap(rd + k - 1, lo, hi) \in lo .. hi \ {wr}
  BY <1>1 DEF Consistent, Wrap
<1> hi < ADDR_SPACE
  BY LayoutAssumption
<1>4. old \in Seq(Word) /\ Len(old) = count
  BY QueueType
<1>5. Consistent(rd, RingNext(wr, lo, hi), Inc18(count), lo, hi)
  BY RingPut
<1>6. new \in Seq(Word) /\ Len(new) = count + 1
  BY <1>1, <1>5, QueueType
<1>7. \A k \in 1 .. count : new[k] = old[k]
  BY <1>1, <1>3 DEF Queue
<1>8. new[count + 1] = w
  <2>1. new[count + 1] = n[Wrap(rd + (count + 1) - 1, lo, hi)]
    BY <1>1 DEF Queue
  <2>2. rd + (count + 1) - 1 = rd + count
    BY <1>1
  <2>3. QED
    BY <2>1, <2>2, <1>2
<1> HIDE DEF old, new
<1>9. /\ Append(old, w) \in Seq(Word) /\ Len(Append(old, w)) = count + 1
      /\ \A k \in 1 .. count : Append(old, w)[k] = old[k]
      /\ Append(old, w)[count + 1] = w
  BY <1>4, AppendProperties
<1>10. \A k \in 1 .. Len(new) : new[k] = Append(old, w)[k]
  BY <1>1, <1>6, <1>7, <1>8, <1>9
<1>11. new = Append(old, w)
  BY <1>6, <1>9, <1>10, SeqEqual
<1>12. QED
  BY <1>11 DEF old, new

(* A word taken at the read pointer is the first one.                       *)
LEMMA QueueTake ==
  ASSUME NEW lo \in Nat, NEW hi \in Nat, lo <= hi, hi < ADDR_SPACE - 1,
         NEW m \in [Addr -> Word], NEW rd, NEW wr, NEW count,
         Consistent(rd, wr, count, lo, hi), 0 < count
  PROVE  /\ Queue(m, rd, count, lo, hi) # <<>>
         /\ m[rd] = Head(Queue(m, rd, count, lo, hi))
         /\ Queue(m, RingNext(rd, lo, hi), Dec18(count), lo, hi)
              = Tail(Queue(m, rd, count, lo, hi))
<1> DEFINE old == Queue(m, rd, count, lo, hi)
           new == Queue(m, RingNext(rd, lo, hi), Dec18(count), lo, hi)
<1>1. /\ count \in Nat /\ count <= hi - lo + 1 /\ rd \in lo .. hi
      /\ Dec18(count) = count - 1 /\ count > 0
      /\ RingNext(rd, lo, hi) = IF rd = hi THEN lo ELSE rd + 1
  BY LayoutAssumption DEF Consistent, Inc18, Dec18, RingNext
<1> hi < ADDR_SPACE
  BY LayoutAssumption
<1>2. old \in Seq(Word) /\ Len(old) = count /\ old # <<>>
  BY <1>1, QueueType
<1>3. Consistent(RingNext(rd, lo, hi), wr, Dec18(count), lo, hi)
  BY <1>1, RingTake
<1>4. new \in Seq(Word) /\ Len(new) = count - 1
  BY <1>1, <1>3, QueueType
<1>5. Head(old) = m[rd]
  <2>1. old[1] = m[Wrap(rd + 1 - 1, lo, hi)]
    BY <1>1 DEF Queue
  <2>2. Wrap(rd + 1 - 1, lo, hi) = rd
    BY <1>1 DEF Wrap
  <2>3. QED
    BY <2>1, <2>2, <1>2
<1>6. \A k \in 1 .. count - 1 : new[k] = old[k + 1]
  <2>1. TAKE k \in 1 .. count - 1
  <2>2. Wrap(RingNext(rd, lo, hi) + k - 1, lo, hi) = Wrap(rd + (k + 1) - 1, lo, hi)
    BY <1>1 DEF Wrap
  <2>3. QED
    BY <1>1, <2>2 DEF Queue
<1> HIDE DEF old, new
<1>7. /\ Tail(old) \in Seq(Word) /\ Len(Tail(old)) = count - 1
      /\ \A k \in 1 .. count - 1 : Tail(old)[k] = old[k + 1]
  BY <1>1, <1>2, HeadTailProperties
<1>8. \A k \in 1 .. Len(new) : new[k] = Tail(old)[k]
  BY <1>4, <1>6, <1>7
<1>9. new = Tail(old)
  BY <1>4, <1>7, <1>8, SeqEqual
<1>10. QED
  BY <1>2, <1>5, <1>9 DEF old, new

-----------------------------------------------------------------------------
(* The bus.                                                                 *)
LEMMA BusStep == TypeOK /\ BusInv /\ [Next]_vars => BusInv'
<1> SUFFICES ASSUME TypeOK, BusInv, [Next]_vars PROVE BusInv'
  OBVIOUS
<1> USE DEF BusInv
<1>1. CASE UNCHANGED vars
  BY <1>1 DEF vars, ctlVars, busVars
<1>2. CASE Next
  <2>1. PICK wr :
          \/ \E req \in RequestSets : Arbitrate(req, wr)
          \/ \E w \in Word : \/ SlaveWrite(w, wr) \/ ConfigWrite(w, wr)
                             \/ CmdWrite(w, wr) \/ MasterWrite(w, wr)
          \/ Serve(wr)
    BY <1>2 DEF Next
  <2>2. ASSUME NEW req \in RequestSets, Arbitrate(req, wr) PROVE BusInv'
    <3>1. req \subseteq 1 .. 10
      BY InputAssumption DEF Request
    <3>2. Current_State' \in 0 .. 10 /\ opcode' = opcode /\ Current_State = 0
      BY <2>2, <3>1 DEF Arbitrate
    <3>3. QED
      BY <3>2
  <2>3. ASSUME NEW w \in Word,
               SlaveWrite(w, wr) \/ ConfigWrite(w, wr) \/ CmdWrite(w, wr)
                 \/ MasterWrite(w, wr)
        PROVE  BusInv'
    BY <2>3 DEF SlaveWrite, ConfigWrite, CmdWrite, MasterWrite, StartWrite
  <2>4. CASE SlaveRead(wr) \/ MasterRead(wr) \/ ConfigRead(wr) \/ CmdRead(wr)
    BY <2>4 DEF SlaveRead, MasterRead, ConfigRead, CmdRead, StartRead
  <2>5. CASE ConfigWriteDone \/ ConfigReadDone(wr)
    BY <2>5 DEF ConfigWriteDone, ConfigReadDone
  <2>6. CASE BusCycle(wr)
    BY <2>6 DEF BusCycle, DriveWrite, AccessTime, Latch, Hint, Release,
                ResetPulse, busVars, TypeOK
  <2>7. QED
    BY <2>1, <2>2, <2>3, <2>4, <2>5, <2>6 DEF Serve
<1>3. QED
  BY <1>1, <1>2

(* The queues of the refinement mapping are those of the two rings.         *)
Rings ==
  /\ QueueI = Queue(Contents, fifo_i_rd_ptr, fifo_i_count,
                    MIN_FIFO_I_PTR, MAX_FIFO_I_PTR)
  /\ QueueO = Queue(Contents, fifo_o_rd_ptr, fifo_o_count,
                    MIN_FIFO_O_PTR, MAX_FIFO_O_PTR)
  /\ Contents \in [Addr -> Word]

(* Both FIFOs are rings in their regions.                                   *)
LEMMA AsRings == TypeOK /\ FifoIConsistent /\ FifoOConsistent => Rings
<1> SUFFICES ASSUME TypeOK, FifoIConsistent, FifoOConsistent PROVE Rings
  OBVIOUS
<1>1. \A k \in 1 .. fifo_i_count :
        Wrap(fifo_i_rd_ptr + k - 1, MIN_FIFO_I_PTR, MAX_FIFO_I_PTR) \in Addr
  BY LayoutAssumption DEF FifoIConsistent, Consistent, Wrap, Addr
<1>2. \A k \in 1 .. fifo_o_count :
        Wrap(fifo_o_rd_ptr + k - 1, MIN_FIFO_O_PTR, MAX_FIFO_O_PTR) \in Addr
  BY LayoutAssumption DEF FifoOConsistent, Consistent, Wrap, Addr
<1>3. Contents \in [Addr -> Word]
  BY DEF Contents, Held, TypeOK
<1>4. QED
  BY <1>1, <1>2, <1>3 DEF Rings, QueueI, QueueO, Queue, Contents

(* What a step does to the contents: a word put on the bus counts as stored *)
(* from then on, nothing else changes them.                                 *)
LEMMA ContentsKept ==
  ASSUME TypeOK, BusInv, UNCHANGED mem \/ \E wr : DriveWrite(wr),
         Current_State' # 20, Current_State = 20 => \E wr : DriveWrite(wr)
  PROVE  Contents' = Contents
<1>1. CASE \E wr : DriveWrite(wr)
  BY <1>1 DEF DriveWrite, Contents, Held, TypeOK
<1>2. CASE Current_State # 20 /\ UNCHANGED mem
  BY <1>2 DEF Contents, Held
<1>3. QED
  BY <1>1, <1>2

(* A write that begins changes one word of what will be in the chip.        *)
LEMMA ContentsPut ==
  ASSUME TypeOK, NEW op, NEW addr \in Addr, NEW data \in Word,
         StartWrite(op, addr, data), Current_State # 20
  PROVE  /\ Contents'[addr] = data
         /\ \A a \in Addr : a # addr => Contents'[a] = Contents[a]
BY DEF StartWrite, Contents, Held, TypeOK

-----------------------------------------------------------------------------
(* Every step of SRAM_ctrl is a step of the two queues, or none at all.     *)
FifoInv == TypeOK /\ CountInv /\ RegionInv /\ BusInv

(* Every step of SRAM_ctrl is one of the two queues, or none of theirs.     *)
LEMMA FifoStep ==
  ASSUME Rollbacks = {FALSE}, FifoInv, FifoInv', ConfigFits, [Next]_vars
  PROVE  [Fifos!Next]_(Fifos!fifoPairVars)
<1> USE LayoutAssumption DEF FifoInv
<1>1. Rings
  BY AsRings DEF RegionInv
<1>2. Rings'
  <2>1. (TypeOK /\ FifoIConsistent /\ FifoOConsistent => Rings)'
    BY AsRings, PTL
  <2>2. QED
    BY <2>1 DEF RegionInv
<1> DEFINE SameI == QueueI' = QueueI
           SameO == QueueO' = QueueO
           SameS == SlaveAnswer' = SlaveAnswer
           SameM == MasterAnswer' = MasterAnswer
<1>3. ASSUME SameI, SameO, SameS, SameM PROVE UNCHANGED Fifos!fifoPairVars
  BY <1>3 DEF Fifos!fifoPairVars
<1>4. ASSUME Contents' = Contents, UNCHANGED <<fifo_i_rd_ptr, fifo_i_count>>
      PROVE  SameI
  BY <1>1, <1>2, <1>4 DEF Rings, Queue
<1>5. ASSUME Contents' = Contents, UNCHANGED <<fifo_o_rd_ptr, fifo_o_count>>
      PROVE  SameO
  BY <1>1, <1>2, <1>5 DEF Rings, Queue
<1>6. CASE UNCHANGED vars
  <2>1. Contents' = Contents
    BY <1>6 DEF vars, ctlVars, busVars, Contents, Held
  <2>2. SameS /\ SameM
    BY <1>6 DEF vars, ctlVars, busVars, answerVars, SlaveAnswer, MasterAnswer
  <2>3. SameI /\ SameO
    BY <1>4, <1>5, <1>6, <2>1 DEF vars, fifoIVars, fifoOVars
  <2>4. QED
    BY <1>3, <2>2, <2>3
<1>7. CASE Next
  <2> DEFINE wr == fifo_o_wr_ptr
  <2>1. \/ \E req \in RequestSets : Arbitrate(req, wr)
        \/ \E w \in Word : \/ SlaveWrite(w, wr) \/ ConfigWrite(w, wr)
                           \/ CmdWrite(w, wr) \/ MasterWrite(w, wr)
        \/ Serve(wr)
    BY <1>7 DEF Next, FifoOWrPtr
  (* Steps that store nothing new and leave counts and pointers alone.      *)
  <2>2. ASSUME UNCHANGED mem \/ DriveWrite(wr), Current_State' # 20,
               Current_State = 20 => DriveWrite(wr),
               UNCHANGED <<fifo_i_rd_ptr, fifo_i_count,
                           fifo_o_rd_ptr, fifo_o_count>>
        PROVE  SameI /\ SameO
    <3>1. Contents' = Contents
      BY <2>2, ContentsKept
    <3>2. QED
      BY <2>2, <3>1, <1>4, <1>5
  <2>3. ASSUME NEW req \in RequestSets, Arbitrate(req, wr)
        PROVE  UNCHANGED Fifos!fifoPairVars
    <3>1. req \subseteq 1 .. 10
      BY InputAssumption DEF Request
    <3>2. Current_State' # 20 /\ Current_State = 0
      BY <2>3, <3>1 DEF Arbitrate
    <3>3. SameI /\ SameO
      BY <2>2, <2>3, <3>2 DEF Arbitrate, busVars, fifoIVars, fifoOVars
    <3>4. SameS /\ SameM
      BY <2>3 DEF Arbitrate, busVars, answerVars, SlaveAnswer, MasterAnswer
    <3>5. QED
      BY <1>3, <3>3, <3>4
  (* Writes.  The bus was at rest: no read is being answered.               *)
  <2>4. ASSUME NEW op \in {1, 3, 5, 7}, NEW addr \in Addr, NEW data \in Word,
               StartWrite(op, addr, data), Current_State \in 0 .. 10
        PROVE  /\ SameS /\ SameM
               /\ Contents'[addr] = data
               /\ \A a \in Addr : a # addr => Contents'[a] = Contents[a]
    <3>1. opcode = 0
      BY <2>4 DEF BusInv
    <3>2. SameS /\ SameM
      BY <2>4, <3>1 DEF StartWrite, answerVars, SlaveAnswer, MasterAnswer
    <3>3. QED
      BY <2>4, <3>2, ContentsPut
  <2>5. ASSUME \A a \in MIN_FIFO_I_PTR .. MAX_FIFO_I_PTR : Contents'[a] = Contents[a],
               UNCHANGED <<fifo_i_rd_ptr, fifo_i_count>>
        PROVE  SameI
    BY <1>1, <1>2, <2>5, QueueSame DEF Rings, RegionInv, FifoIConsistent
  <2>6. ASSUME \A a \in MIN_FIFO_O_PTR .. MAX_FIFO_O_PTR : Contents'[a] = Contents[a],
               UNCHANGED <<fifo_o_rd_ptr, fifo_o_count>>
        PROVE  SameO
    BY <1>1, <1>2, <2>6, QueueSame DEF Rings, RegionInv, FifoOConsistent
  <2>7. ASSUME NEW w \in Word, SlaveWrite(w, wr) PROVE Fifos!SlavePut(w)
    <3>1. /\ Current_State = 1 /\ StartWrite(1, fifo_i_wr_ptr, w)
          /\ UNCHANGED <<fifo_i_rd_ptr, fifo_o_rd_ptr, fifo_o_count>>
          /\ fifo_i_count' = Inc18(fifo_i_count)
      BY <2>7 DEF SlaveWrite, fifoOVars
    <3>2. fifo_i_wr_ptr \in MIN_FIFO_I_PTR .. MAX_FIFO_I_PTR /\ fifo_i_wr_ptr \in Addr
      BY DEF RegionInv, FifoIConsistent, Consistent, TypeOK
    <3>3. /\ SameS /\ SameM
          /\ Contents'[fifo_i_wr_ptr] = w
          /\ \A a \in Addr : a # fifo_i_wr_ptr => Contents'[a] = Contents[a]
      BY <3>1, <3>2, <2>4
    <3>4. SameO
      BY <3>1, <3>2, <3>3, <2>6 DEF Addr
    <3>5. fifo_i_count < FIFO_I_SIZE
      BY <3>1 DEF CountInv
    <3>6. \A a \in MIN_FIFO_I_PTR .. MAX_FIFO_I_PTR :
            a # fifo_i_wr_ptr => Contents'[a] = Contents[a]
      BY <3>3 DEF Addr
    <3>7. QueueI' = Append(QueueI, w)
      BY <1>1, <1>2, <3>1, <3>3, <3>5, <3>6, QueuePut
         DEF Rings, RegionInv, FifoIConsistent, FIFO_I_SIZE
    <3>8. Len(QueueI) = fifo_i_count
      BY <1>1, QueueType DEF Rings, RegionInv, FifoIConsistent
    <3>9. QED
      BY <3>3, <3>4, <3>5, <3>7, <3>8 DEF Fifos!SlavePut
  <2>8. ASSUME NEW w \in Word, MasterWrite(w, wr) PROVE Fifos!MasterPut(w)
    <3>1. /\ Current_State = 3 /\ StartWrite(3, fifo_o_wr_ptr, w)
          /\ UNCHANGED <<fifo_o_rd_ptr, fifo_i_rd_ptr, fifo_i_count>>
          /\ fifo_o_count' = Inc18(fifo_o_count)
      BY <2>8 DEF MasterWrite, fifoIVars
    <3>2. fifo_o_wr_ptr \in MIN_FIFO_O_PTR .. MAX_FIFO_O_PTR /\ fifo_o_wr_ptr \in Addr
      BY DEF RegionInv, FifoOConsistent, Consistent, TypeOK
    <3>3. /\ SameS /\ SameM
          /\ Contents'[fifo_o_wr_ptr] = w
          /\ \A a \in Addr : a # fifo_o_wr_ptr => Contents'[a] = Contents[a]
      BY <3>1, <3>2, <2>4
    <3>4. SameI
      BY <3>1, <3>2, <3>3, <2>5 DEF Addr
    <3>5. fifo_o_count < FIFO_O_SIZE
      BY <3>1 DEF CountInv
    <3>6. \A a \in MIN_FIFO_O_PTR .. MAX_FIFO_O_PTR :
            a # fifo_o_wr_ptr => Contents'[a] = Contents[a]
      BY <3>3 DEF Addr
    <3>7. QueueO' = Append(QueueO, w)
      BY <1>1, <1>2, <3>1, <3>3, <3>5, <3>6, QueuePut
         DEF Rings, RegionInv, FifoOConsistent, FIFO_O_SIZE
    <3>8. Len(QueueO) = fifo_o_count
      BY <1>1, QueueType DEF Rings, RegionInv, FifoOConsistent
    <3>9. QED
      BY <3>3, <3>4, <3>5, <3>7, <3>8 DEF Fifos!MasterPut
  <2>9. ASSUME NEW w \in Word, ConfigWrite(w, wr) \/ CmdWrite(w, wr)
        PROVE  UNCHANGED Fifos!fifoPairVars
    <3> DEFINE addr == IF Current_State = 5 THEN config_wr_ptr ELSE cmd_wr_ptr
               op   == IF Current_State = 5 THEN 5 ELSE 7
    <3>1. /\ Current_State \in {5, 9} /\ StartWrite(op, addr, w)
          /\ UNCHANGED <<fifo_o_rd_ptr, fifo_o_count, fifo_i_rd_ptr, fifo_i_count>>
      BY <2>9 DEF ConfigWrite, CmdWrite, fifoIVars, fifoOVars
    <3>2. addr \in Addr /\ addr < MIN_FIFO_I_PTR
      BY <3>1 DEF RegionInv, TypeOK, ConfigFits, Addr
    <3>3. /\ SameS /\ SameM
          /\ \A a \in Addr : a # addr => Contents'[a] = Contents[a]
      <4>1. op \in {1, 3, 5, 7}
        OBVIOUS
      <4> HIDE DEF addr, op
      <4>2. QED
        BY <3>1, <3>2, <4>1, <2>4
    <3>4. SameI /\ SameO
      <4> HIDE DEF addr
      <4>1. QED
        BY <3>1, <3>2, <3>3, <2>5, <2>6 DEF Addr
    <3>5. QED
      BY <1>3, <3>3, <3>4
  (* Reads: the word is taken when its address is put on the bus.           *)
  <2>10. ASSUME NEW op, NEW addr, StartRead(op, addr), Current_State # 20
         PROVE  Contents' = Contents
    BY <2>10, ContentsKept DEF StartRead
  <2>11. CASE SlaveRead(wr)
    <3>1. /\ Current_State = 2 /\ StartRead(2, fifo_o_rd_ptr)
          /\ UNCHANGED <<fifo_i_rd_ptr, fifo_i_count>>
          /\ fifo_o_rd_ptr' = RingNext(fifo_o_rd_ptr, MIN_FIFO_O_PTR, MAX_FIFO_O_PTR)
          /\ fifo_o_count' = Dec18(fifo_o_count)
      BY <2>11 DEF SlaveRead, fifoIVars
    <3>2. Contents' = Contents
      BY <3>1, <2>10
    <3>3. SameI
      BY <3>1, <3>2, <1>4
    <3>4. SlaveAnswer' = Contents[fifo_o_rd_ptr] /\ SameM
      BY <3>1 DEF StartRead, SlaveAnswer, MasterAnswer, BusInv, answerVars,
                  Contents, Held, TypeOK
    <3>5. /\ QueueO # <<>> /\ Contents[fifo_o_rd_ptr] = Head(QueueO)
          /\ QueueO' = Tail(QueueO)
      BY <1>1, <1>2, <3>1, <3>2, QueueTake
         DEF Rings, RegionInv, FifoOConsistent, CountInv
    <3>6. Fifos!SlaveTake
      BY <3>3, <3>4, <3>5 DEF Fifos!SlaveTake
    <3>7. QED
      BY <3>6 DEF Fifos!Next
  <2>12. CASE MasterRead(wr)
    <3>1. /\ Current_State = 4 /\ StartRead(4, fifo_i_rd_ptr)
          /\ UNCHANGED <<fifo_o_rd_ptr, fifo_o_count>>
          /\ fifo_i_rd_ptr' = RingNext(fifo_i_rd_ptr, MIN_FIFO_I_PTR, MAX_FIFO_I_PTR)
          /\ fifo_i_count' = Dec18(fifo_i_count)
      BY <2>12 DEF MasterRead, fifoOVars
    <3>2. Contents' = Contents
      BY <3>1, <2>10
    <3>3. SameO
      BY <3>1, <3>2, <1>5
    <3>4. MasterAnswer' = Contents[fifo_i_rd_ptr] /\ SameS
      BY <3>1 DEF StartRead, SlaveAnswer, MasterAnswer, BusInv, answerVars,
                  Contents, Held, TypeOK
    <3>5. /\ QueueI # <<>> /\ Contents[fifo_i_rd_ptr] = Head(QueueI)
          /\ QueueI' = Tail(QueueI)
      BY <1>1, <1>2, <3>1, <3>2, QueueTake
         DEF Rings, RegionInv, FifoIConsistent, CountInv
    <3>6. Fifos!MasterTake
      BY <3>3, <3>4, <3>5 DEF Fifos!MasterTake
    <3>7. QED
      BY <3>6 DEF Fifos!Next
  <2>13. CASE ConfigRead(wr) \/ CmdRead(wr)
    <3> DEFINE addr == IF Current_State = 6 THEN config_rd_ptr ELSE cmd_rd_ptr
               op   == IF Current_State = 6 THEN 6 ELSE 8
    <3>1. /\ Current_State \in {6, 10} /\ StartRead(op, addr)
          /\ UNCHANGED <<fifo_i_rd_ptr, fifo_i_count, fifo_o_rd_ptr, fifo_o_count>>
      BY <2>13 DEF ConfigRead, CmdRead, fifoIVars, fifoOVars
    <3>2. Contents' = Contents
      BY <3>1, <2>10
    <3>3. SameI /\ SameO
      BY <3>1, <3>2, <1>4, <1>5
    <3>4. MasterAnswer' \in Word /\ SameS
      BY <3>1 DEF StartRead, SlaveAnswer, MasterAnswer, BusInv, answerVars, TypeOK
    <3>5. Fifos!MasterOther
      BY <3>3, <3>4 DEF Fifos!MasterOther
    <3>6. QED
      BY <3>5 DEF Fifos!Next
  <2>14. CASE ConfigWriteDone
    <3>1. SameS /\ SameM
      BY <2>14 DEF ConfigWriteDone, busVars, answerVars, SlaveAnswer, MasterAnswer
    <3>2. QueueI' = <<>> /\ QueueO' = <<>>
      <4>1. fifo_i_count' = 0 /\ fifo_o_count' = 0
        BY <2>14 DEF ConfigWriteDone
      <4>2. QED
        BY <4>1 DEF QueueI, QueueO
    <3>3. Fifos!Clear
      BY <3>1, <3>2 DEF Fifos!Clear
    <3>4. QED
      BY <3>3 DEF Fifos!Next
  <2>15. CASE ConfigReadDone(wr)
    <3>1. SameI /\ SameO
      BY <2>2, <2>15 DEF ConfigReadDone, busVars, fifoIVars, fifoOVars
    <3>2. SameS /\ SameM
      BY <2>15 DEF ConfigReadDone, busVars, answerVars, SlaveAnswer, MasterAnswer
    <3>3. QED
      BY <1>3, <3>1, <3>2
  <2>16. CASE BusCycle(wr)
    <3>1. SameI /\ SameO
      BY <2>2, <2>16 DEF BusCycle, DriveWrite, AccessTime, Latch, Hint, Release,
           ResetPulse, busVars, pointerVars, fifoIVars, fifoOVars
    <3>2. SameS /\ SameM
      BY <2>16 DEF BusCycle, DriveWrite, AccessTime, Latch, Hint, Release,
           ResetPulse, busVars, answerVars, SlaveAnswer, MasterAnswer, BusInv
    <3>3. QED
      BY <1>3, <3>1, <3>2
  <2>17. QED
    BY <2>1, <2>3, <2>7, <2>8, <2>9, <2>11, <2>12, <2>13, <2>14, <2>15, <2>16
       DEF Serve, Fifos!Next
<1>8. QED
  BY <1>6, <1>7

(* SRAM_ctrl starts with two empty queues.                                  *)
LEMMA FifoInit == Init => Fifos!Init
BY DEF Init, Fifos!Init, QueueI, QueueO, SlaveAnswer, MasterAnswer

(* SRAM_ctrl is two queues: whatever its clients ask for and in whatever    *)
(* order, no word is lost, repeated, moved or overwritten between them, as  *)
(* long as the CPU keeps to the size of the configuration region and no     *)
(* packet is rolled back (SRAM_ctrl.v:150-470).                             *)
THEOREM TwoQueues ==
  ASSUME Rollbacks = {FALSE}
  PROVE  Spec /\ []ConfigFits => ImplementsFifos
<1>1. Init => BusInv
  BY DEF Init, BusInv
<1>2. Spec => []FifoInv
  BY <1>1, BusStep, TypeCorrect, CountInvariant, RegionInvariant, PTL
     DEF Spec, FifoInv
<1>3. FifoInv /\ FifoInv' /\ ConfigFits /\ [Next]_vars
        => [Fifos!Next]_(Fifos!fifoPairVars)
  BY FifoStep
<1>4. QED
  BY <1>2, <1>3, FifoInit, PTL DEF Spec, ImplementsFifos, Fifos!Spec
=============================================================================
