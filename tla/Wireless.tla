----------------------------- MODULE Wireless -----------------------------
(***************************************************************************)
(* fpga-si4463/Wireless_Ctrl.v: its three machines at one clock edge, and   *)
(* the two ways in which all of them are reset.                             *)
(***************************************************************************)
EXTENDS WirelessMain, WirelessIrq

WirelessInit ==
  /\ main = MainInit /\ irq = IrqInit /\ engine = EngineInit
  /\ radio = RadioOff
  /\ ram = [fifo_i |-> <<>>, words |-> 0, marked |-> FALSE]

(* An edge at which the operation of the engine goes on, and one at which   *)
(* it ends; no machine can be in the middle of anything by then.            *)
Edge == MainStep /\ EngineStep /\ IrqStep
OperationEnds == main.reset_n /\ MainRests /\ IrqWaits /\ Finish

(* Main state 0 follows, and reset_n holds the other two machines.          *)
ResetAll(leftover) ==
  /\ main' = [MainInit EXCEPT !.at = 0, !.reset_n = FALSE, !.aborted = leftover]
  /\ engine' = EngineReset /\ irq' = IrqReset /\ radio' = radio

(* The radio does not say CTS for 10000 bytes.                              *)
CtsError ==
  /\ engine.at = 52 /\ engine.op.name \in CtsOps
  /\ ResetAll(Leftover) /\ ram' = ram

(* A new configuration; SRAM_ctrl empties its FIFOs too.                    *)
NewConfig ==
  /\ ResetAll(FALSE)
  /\ ram' = [ram EXCEPT !.fifo_i = <<>>, !.words = 0, !.marked = FALSE]

WirelessNext == Edge \/ OperationEnds \/ CtsError \/ NewConfig
WirelessSpec == WirelessInit /\ [][WirelessNext]_vars
-----------------------------------------------------------------------------
(* Whatever the other machine does with the engine, the end of an operation *)
(* comes to the machine that asked for it while it waits for it, and the    *)
(* engine has done what is asked for now (states 53 and 15 of the engine,   *)
(* spi_op_done_main and spi_op_done_int).  Only the watchdog breaks this    *)
(* for the Irq machine: in states 16 to 18 it may get the end of what it     *)
(* had asked for before.                                                    *)
DoneTaken ==
  /\ DoneFor("main") => main.start /\ main.op = engine.op
  /\ DoneFor("int") => \/ irq.start /\ irq.op = engine.op
                       \/ irq.forced /\ irq.at \in {16, 17, 18}

(* The chunks of 13, 27, 73 and 100 never take more bytes out of the FIFO   *)
(* of the radio than it holds nor put in more than there is room for.       *)
FifosFit == radio.rxfifo >= 0 /\ radio.txfifo <= MAX_FIFO_SIZE

(* When a packet is announced for the first time, what was stored since the *)
(* mark is its sync word, its length and its bytes: the chunks add up.  (A  *)
(* flag that a reset has left up, or both, keep SRAM_ctrl from storing.)    *)
AnnouncedWhole ==
  [][irq.at = 15 /\ irq'.at = 19 /\ ~irq.Crc_Error_Rollback
       /\ ~irq.Pkt_Received_flag /\ ~irq.Pkt_Start_flag
     => ram'.marked /\ ram'.words = 2 + Words(radio.len)]_vars

(* Crc_Error_Rollback goes up only if words of this very packet lie behind  *)
(* the mark (state 3: packets_incoming > 1), never after it was announced.  *)
RollbackJustified ==
  [][~irq.Crc_Error_Rollback /\ irq'.Crc_Error_Rollback
     => \/ ram.marked /\ ram.words > 1
        \/ irq.Pkt_Received_flag \/ irq.Pkt_Start_flag]_vars

(* The Main machine finds a sync word where it looks for one, whatever the  *)
(* number of chunks of the frame before, unless a frame was given up.       *)
FrameInStep ==
  DoneForMain /\ main.at = 62 /\ engine.word # SyncWord => main.aborted

(* The end of a transmission that state 93 sees is that of the frame just   *)
(* sent, to its last byte, and no chunk of it is left to come.              *)
TxDoneOwn ==
  main.at = 95 => radio.sent = main.len /\ main.pos = main.len

(* The two-cycle pulse of states 25 and 26 finds the Main machine in 93.    *)
RefillSeen == irq.at = 26 => main.at = 100

(* The last part of a packet is not empty: "0<len<RX_THRESHOLD"             *)
(* (Wireless_Ctrl.v:2367); the engine reads a byte for a length of 0.       *)
LastPartNotEmpty == irq.at = 14 /\ irq.op.name = "rest" => irq.op.len > 0
=============================================================================
