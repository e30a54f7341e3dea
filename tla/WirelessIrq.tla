---------------------------- MODULE WirelessIrq ----------------------------
(***************************************************************************)
(* fpga-si4463/Wireless_Ctrl.v, second part: the Irq machine, which asks    *)
(* the radio what has happened, brings a packet into FIFO_O chunk by chunk,*)
(* announces it, rolls it back or throws it away, and the watchdog of a     *)
(* reception, which overrides the machine at the same edge.                 *)
(***************************************************************************)
EXTENDS SpiEngine

(* `forced' only records that the watchdog has fired, up to state 20.        *)
IrqInit ==
  [at |-> 0, start |-> FALSE, op |-> NoOp, irq_dealing |-> FALSE,
   packets_incoming |-> 0, Data_Recv_Pos |-> 0,
   almost_full |-> FALSE, almost_empty |-> FALSE, tx_done |-> FALSE,
   watchdog |-> 3, Pkt_Start_flag |-> FALSE, Pkt_Received_flag |-> FALSE,
   Crc_Error_Rollback |-> FALSE, forced |-> FALSE]

(* reset_n leaves the flags to the neighbours.                              *)
IrqReset ==
  [IrqInit EXCEPT !.op = irq.op,
     !.Pkt_Start_flag = irq.Pkt_Start_flag,
     !.Pkt_Received_flag = irq.Pkt_Received_flag,
     !.Crc_Error_Rollback = irq.Crc_Error_Rollback]

(* The second case statement of the block: what the first one made of the  *)
(* registers is n.  The 30 ms may be over at any edge after a sync word, but*)
(* not while a frame is sent that takes less.                               *)
MayExpire == LongFrames \/ (main.tx_state \notin {"TX", "TX_WAIT"} /\ main.at # 92)
Becomes(n) ==
  \/ irq' = n
  \/ /\ n.watchdog = 0 /\ n.packets_incoming # 0 /\ MayExpire
     /\ irq' = [n EXCEPT !.at = 16, !.watchdog = 3, !.forced = TRUE,
                         !.almost_full = FALSE, !.Data_Recv_Pos = 0]

DoneForIrq == DoneFor("int")
Request(op, next) ==
  Becomes([irq EXCEPT !.start = TRUE, !.op = op, !.at = next])
Answered(next) ==
  /\ DoneForIrq
  /\ Becomes([irq EXCEPT !.start = FALSE, !.op = NoOp, !.at = next])

WaitForInterrupt ==
  /\ irq.at = 0 /\ main.enable_irq /\ radio.pending # {}
  /\ Becomes([irq EXCEPT !.irq_dealing = TRUE, !.at = 1])

AskStatus ==
  irq.at = 1 /\ ~engine.spi_Using /\ Request(Op("int_status", 4), 2)

(* States that only let an edge go by.                                      *)
IrqEdge ==
  \/ irq.at \in {2, 11, 14, 23, 25, 28} /\ Becomes([irq EXCEPT !.at = @ + 1])
  \/ irq.at = 8 /\ Becomes([irq EXCEPT !.Pkt_Start_flag = FALSE, !.at = 9])
  \/ irq.at = 17 /\ Becomes([irq EXCEPT !.Crc_Error_Rollback = FALSE, !.at = 18])

(* State 3 tests the interrupts in this order.                              *)
Pending(p) == p \in engine.pending
KindAnyChunk ==                  \* wrong: also when the last chunk is filled
  IF /\ Pending("almost_empty") /\ ~Pending("tx") /\ ~Pending("rx")
     /\ main.tx_state # "RX"
    THEN "almost_empty"
  ELSE IF Pending("tx") THEN "tx"
  ELSE IF Pending("crc") THEN "crc"
  ELSE IF Pending("almost_full") /\ ~Pending("rx") /\ main.tx_state = "RX"
    THEN "almost_full"
  ELSE IF Pending("rx") THEN "rx"
  ELSE IF Pending("sync") THEN "sync" ELSE "none"

Kind ==
  IF /\ Pending("almost_empty") /\ ~Pending("tx") /\ ~Pending("rx")
     /\ main.tx_state # "RX" /\ main.remain_flag
    THEN "almost_empty"
  ELSE IF Pending("tx") THEN "tx"
  ELSE IF Pending("crc") THEN "crc"
  ELSE IF Pending("almost_full") /\ ~Pending("rx") /\ main.tx_state = "RX"
    THEN "almost_full"
  ELSE IF Pending("rx") THEN "rx"
  ELSE IF Pending("sync") THEN "sync" ELSE "none"

(* Where a chunk goes: with no sync word before it the FIFOs are reset, the *)
(* first one is marked, later ones follow.                                  *)
ByPacket(later) ==
  CASE irq.packets_incoming = 0 -> 16
    [] irq.packets_incoming = 1 -> 6
    [] OTHER -> later

Interrupted(kind, n) == Kind = kind /\ Becomes([n EXCEPT !.start = FALSE, !.op = NoOp])

CrcInterruptAny ==               \* wrong: rolls back what was never stored
  Interrupted("crc", [irq EXCEPT !.at = 16,
                        !.Crc_Error_Rollback = @ \/ irq.packets_incoming > 0])

CrcInterrupt ==
  Interrupted("crc", [irq EXCEPT !.at = 16,
                        !.Crc_Error_Rollback = @ \/ irq.packets_incoming > 1])

Classify ==
  /\ irq.at = 3 /\ DoneForIrq
  /\ \/ Interrupted("almost_empty", [irq EXCEPT !.almost_empty = TRUE, !.at = 25])
     \/ Interrupted("tx", [irq EXCEPT !.at = 4])
     \/ CrcInterrupt
     \/ Interrupted("almost_full", [irq EXCEPT !.almost_full = TRUE,
                       !.at = ByPacket(27),
                       !.packets_incoming = IF @ = 0 THEN 0 ELSE (@ + 1) % 16])
     \/ Interrupted("rx", [irq EXCEPT !.almost_full = FALSE, !.at = ByPacket(13)])
     \/ Interrupted("sync", [irq EXCEPT !.packets_incoming = 1, !.watchdog = 0,
                                        !.Data_Recv_Pos = 0, !.at = 0])
     \/ Interrupted("none", [irq EXCEPT !.irq_dealing = FALSE, !.at = 0])

TxDoneKept ==                    \* wrong: tx_done stays up
  \/ irq.at = 4 /\ Becomes([irq EXCEPT !.tx_done = TRUE, !.at = 5])
  \/ /\ irq.at = 5 /\ main.tx_state = "RX"
     /\ Becomes([irq EXCEPT !.irq_dealing = FALSE, !.at = 0])

TxDone ==
  \/ irq.at = 4 /\ Becomes([irq EXCEPT !.tx_done = TRUE, !.at = 5])
  \/ /\ irq.at = 5 /\ main.tx_state = "RX"
     /\ Becomes([irq EXCEPT !.tx_done = FALSE, !.irq_dealing = FALSE, !.at = 0])

(* State 6: SRAM_AlmostFull may be up.                                      *)
MarkPacket ==
  /\ irq.at = 6
  /\ \/ Becomes([irq EXCEPT !.Pkt_Start_flag = TRUE, !.at = 7])
     \/ Becomes([irq EXCEPT !.at = 16])

AskRssi == irq.at = 7 /\ ~engine.spi_Using /\ Request(Op("rssi", 1), 8)
StoreSync == irq.at = 10 /\ Request(Op("sync", 2), 11)

(* State 13: the first chunk, a whole short packet, or the last part.       *)
HeadTooLong == Op("head", RX_THRESHOLD)  \* wrong: counts the length byte twice
HeadChunk   == Op("head", RX_THRESHOLD - 2)

LastShort ==                     \* wrong: forgets the length byte
  Op("rest", (engine.recv_pkt_len - irq.Data_Recv_Pos) % 256)
LastChunk == Op("rest", (engine.recv_pkt_len - irq.Data_Recv_Pos + 1) % 256)

ReadChunk ==
  /\ irq.at = 13
  /\ LET op == IF irq.almost_full THEN HeadChunk
               ELSE IF irq.packets_incoming = 1 THEN Op("head", 0) ELSE LastChunk
     IN Becomes([irq EXCEPT !.start = TRUE, !.op = op, !.at = 14,
                   !.Data_Recv_Pos =
                     IF irq.almost_full THEN @ + RX_THRESHOLD - 1 ELSE @])

ChunkRead == irq.at = 15 /\ Answered(IF irq.almost_full THEN 30 ELSE 19)

ReadMore ==
  /\ irq.at = 27
  /\ Becomes([irq EXCEPT !.start = TRUE, !.op = Op("rest", RX_THRESHOLD),
                !.Data_Recv_Pos = (@ + RX_THRESHOLD) % 256, !.at = 28])

EndChunk ==
  /\ irq.at = 30
  /\ Becomes([irq EXCEPT !.almost_full = FALSE, !.irq_dealing = FALSE, !.at = 0])

ResetFifos ==
  irq.at = 16 /\ ~engine.spi_Using /\ Request(Op("fifo_reset", 2), 17)

AnnouncePacket ==
  irq.at = 19 /\ Becomes([irq EXCEPT !.Pkt_Received_flag = TRUE, !.at = 20])

StartRx ==
  /\ irq.at = 20
  /\ Becomes([irq EXCEPT !.Pkt_Received_flag = FALSE, !.forced = FALSE, !.start = TRUE,
                         !.op = Op("start_rx", 1), !.at = 21])

AskState == irq.at = 22 /\ Request(Op("state", 1), 23)

(* State 24.                                                                *)
EndReception ==
  /\ irq.at = 24 /\ DoneForIrq
  /\ IF engine.mode = "rx"
     THEN Becomes([irq EXCEPT !.start = FALSE, !.op = NoOp, !.packets_incoming = 0,
                     !.Data_Recv_Pos = 0,
                     !.watchdog = 3, !.irq_dealing = FALSE, !.almost_full = FALSE,
                      !.at = 0])
     ELSE Becomes([irq EXCEPT !.start = FALSE, !.op = NoOp, !.at = 19])

EndAlmostEmpty ==
  /\ irq.at = 26
  /\ Becomes([irq EXCEPT !.almost_empty = FALSE, !.irq_dealing = FALSE, !.at = 0])

IrqAnswered ==
  \/ irq.at \in {9, 12, 21, 29} /\ Answered(irq.at + 1)
  \/ irq.at = 18 /\ Answered(20)

IrqWaits ==
  /\ \/ irq.at = 0 /\ ~(main.enable_irq /\ radio.pending # {})
     \/ irq.at \in {1, 7, 16} /\ engine.spi_Using
     \/ irq.at = 5 /\ main.tx_state # "RX"
     \/ irq.at \in {3, 9, 12, 15, 18, 21, 24, 29} /\ ~DoneForIrq
  /\ Becomes(irq)

IrqStep ==
  \/ ~main.reset_n /\ irq' = IrqReset
  \/ /\ main.reset_n
     /\ \/ WaitForInterrupt \/ AskStatus \/ IrqEdge \/ Classify \/ TxDone
        \/ MarkPacket \/ AskRssi \/ StoreSync \/ ReadChunk \/ ChunkRead
        \/ ReadMore \/ EndChunk \/ ResetFifos \/ AnnouncePacket \/ StartRx
        \/ AskState \/ EndReception \/ EndAlmostEmpty \/ IrqAnswered \/ IrqWaits
=============================================================================
