----------------------------- MODULE SlaveCtrl -----------------------------
(***************************************************************************)
(* fpga-si4463/Slave_Ctrl.v: the CPU's side of the FPGA.  One always block  *)
(* holds three machines that run one after the other at every posedge:      *)
(* the packet counter, the Irq machine, which fetches the head of the next  *)
(* packet and raises the CPU's interrupt, and the Spi machine, which serves *)
(* the bytes of the CPU.  The Irq and the Spi machine share SRAM_read and   *)
(* the one SRAM_hint.                                                       *)
(*                                                                          *)
(* A word is a pair <<high byte, low byte>>.  Of Data_len, Config_len and   *)
(* Cmd_len only that of the message being received is live: they are one    *)
(* Len, and the three counters of received bytes are one Count.  The three  *)
(* write lines are one write_line, the number of the request it raises.     *)
(***************************************************************************)
EXTENDS Integers

CONSTANT Byte

ASSUME ByteAssumption == Byte = 0 .. 255

VARIABLES irq, spi

Sync      == <<45, 212>>          \* 0x2DD4, before every packet in a FIFO
ConfigCmd == 17                   \* 0x11
SingleCmd == 18                   \* 0x12
SendCmd   == 102                  \* 0x66
RecvCmd   == 119                  \* 0x77

(* The values of write_line: the requests of SRAM_ctrl.                     *)
NoWrite    == 0
TxWrite    == 1
CfgWrite   == 5
SingleWrite == 9

IrqReset(old) == [old EXCEPT !.state = 0, !.SRAM_read = FALSE,
                             !.cpu_recv_int = TRUE, !.counted = FALSE,
                             !.bufferd_pkt_count = 0]

SlaveInit ==
  /\ irq = [state |-> 0, SRAM_read |-> FALSE, cpu_recv_int |-> TRUE,
            counted |-> FALSE, bufferd_pkt_count |-> 0,
            packet_len |-> 0, word |-> <<0, 0>>]
  /\ spi = [state |-> 0, byte |-> 0, Byte_flag |-> FALSE,
            Len |-> 0, Count |-> 0, Data_to_sram |-> <<0, 0>>,
            write_line |-> NoWrite, config_done |-> FALSE,
            cmd_done |-> FALSE, slave_data_to_spi |-> 0,
            slave_write |-> FALSE, irq_noted |-> FALSE,
            spi_send_end |-> TRUE, reset_n |-> TRUE]

-----------------------------------------------------------------------------
(* The reset test and the packet counter: a pulse is counted one edge after *)
(* it was seen, and the pulse of that edge is not looked at.                *)
AfterCounter(pkt) ==
  LET q == IF spi.reset_n THEN irq ELSE IrqReset(irq) IN
  IF q.counted
  THEN [q EXCEPT !.counted = FALSE,
                 !.bufferd_pkt_count = (@ + 1) % 65536]
  ELSE [q EXCEPT !.counted = pkt]

(* The Irq machine: 0, 1 look for the sync word; 2, 3 fetch the length and  *)
(* the first byte; 4 interrupts the CPU; 5, 6 wait until it was answered.   *)
AfterIrq(q, hint, data, empty) ==
  CASE q.state = 0 /\ q.bufferd_pkt_count > 0
         -> [q EXCEPT !.SRAM_read = TRUE, !.state = 1]
    [] q.state = 1 /\ hint
         -> [q EXCEPT !.SRAM_read = FALSE,
                      !.state = IF data = Sync THEN 2 ELSE 0]
    [] q.state = 2 /\ ~empty
         -> [q EXCEPT !.SRAM_read = TRUE, !.state = 3]
    [] q.state = 3 /\ hint
         -> [q EXCEPT !.SRAM_read = FALSE, !.word = data,
                      !.packet_len = data[1],
                      !.state = IF data[1] = 0 THEN 0 ELSE 4]
    [] q.state = 4
         -> [q EXCEPT !.cpu_recv_int = FALSE, !.state = 5]
    [] q.state = 5 /\ spi.irq_noted
         -> [q EXCEPT !.state = 6]
    [] q.state = 6 /\ spi.spi_send_end
         -> [q EXCEPT !.cpu_recv_int = TRUE, !.state = 0,
                      !.bufferd_pkt_count = (@ - 1) % 65536]
    [] OTHER -> q

-----------------------------------------------------------------------------
(* The Spi machine, given q, what the Irq machine left at this edge.        *)

(* A received byte moves it from a waiting state to the state that uses it. *)
AfterByte == [s \in {0, 4, 11, 30, 34, 45, 48} |->
                CASE s = 0 -> 3 [] s \in {4, 11} -> s + 2 [] OTHER -> s + 1]

TakeByte(done, byte) ==
  /\ done /\ spi.state \in DOMAIN AfterByte
  /\ spi' = [spi EXCEPT !.byte = byte, !.state = AfterByte[@],
                        !.Len = IF spi.state = 45 THEN byte ELSE @]

(* State 3: which message the CPU begins.                                   *)
BeginWrite ==
  /\ spi.state = 3 /\ spi.byte \in {ConfigCmd, SingleCmd}
  /\ spi' = [spi EXCEPT !.Byte_flag = FALSE, !.Len = 0, !.Count = 0,
                        !.state = IF spi.byte = ConfigCmd THEN 30 ELSE 45]

BeginSend ==
  /\ spi.state = 3 /\ spi.byte = SendCmd
  /\ spi' = [spi EXCEPT !.Data_to_sram[1] = Sync[1], !.Count = 0,
                        !.Byte_flag = FALSE, !.state = 4]

BeginRecv ==
  /\ spi.state = 3 /\ spi.byte = RecvCmd
  /\ spi' = [spi EXCEPT !.irq_noted = TRUE, !.Count = 0,
                        !.spi_send_end = FALSE, !.state = 24]

IgnoreByte ==
  /\ spi.state = 3
  /\ spi.byte \notin {ConfigCmd, SingleCmd, SendCmd, RecvCmd}
  /\ spi' = [spi EXCEPT !.state = 0]

(* The lengths: two bytes for a configuration, one for a frame.             *)
TakeLen ==
  \/ /\ spi.state = 31 /\ ~spi.Byte_flag
     /\ spi' = [spi EXCEPT !.Len = 256 * spi.byte, !.Byte_flag = TRUE,
                           !.state = 30]
  \/ /\ spi.state = 31 /\ spi.Byte_flag
     /\ spi' = [spi EXCEPT !.Len = @ + spi.byte, !.Byte_flag = FALSE,
                           !.state = 32]
  \/ /\ spi.state = 6
     /\ spi' = [spi EXCEPT !.Len = spi.byte, !.Data_to_sram[2] = Sync[2],
                           !.state = 7]

(* Two bytes make a word; the last word of an odd message is padded.        *)
AfterWord == [s \in {13, 35, 49} |-> s + 1]
NextByte  == [s \in {13, 35, 49} |-> IF s = 13 THEN 11 ELSE s - 1]

FirstHalfLate ==                 \* wrong: the last byte waits for another
  /\ spi.state \in DOMAIN AfterWord /\ ~spi.Byte_flag
  /\ IF spi.Count + 1 > spi.Len
     THEN spi' = [spi EXCEPT !.Data_to_sram = <<spi.byte, 0>>,
                             !.Count = @ + 1, !.state = AfterWord[@]]
     ELSE spi' = [spi EXCEPT !.Data_to_sram[1] = spi.byte,
                             !.Count = @ + 1, !.Byte_flag = TRUE,
                             !.state = NextByte[@]]

FirstHalf ==
  /\ spi.state \in DOMAIN AfterWord /\ ~spi.Byte_flag
  /\ IF spi.Count + 1 >= spi.Len
     THEN spi' = [spi EXCEPT !.Data_to_sram = <<spi.byte, 0>>,
                             !.Count = @ + 1, !.state = AfterWord[@]]
     ELSE spi' = [spi EXCEPT !.Data_to_sram[1] = spi.byte,
                             !.Count = @ + 1, !.Byte_flag = TRUE,
                             !.state = NextByte[@]]

SecondHalf ==
  /\ spi.state \in DOMAIN AfterWord /\ spi.Byte_flag
  /\ spi' = [spi EXCEPT !.Data_to_sram[2] = spi.byte, !.Count = @ + 1,
                        !.Byte_flag = FALSE, !.state = AfterWord[@]]

(* Raise a write line.  Only the frames of FIFO_I wait while it is full.    *)
RaiseSend(full) ==
  /\ spi.state \in {7, 9, 14} /\ ~full
  /\ spi' = [spi EXCEPT
       !.Data_to_sram = IF spi.state = 9
                        THEN <<(spi.Len + 1) \div 256, (spi.Len + 1) % 256>>
                        ELSE @,
       !.write_line = TxWrite, !.state = @ + 1]

RaiseStoreLow ==                 \* wrong: the length in the low byte
  /\ spi.state \in {32, 36, 46, 50}
  /\ spi' = [spi EXCEPT
       !.Data_to_sram = CASE spi.state = 32 -> <<spi.Len \div 256, spi.Len % 256>>
                          [] spi.state = 46 -> <<0, spi.Len>>
                          [] OTHER -> @,
       !.write_line = IF spi.state \in {32, 36} THEN CfgWrite ELSE SingleWrite,
       !.state = @ + 1]

RaiseStore ==
  /\ spi.state \in {32, 36, 46, 50}
  /\ spi' = [spi EXCEPT
       !.Data_to_sram = CASE spi.state = 32 -> <<spi.Len \div 256, spi.Len % 256>>
                          [] spi.state = 46 -> <<spi.Len, 0>>
                          [] OTHER -> @,
       !.write_line = IF spi.state \in {32, 36} THEN CfgWrite ELSE SingleWrite,
       !.state = @ + 1]

(* Lower it on the hint.  After the length of a frame the length itself is  *)
(* the first byte of the frame.                                             *)
AfterHint ==
  LET more == spi.Count < spi.Len IN
  CASE spi.state = 8  -> 9
    [] spi.state = 10 -> 11
    [] spi.state = 15 -> IF more THEN 11 ELSE 0
    [] spi.state = 33 -> 34
    [] spi.state = 37 -> IF more THEN 34 ELSE 38
    [] spi.state = 47 -> 48
    [] spi.state = 51 -> IF more THEN 48 ELSE 52

LowerWrite(hint) ==
  /\ hint /\ spi.state \in {8, 10, 15, 33, 37, 47, 51}
  /\ IF spi.state = 10
     THEN spi' = [spi EXCEPT !.write_line = NoWrite, !.state = AfterHint,
                             !.Data_to_sram[1] = spi.Len, !.Byte_flag = ~@]
     ELSE spi' = [spi EXCEPT !.write_line = NoWrite, !.state = AfterHint]

(* A configuration is complete: a one-cycle pulse to SRAM_ctrl, then a      *)
(* one-cycle reset of the counter and the Irq machine.                      *)
EndConfig ==
  /\ spi.state \in 38 .. 42
  /\ spi' = [spi EXCEPT
       !.config_done = (spi.state = 38),
       !.irq_noted = IF spi.state = 40 THEN FALSE ELSE @,
       !.reset_n = (spi.state # 41),
       !.state = IF @ = 42 THEN 0 ELSE @ + 1]

(* A single command is complete: a one-cycle pulse to Wireless_Ctrl.        *)
EndCmd ==
  /\ spi.state \in {52, 53}
  /\ spi' = [spi EXCEPT !.cmd_done = (spi.state = 52),
                        !.state = IF @ = 52 THEN 53 ELSE 0]

WriteMessage(hint, full, done, byte) ==
  \/ TakeByte(done, byte)
  \/ BeginWrite \/ BeginSend \/ BeginRecv \/ IgnoreByte
  \/ TakeLen \/ FirstHalf \/ SecondHalf
  \/ RaiseSend(full) \/ RaiseStore \/ LowerWrite(hint)
  \/ EndConfig \/ EndCmd

-----------------------------------------------------------------------------
(* A packet on its way to the CPU: 24 loads the length, 16 the first byte,  *)
(* and 18, 19 fetch a word whose bytes 20 and 22 load.                      *)
LoadByte(q, data, trdy) ==
  /\ trdy /\ spi.state \in {24, 16, 20, 22}
  /\ spi' = [spi EXCEPT
       !.slave_write = TRUE,
       !.slave_data_to_spi = CASE spi.state = 24 -> q.packet_len
                               [] spi.state = 16 -> q.word[2]
                               [] spi.state = 20 -> data[1]
                               [] spi.state = 22 -> data[2],
       !.state = @ + 1]

LoadedLen ==
  /\ spi.state = 25
  /\ spi' = [spi EXCEPT !.slave_write = FALSE, !.state = 16]

LoadedByteMore(q) ==             \* wrong: one byte too many
  /\ spi.state \in {17, 21, 23}
  /\ IF (spi.Count + 1) % 256 <= q.packet_len
     THEN spi' = [spi EXCEPT !.slave_write = FALSE,
                             !.Count = (@ + 1) % 256,
                             !.state = IF @ = 21 THEN 22 ELSE 18]
     ELSE spi' = [spi EXCEPT !.slave_write = FALSE,
                             !.Count = (@ + 1) % 256,
                             !.irq_noted = FALSE, !.spi_send_end = TRUE,
                             !.state = 0]

LoadedByteSilent(q) ==           \* wrong: the Irq machine is not told
  /\ spi.state \in {17, 21, 23}
  /\ IF (spi.Count + 1) % 256 < q.packet_len
     THEN spi' = [spi EXCEPT !.slave_write = FALSE,
                             !.Count = (@ + 1) % 256,
                             !.state = IF @ = 21 THEN 22 ELSE 18]
     ELSE spi' = [spi EXCEPT !.slave_write = FALSE,
                             !.Count = (@ + 1) % 256,
                             !.irq_noted = FALSE, !.state = 0]

LoadedByte(q) ==
  /\ spi.state \in {17, 21, 23}
  /\ IF (spi.Count + 1) % 256 < q.packet_len
     THEN spi' = [spi EXCEPT !.slave_write = FALSE,
                             !.Count = (@ + 1) % 256,
                             !.state = IF @ = 21 THEN 22 ELSE 18]
     ELSE spi' = [spi EXCEPT !.slave_write = FALSE,
                             !.Count = (@ + 1) % 256,
                             !.irq_noted = FALSE, !.spi_send_end = TRUE,
                             !.state = 0]

(* The two states of the Spi machine that drive SRAM_read.                  *)
RaiseRead(q) ==
  /\ spi.state = 18
  /\ spi' = [spi EXCEPT !.state = 19]
  /\ irq' = [q EXCEPT !.SRAM_read = TRUE]

LowerRead(q, hint) ==
  /\ spi.state = 19 /\ hint
  /\ spi' = [spi EXCEPT !.state = 20]
  /\ irq' = [q EXCEPT !.SRAM_read = FALSE]

SpiWaits(hint, full, done, trdy) ==
  \/ spi.state \in DOMAIN AfterByte /\ ~done
  \/ spi.state \in {7, 9, 14} /\ full
  \/ spi.state \in {8, 10, 15, 33, 37, 47, 51, 19} /\ ~hint
  \/ spi.state \in {24, 16, 20, 22} /\ ~trdy

(* One posedge of Slave_Ctrl, given what the other modules drive.           *)
SlaveStep(pkt, hint, data, full, empty, done, byte, trdy) ==
  LET q == AfterIrq(AfterCounter(pkt), hint, data, empty) IN
  \/ /\ \/ WriteMessage(hint, full, done, byte)
        \/ LoadByte(q, data, trdy) \/ LoadedLen \/ LoadedByte(q)
        \/ SpiWaits(hint, full, done, trdy) /\ UNCHANGED spi
     /\ irq' = q
  \/ RaiseRead(q) \/ LowerRead(q, hint)

(* The requests Slave_Ctrl raises at SRAM_ctrl.                             *)
SlaveRequestsCrossed ==          \* wrong: the done lines are crossed
  (IF spi.write_line = NoWrite THEN {} ELSE {spi.write_line})
  \cup (IF irq.SRAM_read THEN {2} ELSE {})
  \cup (IF spi.config_done THEN {8} ELSE {})

SlaveRequests ==
  (IF spi.write_line = NoWrite THEN {} ELSE {spi.write_line})
  \cup (IF irq.SRAM_read THEN {2} ELSE {})
  \cup (IF spi.config_done THEN {7} ELSE {})
=============================================================================
