----------------------------- MODULE TotalLink -----------------------------
(***************************************************************************)
(* fpga-si4463/total_link.v: SRAM_ctrl and Slave_Ctrl, cycle by cycle, with *)
(* the CPU's SPI port and the driver on one side and the port of            *)
(* Wireless_Ctrl on the other.  One step is one posedge of clk: every       *)
(* register is read before it and written after it.                         *)
(***************************************************************************)
EXTENDS SramCtrl, SlaveCtrl, SpiSlave, HostPort, RadioPort, SequencesExt

CONSTANTS
  FULL_I_THRESHOLD,    \* of cpu_irq_full, 18'h1FF80
  FULL_O_THRESHOLD     \* of SRAM_AlmostFull, 16'hFE00

ASSUME ThresholdAssumption ==
  FULL_I_THRESHOLD \in Nat /\ FULL_O_THRESHOLD \in Nat

(* The length of a frame or a command is one byte on the bus, that of a      *)
(* configuration two; that of a packet is one word with the RSSI.            *)
ASSUME MessageAssumption ==
  /\ \A f \in Frames \cup Commands : f \in Seq(Byte) /\ f # <<>> /\ Len(f) \in Byte
  /\ \A c \in Configs : c \in Seq(Byte) /\ c # <<>> /\ Len(c) \div 256 \in Byte
  /\ \A p \in Packets : p \in Seq(Byte) /\ Len(p) + 1 \in Byte
  /\ Rssi \in Byte /\ MaxMessages \in Nat /\ MaxPackets \in Nat

(* SRAM_ctrl with arbitrary neighbours, of which these are some.            *)
ASSUME NeighbourAssumption ==
  /\ Word = Byte \X Byte /\ RequestSets = SUBSET Request
  /\ Starts = BOOLEAN /\ Rollbacks = BOOLEAN

cpu_irq_full    == fifo_i_count > FULL_I_THRESHOLD
SRAM_AlmostFull == fifo_o_count > FULL_O_THRESHOLD

linkVars == <<vars, irq, spi, port, host, work, radio>>

(* What has no initialiser is 0 after configuration of the FPGA; the chip's *)
(* content does not matter before it is written.                            *)
Blank == <<0, 0>>

LinkInit ==
  /\ mem = [a \in Addr |-> Blank]
  /\ data_to_sram = Blank /\ data_from_sram = Blank
  /\ slave_data_from_sram = Blank /\ master_data_from_sram = Blank
  /\ Init /\ SlaveInit /\ PortInit /\ HostInit /\ RadioInit

(* One posedge, but for the driver.                                         *)
Fpga(ends, mosi) ==
  /\ Step(SlaveRequests \cup RadioRequests, radio.start, radio.rollback,
          spi.Data_to_sram, radio.data)
  /\ SlaveStep(radio.received, slave_hint, slave_data_from_sram,
               fifo_i_full, fifo_o_empty,
               port.SPI_DONE, port.Rx_holding_reg, ~port.Data_holding)
  /\ PortStep(ends, mosi, spi.slave_write, spi.slave_data_to_spi)
  /\ TakeInterrupt(irq.cpu_recv_int)
  /\ \/ Answer(master_hint, master_data_from_sram)
     \/ RadioMay(master_hint, fifo_i_empty, fifo_o_full, SRAM_AlmostFull)
     \/ RadioIdles(master_hint)

EdgeShifting ==
  /\ MayEndByte /\ ShiftByte(port.TxData) /\ Fpga(TRUE, Head(host.out))
EdgeReacting  == DriverReacts /\ Fpga(FALSE, 0)
EdgeBeginning == DriverBegins(cpu_irq_full) /\ Fpga(FALSE, 0)
EdgeQuiet     == UNCHANGED host /\ Fpga(FALSE, 0)

LinkNext == EdgeShifting \/ EdgeReacting \/ EdgeBeginning \/ EdgeQuiet

LinkSpec == LinkInit /\ [][LinkNext]_linkVars

(* The clock runs, the SPI clock of a begun message runs, and the driver's  *)
(* work is scheduled.  Nothing makes the radio or the network stack act.    *)
LinkFairness == /\ WF_linkVars(LinkNext)
                /\ WF_linkVars(EdgeShifting)
                /\ WF_linkVars(EdgeReacting)

FairLinkSpec == LinkSpec /\ LinkFairness

-----------------------------------------------------------------------------
(* What the driver hands to the network stack is what the radio announced:  *)
(* the packets with a good CRC, each with its RSSI, whole, in order, none   *)
(* twice, although rolled-back ones were stored between them                *)
(* (Slave_Ctrl.v:174-232, 659-752; SRAM_ctrl.v:166-173).                    *)
ReceivedInOrder == IsPrefix(host.got, radio.good)

(* A byte is never announced while the Spi machine is busy storing: each    *)
(* word reaches the SRAM before the CPU has shifted the next byte in,       *)
(* whatever the SRAM is doing (Slave_Ctrl.v:543-652; 20 MHz SPI against a   *)
(* clk of 100 MHz).                                                         *)
NoByteLost ==
  port.SPI_DONE =>
    \/ spi.state \in DOMAIN AfterByte
    \/ host.msg \in {"len", "packet", "none"} /\ spi.state \in 16 .. 25

(* slave_read is never raised at an empty FIFO_O, where it would keep every *)
(* request but slave_write waiting (SRAM_ctrl.v:186-193): the Irq machine   *)
(* does not test SRAM_empty in state 0 (Slave_Ctrl.v:175-182), nor the Spi  *)
(* machine in 18.                                                           *)
NeverBlocked == Current_State = 0 /\ irq.SRAM_read => ~fifo_o_empty

(* What a frame becomes in FIFO_I: the sync word, its length with the       *)
(* length byte, and the length byte followed by its bytes.                  *)
Pairs(bytes) ==
  [k \in 1 .. ((Len(bytes) + 1) \div 2) |->
     <<bytes[2 * k - 1], IF 2 * k <= Len(bytes) THEN bytes[2 * k] ELSE 0>>]
FrameWords(f) ==
  <<Sync, <<(Len(f) + 1) \div 256, (Len(f) + 1) % 256>>>>
  \o Pairs(<<Len(f)>> \o f)
Framed(sent) ==
  FoldLeft(LAMBDA words, m : IF m.msg = "frame" THEN words \o FrameWords(m.body)
                             ELSE words, <<>>, sent)

(* The radio fetches the frames the driver sent, word for word, and in the  *)
(* end all of them (Slave_Ctrl.v:543-652): when the driver is done and the  *)
(* Spi machine waits for a byte, every word was stored.                     *)
AllStored == /\ host.msg = "none" /\ port.since = ByteGap
             /\ spi.state \in DOMAIN AfterByte
             /\ fifo_i_count = 0 /\ ~radio.read
FramesReachRadio ==
  /\ IsPrefix(radio.fetched, Framed(host.sent))
  /\ AllStored => radio.fetched = Framed(host.sent)

(* When the Spi machine is told that its word is written, it is the newest  *)
(* of FIFO_I (Slave_Ctrl.v:560-598), although the Irq machine of the same   *)
(* module waits for the same SRAM_hint.                                     *)
Newest == mem[IF fifo_i_wr_ptr = MIN_FIFO_I_PTR THEN MAX_FIFO_I_PTR
              ELSE fifo_i_wr_ptr - 1]
WordStored ==
  slave_hint /\ spi.write_line = TxWrite => Newest = spi.Data_to_sram

(* The pulse of Slave_Ctrl at the end of a configuration resets SRAM_ctrl   *)
(* (Slave_Ctrl.v:423-432; SRAM_ctrl.v:222, 311-323).                        *)
ConfigHeeded ==
  [][spi.config_done => Current_State' = config_write_done]_linkVars

(* The last message the driver has shifted bytes of: one it has only begun  *)
(* does not count.                                                          *)
LastSent ==
  LET n == Len(host.sent) IN
  host.sent[IF host.msg \in {"frame", "cmd", "config"} /\ host.in = <<>>
            THEN n - 1 ELSE n]

(* When Wireless_Ctrl is told of a single command, the ring of the commands *)
(* ends with the command just sent, its length first                        *)
(* (Slave_Ctrl.v:453-539).                                                  *)
CmdWords(c) == <<<<Len(c), 0>>>> \o Pairs(c)
CmdRing(back) ==                 \* the address back words before cmd_wr_ptr
  LET size == CMD_MAXEND_P - CMD_START_P + 1 IN
  CMD_START_P + ((cmd_wr_ptr - CMD_START_P - back + size) % size)
EndsWith(words) ==
  \A k \in DOMAIN words : mem[CmdRing(Len(words) + 1 - k)] = words[k]
CommandStored ==
  spi.cmd_done => LastSent.msg = "cmd" /\ EndsWith(CmdWords(LastSent.body))

(* When Slave_Ctrl announces a configuration, its region begins with the    *)
(* one just sent, its length first, though others were stored before it     *)
(* (Slave_Ctrl.v:332-427; SRAM_ctrl.v:311-323).                             *)
ConfigWords(c) == <<<<Len(c) \div 256, Len(c) % 256>>>> \o Pairs(c)
ConfigStored ==
  spi.config_done =>
    /\ LastSent.msg = "config"
    /\ LET words == ConfigWords(LastSent.body) IN
       \A i \in DOMAIN words : mem[CONFIG_START_P + i - 1] = words[i]

(* Every packet announced is handed over in the end.                        *)
PacketsDelivered ==
  \A n \in 1 .. MaxPackets :
    Len(radio.good) >= n ~> Len(host.got) >= n
=============================================================================
