-------------------------- MODULE TotalLink_proofs --------------------------
(***************************************************************************)
(* Proofs about TotalLink, for any layout of the chip, any packets, frames, *)
(* commands and configurations whose lengths fit, and any clock of the SPI. *)
(***************************************************************************)
EXTENDS TotalLink, SramFifo_proofs

-----------------------------------------------------------------------------
(* The SPI port and the Irq machine.                                        *)

(* The registers of spi_slave have the width of a byte.                     *)
PortType ==
  /\ port.TxData \in Byte /\ port.Tx_hold_reg \in Byte /\ port.Data_holding \in BOOLEAN
  /\ port.RxdData \in Byte /\ port.Rx_holding_reg \in Byte /\ port.SPI_DONE \in BOOLEAN
  /\ port.since \in Nat

(* The registers of the Irq machine, what an edge may make of them.         *)
IrqFields(q) ==
  /\ DOMAIN q = {"state", "SRAM_read", "cpu_recv_int", "counted", "bufferd_pkt_count",
                 "packet_len", "word"}
  /\ q.SRAM_read \in BOOLEAN /\ q.cpu_recv_int \in BOOLEAN /\ q.counted \in BOOLEAN
  /\ q.packet_len \in Byte /\ q.word[1] \in Byte /\ q.word[2] \in Byte

(* An edge of spi_slave keeps them so, whatever Slave_Ctrl loads.           *)
LEMMA PortTypeStep ==
  ASSUME PortType, NEW ends \in BOOLEAN, NEW mosi \in Byte, NEW load \in BOOLEAN,
         NEW data \in Byte, PortStep(ends, mosi, load, data), 0 \in Byte
  PROVE  PortType'
<1>1. ByteGap \in Nat
  BY TimingAssumption
<1>2. /\ port'.TxData = (IF ~ends THEN port.TxData
                      ELSE IF port.Data_holding THEN port.Tx_hold_reg ELSE 0)
      /\ port'.Tx_hold_reg  = (IF load THEN data ELSE port.Tx_hold_reg)
      /\ port'.Data_holding = (IF ends /\ port.Data_holding THEN FALSE
                      ELSE load \/ port.Data_holding)
  BY DEF PortStep
<1>3. /\ port'.RxdData      = (IF ends THEN mosi ELSE port.RxdData)
      /\ port'.Rx_holding_reg = (IF port.since = HalfSclk THEN port.RxdData
                        ELSE port.Rx_holding_reg)
      /\ port'.SPI_DONE     = (port.since = HalfSclk)
  BY DEF PortStep
<1>4. port'.since        = (IF ends THEN 0
                      ELSE IF port.since < ByteGap THEN port.since + 1
                      ELSE ByteGap)
  BY DEF PortStep
<1>5. port'.Data_holding \in BOOLEAN
  BY <1>2 DEF PortType
<1>7. port'.SPI_DONE \in BOOLEAN
  BY <1>3
<1>6. port'.Data_holding \in BOOLEAN /\ port'.SPI_DONE \in BOOLEAN
  BY <1>5, <1>7
<1>8. /\ port'.TxData \in Byte /\ port'.Tx_hold_reg \in Byte
      /\ port'.RxdData \in Byte /\ port'.Rx_holding_reg \in Byte /\ port'.since \in Nat
  BY <1>1, <1>2, <1>3, <1>4 DEF PortType
<1>9. QED
  BY <1>6, <1>8 DEF PortType

(* So do the reset of the Irq machine,                                      *)
LEMMA IrqResetType ==
  ASSUME NEW q, IrqFields(q)
  PROVE  IrqFields(IrqReset(q))
  BY DEF IrqFields, IrqReset

(* the counter of packets,                                                  *)
LEMMA CounterType ==
  ASSUME IrqFields(irq), NEW pkt \in BOOLEAN
  PROVE  IrqFields(AfterCounter(pkt))
<1> DEFINE q == IF spi.reset_n THEN irq ELSE IrqReset(irq)
<1>1. IrqFields(q)
  BY IrqResetType
<1>2. AfterCounter(pkt) = IF q.counted
                          THEN [q EXCEPT !.counted = FALSE,
                                         !.bufferd_pkt_count = (@ + 1) % 65536]
                          ELSE [q EXCEPT !.counted = pkt]
  BY DEF AfterCounter
<1> HIDE DEF q
<1>3. ASSUME NEW a, NEW b \in BOOLEAN, NEW c,
             a = [q EXCEPT !.counted = b, !.bufferd_pkt_count = c]
      PROVE  IrqFields(a)
  <2>1. /\ DOMAIN a = DOMAIN q /\ a.SRAM_read = q.SRAM_read /\ a.counted = b
        /\ a.cpu_recv_int = q.cpu_recv_int /\ a.packet_len = q.packet_len /\ a.word = q.word
    BY <1>1, <1>3 DEF IrqFields
  <2>2. QED
    BY <1>1, <2>1 DEF IrqFields
<1>4. CASE q.counted
  <2> DEFINE more == (q.bufferd_pkt_count + 1) % 65536
  <2>1. AfterCounter(pkt) = [q EXCEPT !.counted = FALSE, !.bufferd_pkt_count = more]
    BY <1>1, <1>2, <1>4 DEF IrqFields
  <2> HIDE DEF more
  <2>2. QED
    BY <1>3, <2>1
<1>5. ASSUME NEW a, a = [q EXCEPT !.counted = pkt]
      PROVE  IrqFields(a)
  <2>1. /\ DOMAIN a = DOMAIN q /\ a.SRAM_read = q.SRAM_read /\ a.counted = pkt
        /\ a.cpu_recv_int = q.cpu_recv_int /\ a.packet_len = q.packet_len /\ a.word = q.word
    BY <1>1, <1>5 DEF IrqFields
  <2>2. QED
    BY <1>1, <2>1 DEF IrqFields
<1>6. CASE ~q.counted
  BY <1>2, <1>5, <1>6
<1>7. QED
  BY <1>4, <1>6

(* and its states.                                                          *)
LEMMA AfterIrqType ==
  ASSUME NEW q, IrqFields(q), NEW hint, NEW data, data[1] \in Byte, data[2] \in Byte,
         NEW empty
  PROVE  IrqFields(AfterIrq(q, hint, data, empty))
<1>1. CASE q.state = 0 /\ q.bufferd_pkt_count > 0
  <2>1. AfterIrq(q, hint, data, empty) = [q EXCEPT !.SRAM_read = TRUE, !.state = 1]
    BY <1>1 DEF AfterIrq
  <2>2. ASSUME NEW a, a = [q EXCEPT !.SRAM_read = TRUE, !.state = 1]
        PROVE  IrqFields(a)
    <3>1. DOMAIN a = DOMAIN q /\ a.SRAM_read = TRUE /\ a.cpu_recv_int = q.cpu_recv_int
      BY <2>2 DEF IrqFields
    <3>2. a.counted = q.counted /\ a.packet_len = q.packet_len /\ a.word = q.word
      BY <2>2 DEF IrqFields
    <3>3. QED
      BY <3>1, <3>2 DEF IrqFields
  <2>3. QED
    BY <2>1, <2>2
<1>2. CASE q.state = 1 /\ hint
  <2>1. AfterIrq(q, hint, data, empty) = [q EXCEPT !.SRAM_read = FALSE,
            !.state = IF data = Sync THEN 2 ELSE 0]
    BY <1>2 DEF AfterIrq
  <2>2. ASSUME NEW a, a = [q EXCEPT !.SRAM_read = FALSE,
                   !.state = IF data = Sync THEN 2 ELSE 0]
        PROVE  IrqFields(a)
    <3>1. DOMAIN a = DOMAIN q /\ a.SRAM_read = FALSE /\ a.cpu_recv_int = q.cpu_recv_int
      BY <2>2 DEF IrqFields
    <3>2. a.counted = q.counted /\ a.packet_len = q.packet_len /\ a.word = q.word
      BY <2>2 DEF IrqFields
    <3>3. QED
      BY <3>1, <3>2 DEF IrqFields
  <2>3. QED
    BY <2>1, <2>2
<1>3. CASE q.state = 2 /\ ~empty
  <2>1. AfterIrq(q, hint, data, empty) = [q EXCEPT !.SRAM_read = TRUE, !.state = 3]
    BY <1>3 DEF AfterIrq
  <2>2. ASSUME NEW a, a = [q EXCEPT !.SRAM_read = TRUE, !.state = 3]
        PROVE  IrqFields(a)
    <3>1. DOMAIN a = DOMAIN q /\ a.SRAM_read = TRUE /\ a.cpu_recv_int = q.cpu_recv_int
      BY <2>2 DEF IrqFields
    <3>2. a.counted = q.counted /\ a.packet_len = q.packet_len /\ a.word = q.word
      BY <2>2 DEF IrqFields
    <3>3. QED
      BY <3>1, <3>2 DEF IrqFields
  <2>3. QED
    BY <2>1, <2>2
<1>4. CASE q.state = 3 /\ hint
  <2>1. AfterIrq(q, hint, data, empty) = [q EXCEPT !.SRAM_read = FALSE, !.word = data,
            !.packet_len = data[1], !.state = IF data[1] = 0 THEN 0 ELSE 4]
    BY <1>4 DEF AfterIrq
  <2>2. ASSUME NEW a, a = [q EXCEPT !.SRAM_read = FALSE, !.word = data,
                   !.packet_len = data[1], !.state = IF data[1] = 0 THEN 0 ELSE 4]
        PROVE  IrqFields(a)
    <3>1. DOMAIN a = DOMAIN q /\ a.SRAM_read = FALSE /\ a.cpu_recv_int = q.cpu_recv_int
      BY <2>2 DEF IrqFields
    <3>2. a.counted = q.counted /\ a.packet_len = data[1] /\ a.word = data
      BY <2>2 DEF IrqFields
    <3>3. QED
      BY <3>1, <3>2 DEF IrqFields
  <2>3. QED
    BY <2>1, <2>2
<1>5. CASE q.state = 4
  <2>1. AfterIrq(q, hint, data, empty) = [q EXCEPT !.cpu_recv_int = FALSE, !.state = 5]
    BY <1>5 DEF AfterIrq
  <2>2. ASSUME NEW a, a = [q EXCEPT !.cpu_recv_int = FALSE, !.state = 5]
        PROVE  IrqFields(a)
    <3>1. DOMAIN a = DOMAIN q /\ a.SRAM_read = q.SRAM_read /\ a.cpu_recv_int = FALSE
      BY <2>2 DEF IrqFields
    <3>2. a.counted = q.counted /\ a.packet_len = q.packet_len /\ a.word = q.word
      BY <2>2 DEF IrqFields
    <3>3. QED
      BY <3>1, <3>2 DEF IrqFields
  <2>3. QED
    BY <2>1, <2>2
<1>6. CASE q.state = 5 /\ spi.irq_noted
  <2>1. AfterIrq(q, hint, data, empty) = [q EXCEPT !.state = 6]
    BY <1>6 DEF AfterIrq
  <2>2. ASSUME NEW a, a = [q EXCEPT !.state = 6]
        PROVE  IrqFields(a)
    <3>1. DOMAIN a = DOMAIN q /\ a.SRAM_read = q.SRAM_read
            /\ a.cpu_recv_int = q.cpu_recv_int
      BY <2>2 DEF IrqFields
    <3>2. a.counted = q.counted /\ a.packet_len = q.packet_len /\ a.word = q.word
      BY <2>2 DEF IrqFields
    <3>3. QED
      BY <3>1, <3>2 DEF IrqFields
  <2>3. QED
    BY <2>1, <2>2
<1>7. CASE q.state = 6 /\ spi.spi_send_end
  <2>1. AfterIrq(q, hint, data, empty) = [q EXCEPT !.cpu_recv_int = TRUE, !.state = 0,
            !.bufferd_pkt_count = (@ - 1) % 65536]
    BY <1>7 DEF AfterIrq
  <2>2. ASSUME NEW a, a = [q EXCEPT !.cpu_recv_int = TRUE, !.state = 0,
                   !.bufferd_pkt_count = (@ - 1) % 65536]
        PROVE  IrqFields(a)
    <3>1. DOMAIN a = DOMAIN q /\ a.SRAM_read = q.SRAM_read /\ a.cpu_recv_int = TRUE
      BY <2>2 DEF IrqFields
    <3>2. a.counted = q.counted /\ a.packet_len = q.packet_len /\ a.word = q.word
      BY <2>2 DEF IrqFields
    <3>3. QED
      BY <3>1, <3>2 DEF IrqFields
  <2>3. QED
    BY <2>1, <2>2
<1>8. CASE /\ ~(q.state = 0 /\ q.bufferd_pkt_count > 0)
           /\ ~(q.state = 1 /\ hint)
           /\ ~(q.state = 2 /\ ~empty)
           /\ ~(q.state = 3 /\ hint)
           /\ ~(q.state = 4)
           /\ ~(q.state = 5 /\ spi.irq_noted)
           /\ ~(q.state = 6 /\ spi.spi_send_end)
  <2>1. AfterIrq(q, hint, data, empty) = q
    BY <1>8 DEF AfterIrq
  <2>2. QED
    BY <2>1
<1>9. QED
  BY <1>1, <1>2, <1>3, <1>4, <1>5, <1>6, <1>7, <1>8

-----------------------------------------------------------------------------
(* The actions of the Spi machine, register by register.                    *)

(* The registers of the Spi machine.                                        *)
SpiRegisters ==
  {"state", "byte", "Byte_flag", "Len", "Count", "Data_to_sram", "write_line",
   "config_done", "cmd_done", "slave_data_to_spi", "slave_write", "irq_noted",
   "spi_send_end", "reset_n"}
SpiShape == DOMAIN spi = SpiRegisters /\ DOMAIN spi.Data_to_sram = {1, 2}

(* TakeByte.                                                                *)
LEMMA TakeByteSets ==
  ASSUME SpiShape, NEW done, NEW byte, TakeByte(done, byte)
  PROVE  /\ SpiShape'
         /\ spi.state \in DOMAIN AfterByte
         /\ spi'.state = AfterByte[spi.state] /\ spi'.byte = byte
         /\ spi'.Byte_flag = spi.Byte_flag
         /\ spi'.Len = (IF spi.state = 45 THEN byte ELSE spi.Len)
         /\ spi'.Count = spi.Count /\ spi'.Data_to_sram = spi.Data_to_sram
         /\ spi'.write_line = spi.write_line
         /\ spi'.config_done = spi.config_done /\ spi'.cmd_done = spi.cmd_done
         /\ spi'.slave_data_to_spi = spi.slave_data_to_spi
         /\ spi'.slave_write = spi.slave_write
         /\ spi'.irq_noted = spi.irq_noted
         /\ spi'.spi_send_end = spi.spi_send_end /\ spi'.reset_n = spi.reset_n
BY DEF SpiShape, SpiRegisters, TakeByte

(* BeginWrite.                                                              *)
LEMMA BeginWriteSets ==
  ASSUME SpiShape, BeginWrite
  PROVE  /\ SpiShape'
         /\ spi.state = 3 /\ spi.byte \in {ConfigCmd, SingleCmd}
         /\ spi'.state = (IF spi.byte = ConfigCmd THEN 30 ELSE 45)
         /\ spi'.byte = spi.byte /\ spi'.Byte_flag = FALSE /\ spi'.Len = 0
         /\ spi'.Count = 0 /\ spi'.Data_to_sram = spi.Data_to_sram
         /\ spi'.write_line = spi.write_line
         /\ spi'.config_done = spi.config_done /\ spi'.cmd_done = spi.cmd_done
         /\ spi'.slave_data_to_spi = spi.slave_data_to_spi
         /\ spi'.slave_write = spi.slave_write
         /\ spi'.irq_noted = spi.irq_noted
         /\ spi'.spi_send_end = spi.spi_send_end /\ spi'.reset_n = spi.reset_n
BY DEF SpiShape, SpiRegisters, BeginWrite

(* BeginSend.                                                               *)
LEMMA BeginSendSets ==
  ASSUME SpiShape, BeginSend
  PROVE  /\ SpiShape'
         /\ spi.state = 3 /\ spi.byte = SendCmd
         /\ spi'.state = 4 /\ spi'.byte = spi.byte /\ spi'.Byte_flag = FALSE
         /\ spi'.Len = spi.Len /\ spi'.Count = 0
         /\ spi'.Data_to_sram[1] = Sync[1]
         /\ spi'.Data_to_sram[2] = spi.Data_to_sram[2]
         /\ spi'.Data_to_sram = [spi.Data_to_sram EXCEPT ![1] = Sync[1]]
         /\ spi'.write_line = spi.write_line
         /\ spi'.config_done = spi.config_done /\ spi'.cmd_done = spi.cmd_done
         /\ spi'.slave_data_to_spi = spi.slave_data_to_spi
         /\ spi'.slave_write = spi.slave_write
         /\ spi'.irq_noted = spi.irq_noted
         /\ spi'.spi_send_end = spi.spi_send_end /\ spi'.reset_n = spi.reset_n
BY DEF SpiShape, SpiRegisters, BeginSend

(* BeginRecv.                                                               *)
LEMMA BeginRecvSets ==
  ASSUME SpiShape, BeginRecv
  PROVE  /\ SpiShape'
         /\ spi.state = 3 /\ spi.byte = RecvCmd
         /\ spi'.state = 24 /\ spi'.byte = spi.byte
         /\ spi'.Byte_flag = spi.Byte_flag /\ spi'.Len = spi.Len
         /\ spi'.Count = 0 /\ spi'.Data_to_sram = spi.Data_to_sram
         /\ spi'.write_line = spi.write_line
         /\ spi'.config_done = spi.config_done /\ spi'.cmd_done = spi.cmd_done
         /\ spi'.slave_data_to_spi = spi.slave_data_to_spi
         /\ spi'.slave_write = spi.slave_write /\ spi'.irq_noted = TRUE
         /\ spi'.spi_send_end = FALSE /\ spi'.reset_n = spi.reset_n
BY DEF SpiShape, SpiRegisters, BeginRecv

(* IgnoreByte.                                                              *)
LEMMA IgnoreByteSets ==
  ASSUME SpiShape, IgnoreByte
  PROVE  /\ SpiShape'
         /\ spi.state = 3 /\ spi.byte \notin {ConfigCmd, SingleCmd, SendCmd, RecvCmd}
         /\ spi'.state = 0 /\ spi'.byte = spi.byte
         /\ spi'.Byte_flag = spi.Byte_flag /\ spi'.Len = spi.Len
         /\ spi'.Count = spi.Count /\ spi'.Data_to_sram = spi.Data_to_sram
         /\ spi'.write_line = spi.write_line
         /\ spi'.config_done = spi.config_done /\ spi'.cmd_done = spi.cmd_done
         /\ spi'.slave_data_to_spi = spi.slave_data_to_spi
         /\ spi'.slave_write = spi.slave_write
         /\ spi'.irq_noted = spi.irq_noted
         /\ spi'.spi_send_end = spi.spi_send_end /\ spi'.reset_n = spi.reset_n
BY DEF SpiShape, SpiRegisters, IgnoreByte

(* TakeLenHigh.                                                             *)
LEMMA TakeLenHighSets ==
  ASSUME SpiShape, TakeLen, spi.state = 31 /\ ~spi.Byte_flag
  PROVE  /\ SpiShape'
         /\ spi'.state = 30 /\ spi'.byte = spi.byte /\ spi'.Byte_flag = TRUE
         /\ spi'.Len = 256 * spi.byte /\ spi'.Count = spi.Count
         /\ spi'.Data_to_sram = spi.Data_to_sram
         /\ spi'.write_line = spi.write_line
         /\ spi'.config_done = spi.config_done /\ spi'.cmd_done = spi.cmd_done
         /\ spi'.slave_data_to_spi = spi.slave_data_to_spi
         /\ spi'.slave_write = spi.slave_write
         /\ spi'.irq_noted = spi.irq_noted
         /\ spi'.spi_send_end = spi.spi_send_end /\ spi'.reset_n = spi.reset_n
<1>1. spi' = [spi EXCEPT !.Len = 256 * spi.byte, !.Byte_flag = TRUE, !.state = 30]
  BY DEF TakeLen
<1>2. QED
  BY <1>1 DEF SpiShape, SpiRegisters

(* TakeLenLow.                                                              *)
LEMMA TakeLenLowSets ==
  ASSUME SpiShape, TakeLen, spi.state = 31 /\ spi.Byte_flag
  PROVE  /\ SpiShape'
         /\ spi'.state = 32 /\ spi'.byte = spi.byte /\ spi'.Byte_flag = FALSE
         /\ spi'.Len = spi.Len + spi.byte /\ spi'.Count = spi.Count
         /\ spi'.Data_to_sram = spi.Data_to_sram
         /\ spi'.write_line = spi.write_line
         /\ spi'.config_done = spi.config_done /\ spi'.cmd_done = spi.cmd_done
         /\ spi'.slave_data_to_spi = spi.slave_data_to_spi
         /\ spi'.slave_write = spi.slave_write
         /\ spi'.irq_noted = spi.irq_noted
         /\ spi'.spi_send_end = spi.spi_send_end /\ spi'.reset_n = spi.reset_n
<1>1. spi' = [spi EXCEPT !.Len = @ + spi.byte, !.Byte_flag = FALSE, !.state = 32]
  BY DEF TakeLen
<1>2. QED
  BY <1>1 DEF SpiShape, SpiRegisters

(* TakeLenFrame.                                                            *)
LEMMA TakeLenFrameSets ==
  ASSUME SpiShape, TakeLen, spi.state = 6
  PROVE  /\ SpiShape'
         /\ spi'.state = 7 /\ spi'.byte = spi.byte
         /\ spi'.Byte_flag = spi.Byte_flag /\ spi'.Len = spi.byte
         /\ spi'.Count = spi.Count
         /\ spi'.Data_to_sram[1] = spi.Data_to_sram[1]
         /\ spi'.Data_to_sram[2] = Sync[2]
         /\ spi'.Data_to_sram = [spi.Data_to_sram EXCEPT ![2] = Sync[2]]
         /\ spi'.write_line = spi.write_line
         /\ spi'.config_done = spi.config_done /\ spi'.cmd_done = spi.cmd_done
         /\ spi'.slave_data_to_spi = spi.slave_data_to_spi
         /\ spi'.slave_write = spi.slave_write
         /\ spi'.irq_noted = spi.irq_noted
         /\ spi'.spi_send_end = spi.spi_send_end /\ spi'.reset_n = spi.reset_n
<1>1. spi' = [spi EXCEPT !.Len = spi.byte, !.Data_to_sram[2] = Sync[2], !.state = 7]
  BY DEF TakeLen
<1>2. QED
  BY <1>1 DEF SpiShape, SpiRegisters

(* FirstHalfLast.                                                           *)
LEMMA FirstHalfLastSets ==
  ASSUME SpiShape, FirstHalf, spi.Count + 1 >= spi.Len
  PROVE  /\ SpiShape'
         /\ spi.state \in DOMAIN AfterWord /\ ~spi.Byte_flag
         /\ spi'.state = AfterWord[spi.state] /\ spi'.byte = spi.byte
         /\ spi'.Byte_flag = spi.Byte_flag /\ spi'.Len = spi.Len
         /\ spi'.Count = spi.Count + 1 /\ spi'.Data_to_sram = <<spi.byte, 0>>
         /\ spi'.write_line = spi.write_line
         /\ spi'.config_done = spi.config_done /\ spi'.cmd_done = spi.cmd_done
         /\ spi'.slave_data_to_spi = spi.slave_data_to_spi
         /\ spi'.slave_write = spi.slave_write
         /\ spi'.irq_noted = spi.irq_noted
         /\ spi'.spi_send_end = spi.spi_send_end /\ spi'.reset_n = spi.reset_n
<1>1. spi' = [spi EXCEPT !.Data_to_sram = <<spi.byte, 0>>, !.Count = @ + 1,
          !.state = AfterWord[@]]
  BY DEF FirstHalf
<1>2. QED
  BY <1>1 DEF SpiShape, SpiRegisters, FirstHalf

(* FirstHalfMore.                                                           *)
LEMMA FirstHalfMoreSets ==
  ASSUME SpiShape, FirstHalf, ~(spi.Count + 1 >= spi.Len)
  PROVE  /\ SpiShape'
         /\ spi.state \in DOMAIN AfterWord /\ ~spi.Byte_flag
         /\ spi'.state = NextByte[spi.state] /\ spi'.byte = spi.byte
         /\ spi'.Byte_flag = TRUE /\ spi'.Len = spi.Len
         /\ spi'.Count = spi.Count + 1 /\ spi'.Data_to_sram[1] = spi.byte
         /\ spi'.Data_to_sram[2] = spi.Data_to_sram[2]
         /\ spi'.Data_to_sram = [spi.Data_to_sram EXCEPT ![1] = spi.byte]
         /\ spi'.write_line = spi.write_line
         /\ spi'.config_done = spi.config_done /\ spi'.cmd_done = spi.cmd_done
         /\ spi'.slave_data_to_spi = spi.slave_data_to_spi
         /\ spi'.slave_write = spi.slave_write
         /\ spi'.irq_noted = spi.irq_noted
         /\ spi'.spi_send_end = spi.spi_send_end /\ spi'.reset_n = spi.reset_n
<1>1. spi' = [spi EXCEPT !.Data_to_sram[1] = spi.byte, !.Count = @ + 1, !.Byte_flag = TRUE,
          !.state = NextByte[@]]
  BY DEF FirstHalf
<1>2. QED
  BY <1>1 DEF SpiShape, SpiRegisters, FirstHalf

(* SecondHalf.                                                              *)
LEMMA SecondHalfSets ==
  ASSUME SpiShape, SecondHalf
  PROVE  /\ SpiShape'
         /\ spi.state \in DOMAIN AfterWord /\ spi.Byte_flag
         /\ spi'.state = AfterWord[spi.state] /\ spi'.byte = spi.byte
         /\ spi'.Byte_flag = FALSE /\ spi'.Len = spi.Len
         /\ spi'.Count = spi.Count + 1
         /\ spi'.Data_to_sram[1] = spi.Data_to_sram[1]
         /\ spi'.Data_to_sram[2] = spi.byte
         /\ spi'.Data_to_sram = [spi.Data_to_sram EXCEPT ![2] = spi.byte]
         /\ spi'.write_line = spi.write_line
         /\ spi'.config_done = spi.config_done /\ spi'.cmd_done = spi.cmd_done
         /\ spi'.slave_data_to_spi = spi.slave_data_to_spi
         /\ spi'.slave_write = spi.slave_write
         /\ spi'.irq_noted = spi.irq_noted
         /\ spi'.spi_send_end = spi.spi_send_end /\ spi'.reset_n = spi.reset_n
BY DEF SpiShape, SpiRegisters, SecondHalf

(* RaiseSendLength.                                                         *)
LEMMA RaiseSendLengthSets ==
  ASSUME SpiShape, NEW full, RaiseSend(full), spi.state = 9
  PROVE  /\ SpiShape'
         /\ spi'.state = 10 /\ spi'.byte = spi.byte
         /\ spi'.Byte_flag = spi.Byte_flag /\ spi'.Len = spi.Len
         /\ spi'.Count = spi.Count
         /\ spi'.Data_to_sram = <<(spi.Len + 1) \div 256, (spi.Len + 1) % 256>>
         /\ spi'.write_line = TxWrite /\ spi'.config_done = spi.config_done
         /\ spi'.cmd_done = spi.cmd_done
         /\ spi'.slave_data_to_spi = spi.slave_data_to_spi
         /\ spi'.slave_write = spi.slave_write
         /\ spi'.irq_noted = spi.irq_noted
         /\ spi'.spi_send_end = spi.spi_send_end /\ spi'.reset_n = spi.reset_n
BY DEF SpiShape, SpiRegisters, RaiseSend

(* RaiseSendWord.                                                           *)
LEMMA RaiseSendWordSets ==
  ASSUME SpiShape, NEW full, RaiseSend(full), spi.state # 9
  PROVE  /\ SpiShape'
         /\ spi'.state = spi.state + 1 /\ spi'.byte = spi.byte
         /\ spi'.Byte_flag = spi.Byte_flag /\ spi'.Len = spi.Len
         /\ spi'.Count = spi.Count /\ spi'.Data_to_sram = spi.Data_to_sram
         /\ spi'.write_line = TxWrite /\ spi'.config_done = spi.config_done
         /\ spi'.cmd_done = spi.cmd_done
         /\ spi'.slave_data_to_spi = spi.slave_data_to_spi
         /\ spi'.slave_write = spi.slave_write
         /\ spi'.irq_noted = spi.irq_noted
         /\ spi'.spi_send_end = spi.spi_send_end /\ spi'.reset_n = spi.reset_n
BY DEF SpiShape, SpiRegisters, RaiseSend

(* RaiseStoreCfgLen.                                                        *)
LEMMA RaiseStoreCfgLenSets ==
  ASSUME SpiShape, RaiseStore, spi.state = 32
  PROVE  /\ SpiShape'
         /\ spi'.state = 33 /\ spi'.byte = spi.byte
         /\ spi'.Byte_flag = spi.Byte_flag /\ spi'.Len = spi.Len
         /\ spi'.Count = spi.Count
         /\ spi'.Data_to_sram = <<spi.Len \div 256, spi.Len % 256>>
         /\ spi'.write_line = CfgWrite /\ spi'.config_done = spi.config_done
         /\ spi'.cmd_done = spi.cmd_done
         /\ spi'.slave_data_to_spi = spi.slave_data_to_spi
         /\ spi'.slave_write = spi.slave_write
         /\ spi'.irq_noted = spi.irq_noted
         /\ spi'.spi_send_end = spi.spi_send_end /\ spi'.reset_n = spi.reset_n
BY DEF SpiShape, SpiRegisters, RaiseStore

(* RaiseStoreCmdLen.                                                        *)
LEMMA RaiseStoreCmdLenSets ==
  ASSUME SpiShape, RaiseStore, spi.state = 46
  PROVE  /\ SpiShape'
         /\ spi'.state = 47 /\ spi'.byte = spi.byte
         /\ spi'.Byte_flag = spi.Byte_flag /\ spi'.Len = spi.Len
         /\ spi'.Count = spi.Count /\ spi'.Data_to_sram = <<spi.Len, 0>>
         /\ spi'.write_line = SingleWrite
         /\ spi'.config_done = spi.config_done /\ spi'.cmd_done = spi.cmd_done
         /\ spi'.slave_data_to_spi = spi.slave_data_to_spi
         /\ spi'.slave_write = spi.slave_write
         /\ spi'.irq_noted = spi.irq_noted
         /\ spi'.spi_send_end = spi.spi_send_end /\ spi'.reset_n = spi.reset_n
BY DEF SpiShape, SpiRegisters, RaiseStore

(* RaiseStoreCfg.                                                           *)
LEMMA RaiseStoreCfgSets ==
  ASSUME SpiShape, RaiseStore, spi.state = 36
  PROVE  /\ SpiShape'
         /\ spi'.state = 37 /\ spi'.byte = spi.byte
         /\ spi'.Byte_flag = spi.Byte_flag /\ spi'.Len = spi.Len
         /\ spi'.Count = spi.Count /\ spi'.Data_to_sram = spi.Data_to_sram
         /\ spi'.write_line = CfgWrite /\ spi'.config_done = spi.config_done
         /\ spi'.cmd_done = spi.cmd_done
         /\ spi'.slave_data_to_spi = spi.slave_data_to_spi
         /\ spi'.slave_write = spi.slave_write
         /\ spi'.irq_noted = spi.irq_noted
         /\ spi'.spi_send_end = spi.spi_send_end /\ spi'.reset_n = spi.reset_n
BY DEF SpiShape, SpiRegisters, RaiseStore

(* RaiseStoreCmd.                                                           *)
LEMMA RaiseStoreCmdSets ==
  ASSUME SpiShape, RaiseStore, spi.state = 50
  PROVE  /\ SpiShape'
         /\ spi'.state = 51 /\ spi'.byte = spi.byte
         /\ spi'.Byte_flag = spi.Byte_flag /\ spi'.Len = spi.Len
         /\ spi'.Count = spi.Count /\ spi'.Data_to_sram = spi.Data_to_sram
         /\ spi'.write_line = SingleWrite
         /\ spi'.config_done = spi.config_done /\ spi'.cmd_done = spi.cmd_done
         /\ spi'.slave_data_to_spi = spi.slave_data_to_spi
         /\ spi'.slave_write = spi.slave_write
         /\ spi'.irq_noted = spi.irq_noted
         /\ spi'.spi_send_end = spi.spi_send_end /\ spi'.reset_n = spi.reset_n
BY DEF SpiShape, SpiRegisters, RaiseStore

(* LowerLength.                                                             *)
LEMMA LowerLengthSets ==
  ASSUME SpiShape, NEW hint, LowerWrite(hint), spi.state = 10
  PROVE  /\ SpiShape'
         /\ hint
         /\ spi'.state = 11 /\ spi'.byte = spi.byte
         /\ spi'.Byte_flag = ~spi.Byte_flag /\ spi'.Len = spi.Len
         /\ spi'.Count = spi.Count /\ spi'.Data_to_sram[1] = spi.Len
         /\ spi'.Data_to_sram[2] = spi.Data_to_sram[2]
         /\ spi'.Data_to_sram = [spi.Data_to_sram EXCEPT ![1] = spi.Len]
         /\ spi'.write_line = NoWrite /\ spi'.config_done = spi.config_done
         /\ spi'.cmd_done = spi.cmd_done
         /\ spi'.slave_data_to_spi = spi.slave_data_to_spi
         /\ spi'.slave_write = spi.slave_write
         /\ spi'.irq_noted = spi.irq_noted
         /\ spi'.spi_send_end = spi.spi_send_end /\ spi'.reset_n = spi.reset_n
<1>1. spi' = [spi EXCEPT !.write_line = NoWrite, !.state = 11, !.Data_to_sram[1] = spi.Len,
          !.Byte_flag = ~@]
  BY DEF LowerWrite, AfterHint
<1>2. QED
  BY <1>1 DEF SpiShape, SpiRegisters, LowerWrite

(* LowerWord.                                                               *)
LEMMA LowerWordSets ==
  ASSUME SpiShape, NEW hint, LowerWrite(hint), spi.state # 10
  PROVE  /\ SpiShape'
         /\ spi'.state = AfterHint /\ spi'.byte = spi.byte
         /\ spi'.Byte_flag = spi.Byte_flag /\ spi'.Len = spi.Len
         /\ spi'.Count = spi.Count /\ spi'.Data_to_sram = spi.Data_to_sram
         /\ spi'.write_line = NoWrite /\ spi'.config_done = spi.config_done
         /\ spi'.cmd_done = spi.cmd_done
         /\ spi'.slave_data_to_spi = spi.slave_data_to_spi
         /\ spi'.slave_write = spi.slave_write
         /\ spi'.irq_noted = spi.irq_noted
         /\ spi'.spi_send_end = spi.spi_send_end /\ spi'.reset_n = spi.reset_n
BY DEF SpiShape, SpiRegisters, LowerWrite

(* EndConfig.                                                               *)
LEMMA EndConfigSets ==
  ASSUME SpiShape, EndConfig
  PROVE  /\ SpiShape'
         /\ spi.state \in 38 .. 42
         /\ spi'.state = (IF spi.state = 42 THEN 0 ELSE spi.state + 1)
         /\ spi'.byte = spi.byte /\ spi'.Byte_flag = spi.Byte_flag
         /\ spi'.Len = spi.Len /\ spi'.Count = spi.Count
         /\ spi'.Data_to_sram = spi.Data_to_sram
         /\ spi'.write_line = spi.write_line
         /\ spi'.config_done = (spi.state = 38)
         /\ spi'.cmd_done = spi.cmd_done
         /\ spi'.slave_data_to_spi = spi.slave_data_to_spi
         /\ spi'.slave_write = spi.slave_write
         /\ spi'.irq_noted = (IF spi.state = 40 THEN FALSE ELSE spi.irq_noted)
         /\ spi'.spi_send_end = spi.spi_send_end
         /\ spi'.reset_n = (spi.state # 41)
BY DEF SpiShape, SpiRegisters, EndConfig

(* EndCmd.                                                                  *)
LEMMA EndCmdSets ==
  ASSUME SpiShape, EndCmd
  PROVE  /\ SpiShape'
         /\ spi.state \in {52, 53}
         /\ spi'.state = (IF spi.state = 52 THEN 53 ELSE 0)
         /\ spi'.byte = spi.byte /\ spi'.Byte_flag = spi.Byte_flag
         /\ spi'.Len = spi.Len /\ spi'.Count = spi.Count
         /\ spi'.Data_to_sram = spi.Data_to_sram
         /\ spi'.write_line = spi.write_line
         /\ spi'.config_done = spi.config_done
         /\ spi'.cmd_done = (spi.state = 52)
         /\ spi'.slave_data_to_spi = spi.slave_data_to_spi
         /\ spi'.slave_write = spi.slave_write
         /\ spi'.irq_noted = spi.irq_noted
         /\ spi'.spi_send_end = spi.spi_send_end /\ spi'.reset_n = spi.reset_n
BY DEF SpiShape, SpiRegisters, EndCmd

(* LoadByte.                                                                *)
LEMMA LoadByteSets ==
  ASSUME SpiShape, NEW q, NEW data, NEW trdy, LoadByte(q, data, trdy)
  PROVE  /\ SpiShape'
         /\ trdy /\ spi.state \in {24, 16, 20, 22}
         /\ spi'.state = spi.state + 1 /\ spi'.byte = spi.byte
         /\ spi'.Byte_flag = spi.Byte_flag /\ spi'.Len = spi.Len
         /\ spi'.Count = spi.Count /\ spi'.Data_to_sram = spi.Data_to_sram
         /\ spi'.write_line = spi.write_line
         /\ spi'.config_done = spi.config_done /\ spi'.cmd_done = spi.cmd_done
         /\ spi'.slave_data_to_spi = CASE spi.state = 24 -> q.packet_len
                                        [] spi.state = 16 -> q.word[2]
                                        [] spi.state = 20 -> data[1]
                                        [] spi.state = 22 -> data[2]
         /\ spi'.slave_write = TRUE /\ spi'.irq_noted = spi.irq_noted
         /\ spi'.spi_send_end = spi.spi_send_end /\ spi'.reset_n = spi.reset_n
BY DEF SpiShape, SpiRegisters, LoadByte

(* LoadedLen.                                                               *)
LEMMA LoadedLenSets ==
  ASSUME SpiShape, LoadedLen
  PROVE  /\ SpiShape'
         /\ spi.state = 25
         /\ spi'.state = 16 /\ spi'.byte = spi.byte
         /\ spi'.Byte_flag = spi.Byte_flag /\ spi'.Len = spi.Len
         /\ spi'.Count = spi.Count /\ spi'.Data_to_sram = spi.Data_to_sram
         /\ spi'.write_line = spi.write_line
         /\ spi'.config_done = spi.config_done /\ spi'.cmd_done = spi.cmd_done
         /\ spi'.slave_data_to_spi = spi.slave_data_to_spi
         /\ spi'.slave_write = FALSE /\ spi'.irq_noted = spi.irq_noted
         /\ spi'.spi_send_end = spi.spi_send_end /\ spi'.reset_n = spi.reset_n
BY DEF SpiShape, SpiRegisters, LoadedLen

(* LoadedByteMore.                                                          *)
LEMMA LoadedByteMoreSets ==
  ASSUME SpiShape, NEW q, LoadedByte(q), (spi.Count + 1) % 256 < q.packet_len
  PROVE  /\ SpiShape'
         /\ spi'.state = (IF spi.state = 21 THEN 22 ELSE 18)
         /\ spi'.byte = spi.byte /\ spi'.Byte_flag = spi.Byte_flag
         /\ spi'.Len = spi.Len /\ spi'.Count = (spi.Count + 1) % 256
         /\ spi'.Data_to_sram = spi.Data_to_sram
         /\ spi'.write_line = spi.write_line
         /\ spi'.config_done = spi.config_done /\ spi'.cmd_done = spi.cmd_done
         /\ spi'.slave_data_to_spi = spi.slave_data_to_spi
         /\ spi'.slave_write = FALSE /\ spi'.irq_noted = spi.irq_noted
         /\ spi'.spi_send_end = spi.spi_send_end /\ spi'.reset_n = spi.reset_n
<1>1. spi' = [spi EXCEPT !.slave_write = FALSE, !.Count = (@ + 1) % 256,
          !.state = IF @ = 21 THEN 22 ELSE 18]
  BY DEF LoadedByte
<1>2. QED
  BY <1>1 DEF SpiShape, SpiRegisters

(* LoadedByteLast.                                                          *)
LEMMA LoadedByteLastSets ==
  ASSUME SpiShape, NEW q, LoadedByte(q), ~((spi.Count + 1) % 256 < q.packet_len)
  PROVE  /\ SpiShape'
         /\ spi'.state = 0 /\ spi'.byte = spi.byte
         /\ spi'.Byte_flag = spi.Byte_flag /\ spi'.Len = spi.Len
         /\ spi'.Count = (spi.Count + 1) % 256
         /\ spi'.Data_to_sram = spi.Data_to_sram
         /\ spi'.write_line = spi.write_line
         /\ spi'.config_done = spi.config_done /\ spi'.cmd_done = spi.cmd_done
         /\ spi'.slave_data_to_spi = spi.slave_data_to_spi
         /\ spi'.slave_write = FALSE /\ spi'.irq_noted = FALSE
         /\ spi'.spi_send_end = TRUE /\ spi'.reset_n = spi.reset_n
<1>1. spi' = [spi EXCEPT !.slave_write = FALSE, !.Count = (@ + 1) % 256,
          !.irq_noted = FALSE, !.spi_send_end = TRUE, !.state = 0]
  BY DEF LoadedByte
<1>2. QED
  BY <1>1 DEF SpiShape, SpiRegisters

-----------------------------------------------------------------------------
(* Bytes, words and the driver.                                             *)

(* The two halves of a word.                                                *)
Pair == Byte \X Byte

(* Zero and the codes of the messages are bytes.                            *)
LEMMA ZeroByte == 0 \in Byte /\ \A b \in Byte : b \in Nat
BY ByteAssumption

LEMMA CodesAreBytes ==
  /\ 17 \in Byte /\ 18 \in Byte /\ 102 \in Byte /\ 119 \in Byte /\ 45 \in Byte
  /\ 212 \in Byte
BY ByteAssumption

(* The bytes of a length.                                                   *)
Hi(n) == n \div 256
Lo(n) == n % 256

(* A byte is a number below 256; a length is put together from two.         *)
LEMMA ByteFacts == \A b : b \in Byte <=> b \in Nat /\ b <= 255
BY ByteAssumption

LEMMA DivFacts ==
  ASSUME NEW n \in Nat
  PROVE  /\ Hi(n) \in Nat /\ Lo(n) \in Byte /\ n = 256 * Hi(n) + Lo(n)
         /\ n \in Byte => Hi(n) = 0
<1>1. /\ n \div 256 \in Nat /\ n % 256 \in Nat /\ n % 256 <= 255
      /\ n = 256 * (n \div 256) + (n % 256)
      /\ n <= 255 => n \div 256 = 0
  OBVIOUS
<1>2. QED
  BY <1>1, ByteFacts DEF Hi, Lo

(* The variables of the driver.                                             *)
HostShape == DOMAIN host = {"msg", "out", "in", "owed", "sent", "got"}

(* The bytes it has still to shift and those it has got; a length question  *)
(* is of three bytes.                                                       *)
HostType ==
  /\ HostShape
  /\ host.out \in Seq(Byte) /\ host.in \in Seq(Byte)
  /\ host.owed = <<>> \/ \E n \in Byte : host.owed = <<n>>
  /\ host.msg = "len" => Len(host.in) + Len(host.out) = 3

(* The variables of Wireless_Ctrl at its port.                              *)
RadioShape == DOMAIN radio = {"rx", "start", "rollback", "received", "todo", "stored",
                "read", "write", "data", "air", "good", "fetched", "packets"}

(* A write is of a word there is.                                           *)
RadioType ==
  /\ RadioShape
  /\ radio.data \in Pair /\ radio.todo \in Seq(Pair)
  /\ radio.start \in BOOLEAN /\ radio.rollback \in BOOLEAN /\ radio.received \in BOOLEAN
  /\ radio.read \in BOOLEAN /\ radio.write \in BOOLEAN
  /\ radio.write => radio.todo # <<>>

(* What the driver does keeps the types: shifting a byte,                   *)
LEMMA ShiftType ==
  ASSUME HostType, NEW miso \in Byte, ShiftByte(miso)
  PROVE  HostType'
<1>1. /\ host.out # <<>> /\ host' = [host EXCEPT !.out = Tail(@), !.in = Append(@, miso)]
  BY DEF ShiftByte
<1>2. /\ HostShape' /\ host'.out = Tail(host.out) /\ host'.in = Append(host.in, miso)
      /\ host'.owed = host.owed /\ host'.msg = host.msg
  BY <1>1 DEF HostType, HostShape
<1>3. /\ Tail(host.out) \in Seq(Byte) /\ Append(host.in, miso) \in Seq(Byte)
  BY <1>1 DEF HostType
<1>4. /\ Len(Tail(host.out)) = Len(host.out) - 1
      /\ Len(Append(host.in, miso)) = Len(host.in) + 1
      /\ Len(host.out) \in Nat /\ Len(host.in) \in Nat
  BY <1>1 DEF HostType
<1>5. Len(host'.in) + Len(host'.out) = Len(host.in) + Len(host.out)
  <2>1. Len(host'.in) = Len(host.in) + 1 /\ Len(host'.out) = Len(host.out) - 1
    BY <1>2, <1>4
  <2>2. Len(host.out) \in Nat /\ Len(host.in) \in Nat
    BY <1>4
  <2> DEFINE i == Len(host.in)  o == Len(host.out)
  <2> HIDE DEF i, o
  <2>3. i \in Nat /\ o \in Nat => (i + 1) + (o - 1) = i + o
    OBVIOUS
  <2>4. QED
    BY <2>1, <2>2, <2>3 DEF i, o
<1>6. host'.owed = <<>> \/ \E n \in Byte : host'.owed = <<n>>
  BY <1>2 DEF HostType
<1>7. host'.out \in Seq(Byte) /\ host'.in \in Seq(Byte)
  BY <1>2, <1>3
<1>8. host'.msg = "len" => Len(host'.in) + Len(host'.out) = 3
  BY <1>2, <1>5 DEF HostType
<1>9. QED
  BY <1>2, <1>6, <1>7, <1>8 DEF HostType

(* the beginning of a message,                                              *)
LEMMA BeginSets ==
  ASSUME HostShape, NEW m, NEW bytes
  PROVE  LET b == Begin(m, bytes) IN
         /\ DOMAIN b = DOMAIN host /\ b.msg = m /\ b.out = bytes /\ b.in = <<>>
         /\ b.owed = host.owed /\ b.sent = host.sent /\ b.got = host.got
BY DEF HostShape, Begin

(* one that is recorded as sent,                                            *)
LEMMA SendType ==
  ASSUME HostType, NEW m, NEW head \in Seq(Byte), NEW body \in Seq(Byte), m # "len",
         SendMessage(m, head, body)
  PROVE  HostType'
<1> DEFINE bytes == head \o body
           b == Begin(m, bytes)
<1>1. host' = [b EXCEPT !.sent = Append(@, [msg |-> m, body |-> body])]
  BY DEF SendMessage
<1>4. bytes \in Seq(Byte) /\ <<>> \in Seq(Byte)
  OBVIOUS
<1> HIDE DEF bytes
<1>2. DOMAIN b = DOMAIN host /\ b.msg = m /\ b.out = bytes /\ b.in = <<>>
        /\ b.owed = host.owed
  BY BeginSets DEF HostType
<1> HIDE DEF b
<1>3. HostShape' /\ host'.msg = m /\ host'.out = bytes /\ host'.in = <<>>
        /\ host'.owed = host.owed
  BY <1>1, <1>2 DEF HostType, HostShape
<1>5. QED
  BY <1>3, <1>4 DEF HostType

(* any message of its own,                                                  *)
LEMMA BeginsType ==
  ASSUME HostType, DriverBegins(cpu_irq_full)
  PROVE  HostType'
<1>1. CASE SendFrame(cpu_irq_full)
  <2>1. PICK f \in Frames : SendMessage("frame", <<102, Len(f)>>, f)
    BY <1>1 DEF SendFrame
  <2>2. f \in Seq(Byte) /\ Len(f) \in Byte /\ 102 \in Byte
    BY MessageAssumption, CodesAreBytes
  <2>3. <<102, Len(f)>> \in Seq(Byte)
    BY <2>2
  <2>4. QED
    BY <2>1, <2>2, <2>3, SendType
<1>2. CASE SendCommand
  <2>1. PICK f \in Commands : SendMessage("cmd", <<18, Len(f)>>, f)
    BY <1>2 DEF SendCommand
  <2>2. f \in Seq(Byte) /\ Len(f) \in Byte /\ 18 \in Byte
    BY MessageAssumption, CodesAreBytes
  <2>3. <<18, Len(f)>> \in Seq(Byte)
    BY <2>2
  <2>4. QED
    BY <2>1, <2>2, <2>3, SendType
<1>3. CASE SendConfig
  <2>1. PICK c \in Configs :
          SendMessage("config", <<17, Len(c) \div 256, Len(c) % 256>>, c)
    BY <1>3 DEF SendConfig
  <2>2. c \in Seq(Byte) /\ Len(c) \div 256 \in Byte /\ 17 \in Byte
    BY MessageAssumption, CodesAreBytes
  <2>3. Len(c) % 256 \in Byte
    <3>1. Len(c) \in Nat
      BY <2>2
    <3>2. QED
      BY <3>1, DivFacts DEF Lo
  <2> DEFINE h == Len(c) \div 256  l == Len(c) % 256
  <2>4. h \in Byte /\ l \in Byte
    BY <2>2, <2>3
  <2>5. <<17, h, l>> \in Seq(Byte)
    <3> HIDE DEF h, l
    <3>1. QED
      BY <2>2, <2>4
  <2>6. QED
    <3>1. SendMessage("config", <<17, h, l>>, c)
      BY <2>1
    <3> HIDE DEF h, l
    <3>2. QED
      BY <2>2, <2>5, <3>1, SendType
<1>4. QED
  BY <1>1, <1>2, <1>3 DEF DriverBegins

(* the two of a reception and the end of each message.                      *)
LEMMA ReactsType ==
  ASSUME HostType, DriverReacts
  PROVE  HostType'
<1>1. CASE AskLen
  <2>1. host' = Begin("len", <<119, 0, 0>>)
    BY <1>1 DEF AskLen
  <2>2. <<119, 0, 0>> \in Seq(Byte) /\ Len(<<119, 0, 0>>) = 3 /\ <<>> \in Seq(Byte)
          /\ Len(<<>>) = 0
    BY CodesAreBytes, ZeroByte
  <2>3. DOMAIN host' = DOMAIN host /\ host'.msg = "len" /\ host'.out = <<119, 0, 0>>
        /\ host'.in = <<>> /\ host'.owed = host.owed
    BY <2>1, BeginSets DEF HostType
  <2>4. QED
    BY <2>2, <2>3 DEF HostType, HostShape
<1>2. CASE EndLen
  <2> DEFINE b == Begin("none", <<>>)
  <2>1. host.msg = "len" /\ host.out = <<>> /\ host' = [b EXCEPT !.owed = <<host.in[3]>>]
    BY <1>2 DEF EndLen, Done
  <2>2. DOMAIN b = DOMAIN host /\ b.msg = "none" /\ b.out = <<>> /\ b.in = <<>>
    BY BeginSets DEF HostType
  <2> HIDE DEF b
  <2>3. HostShape' /\ host'.msg = "none" /\ host'.out = <<>> /\ host'.in = <<>>
        /\ host'.owed = <<host.in[3]>>
    BY <2>1, <2>2 DEF HostType, HostShape
  <2>4. Len(host.in) = 3
    BY <2>1 DEF HostType
  <2>5. host.in[3] \in Byte
    BY <2>4 DEF HostType
  <2>6. <<>> \in Seq(Byte)
    OBVIOUS
  <2>7. QED
    BY <2>3, <2>5, <2>6 DEF HostType
<1>3. CASE AskPacket
  <2> DEFINE zeros == [k \in 1 .. host.owed[1] |-> 0]
  <2>1. host' = Begin("packet", zeros) /\ host.owed # <<>>
    BY <1>3 DEF AskPacket, NothingOwed
  <2>2. PICK n \in Byte : host.owed = <<n>>
    BY <2>1 DEF HostType
  <2>3. n \in Nat /\ zeros = [k \in 1 .. n |-> 0]
    BY <2>2, ZeroByte
  <2>4. zeros \in Seq(Byte) /\ <<>> \in Seq(Byte)
    <3>1. zeros \in [1 .. n -> Byte]
      BY <2>3, ZeroByte
    <3> HIDE DEF zeros
    <3>2. QED
      BY <2>3, <3>1
  <2> HIDE DEF zeros
  <2>5. DOMAIN host' = DOMAIN host /\ host'.msg = "packet" /\ host'.out = zeros
        /\ host'.in = <<>> /\ host'.owed = host.owed
    BY <2>1, BeginSets DEF HostType
  <2>6. QED
    BY <2>4, <2>5 DEF HostType, HostShape
<1>4. CASE HandPacketOver
  <2> DEFINE b == Begin("none", <<>>)
  <2>1. PICK g : host' = [b EXCEPT !.owed = <<>>, !.got = g]
    BY <1>4, BeginSets DEF HandPacketOver, HostType
  <2>2. DOMAIN b = DOMAIN host /\ b.msg = "none" /\ b.out = <<>> /\ b.in = <<>>
    BY BeginSets DEF HostType
  <2> HIDE DEF b
  <2>3. HostShape' /\ host'.msg = "none" /\ host'.out = <<>> /\ host'.in = <<>>
        /\ host'.owed = <<>>
    BY <2>1, <2>2 DEF HostType, HostShape
  <2>4. <<>> \in Seq(Byte)
    OBVIOUS
  <2>5. QED
    BY <2>3, <2>4 DEF HostType
<1>5. CASE EndSent
  <2>1. host' = Begin("none", <<>>)
    BY <1>5 DEF EndSent
  <2>2. DOMAIN host' = DOMAIN host /\ host'.msg = "none" /\ host'.out = <<>>
        /\ host'.in = <<>> /\ host'.owed = host.owed
    BY <2>1, BeginSets DEF HostType
  <2>3. <<>> \in Seq(Byte)
    OBVIOUS
  <2>4. QED
    BY <2>2, <2>3 DEF HostType, HostShape
<1>6. QED
  BY <1>1, <1>2, <1>3, <1>4, <1>5 DEF DriverReacts

-----------------------------------------------------------------------------
(* The actions of the Spi machine keep the types.                           *)

(* The tables of the Spi machine, written out.                              *)
LEMMA AfterByteIs ==
  /\ DOMAIN AfterByte = {0, 4, 11, 30, 34, 45, 48}
  /\ AfterByte[0] = 3 /\ AfterByte[4] = 6 /\ AfterByte[11] = 13 /\ AfterByte[30] = 31
  /\ AfterByte[34] = 35 /\ AfterByte[45] = 46 /\ AfterByte[48] = 49
BY DEF AfterByte

LEMMA AfterWordIs ==
  /\ DOMAIN AfterWord = {13, 35, 49}
  /\ AfterWord[13] = 14 /\ AfterWord[35] = 36 /\ AfterWord[49] = 50
  /\ NextByte[13] = 11 /\ NextByte[35] = 34 /\ NextByte[49] = 48
BY DEF AfterWord, NextByte

(* The registers of the Spi machine have their widths.                      *)
SpiPlain ==
  /\ spi.byte \in Byte /\ spi.Len \in Nat /\ spi.Count \in Nat /\ spi.state \in Nat
  /\ spi.write_line \in {0, 1, 5, 9}
  /\ spi.slave_data_to_spi \in Byte
SpiFlags == spi.Byte_flag \in BOOLEAN /\ spi.slave_write \in BOOLEAN

(* Where a length is about to be stored as a word, it is one.               *)
LenFits ==
  /\ spi.state \in {7, 8, 9, 10, 46} => spi.Len \in Byte
  /\ spi.state \in {30, 31} /\ spi.Byte_flag => \E h \in Byte : spi.Len = 256 * h
  /\ spi.state = 32 => Hi(spi.Len) \in Byte

SpiType == SpiShape /\ SpiPlain /\ SpiFlags /\ LenFits /\ spi.Data_to_sram \in Pair

(* A word is two bytes.                                                     *)
LEMMA HiLo ==
  ASSUME NEW h \in Nat, NEW l \in Nat, l <= 255
  PROVE  Hi(256 * h + l) = h /\ Lo(256 * h + l) = l
BY DEF Hi, Lo

(* A byte put into one half of a word.                                      *)
LEMMA PairPut ==
  ASSUME NEW w \in Pair, NEW b \in Byte
  PROVE  [w EXCEPT ![1] = b] \in Pair /\ [w EXCEPT ![2] = b] \in Pair
BY DEF Pair

(* Where the Spi machine goes when a word is stored.                        *)
LEMMA AfterHintIs ==
  ASSUME spi.state \in {8, 10, 15, 33, 37, 47, 51}
  PROVE  AfterHint \in {9, 11, 0, 34, 38, 48, 52}
<1>1. CASE spi.state = 8
  BY <1>1 DEF AfterHint
<1>2. CASE spi.state = 10
  BY <1>2 DEF AfterHint
<1>3. CASE spi.state = 15
  BY <1>3 DEF AfterHint
<1>4. CASE spi.state = 33
  BY <1>4 DEF AfterHint
<1>5. CASE spi.state = 37
  BY <1>5 DEF AfterHint
<1>6. CASE spi.state = 47
  BY <1>6 DEF AfterHint
<1>7. CASE spi.state = 51
  BY <1>7 DEF AfterHint
<1>8. QED
  BY <1>1, <1>2, <1>3, <1>4, <1>5, <1>6, <1>7

(* TakeByte.                                                                *)
LEMMA TakeByteType ==
  ASSUME SpiType, NEW b \in Byte, NEW done, TakeByte(done, b)
  PROVE  SpiType'
<1>1. SpiShape
  BY DEF SpiType
<1>2. /\ spi'.state \in Nat /\ spi'.state \notin {7, 8, 9, 10, 32}
      /\ spi'.state \in {30, 31} => spi.state = 30
      /\ spi'.state = 46 => spi'.Len = b
  BY <1>1, TakeByteSets, AfterByteIs, AfterWordIs DEF SpiType, SpiPlain
<1>3. SpiPlain'
  BY <1>1, <1>2, TakeByteSets, ZeroByte DEF SpiType, SpiPlain, NoWrite, TxWrite, CfgWrite,
     SingleWrite
<1>4. SpiFlags'
  BY <1>1, TakeByteSets DEF SpiType, SpiFlags
<1>5. spi'.Data_to_sram \in Pair
  BY <1>1, TakeByteSets DEF SpiType
<1>6. LenFits'
  BY <1>1, <1>2, TakeByteSets DEF SpiType, LenFits, SpiPlain, ConfigCmd
<1>7. SpiShape'
  BY <1>1, TakeByteSets
<1>8. QED
  BY <1>3, <1>4, <1>5, <1>6, <1>7 DEF SpiType

(* BeginWrite.                                                              *)
LEMMA BeginWriteType ==
  ASSUME SpiType, BeginWrite
  PROVE  SpiType'
<1>1. SpiShape
  BY DEF SpiType
<1>2. spi'.state \in {30, 45}
  BY <1>1, BeginWriteSets, AfterByteIs, AfterWordIs DEF SpiType, SpiPlain
<1>3. SpiPlain'
  BY <1>1, <1>2, BeginWriteSets, ZeroByte DEF SpiType, SpiPlain, NoWrite, TxWrite,
     CfgWrite, SingleWrite
<1>4. SpiFlags'
  BY <1>1, BeginWriteSets DEF SpiType, SpiFlags
<1>5. spi'.Data_to_sram \in Pair
  BY <1>1, BeginWriteSets DEF SpiType
<1>6. LenFits'
  <2>1. ~spi'.Byte_flag
    BY <1>1, BeginWriteSets
  <2>2. QED
    BY <1>2, <2>1 DEF LenFits
<1>7. SpiShape'
  BY <1>1, BeginWriteSets
<1>8. QED
  BY <1>3, <1>4, <1>5, <1>6, <1>7 DEF SpiType

(* BeginSend.                                                               *)
LEMMA BeginSendType ==
  ASSUME SpiType, BeginSend
  PROVE  SpiType'
<1>1. SpiShape
  BY DEF SpiType
<1>2. spi'.state = 4
  BY <1>1, BeginSendSets, AfterByteIs, AfterWordIs DEF SpiType, SpiPlain
<1>3. SpiPlain'
  BY <1>1, <1>2, BeginSendSets, ZeroByte DEF SpiType, SpiPlain, NoWrite, TxWrite, CfgWrite,
     SingleWrite
<1>4. SpiFlags'
  BY <1>1, BeginSendSets DEF SpiType, SpiFlags
<1>5. spi'.Data_to_sram \in Pair
  BY <1>1, BeginSendSets, PairPut, CodesAreBytes DEF SpiType, SpiPlain, LenFits, Sync
<1>6. LenFits'
  BY <1>1, <1>2, BeginSendSets DEF SpiType, LenFits, SpiPlain, ConfigCmd
<1>7. SpiShape'
  BY <1>1, BeginSendSets
<1>8. QED
  BY <1>3, <1>4, <1>5, <1>6, <1>7 DEF SpiType

(* BeginRecv.                                                               *)
LEMMA BeginRecvType ==
  ASSUME SpiType, BeginRecv
  PROVE  SpiType'
<1>1. SpiShape
  BY DEF SpiType
<1>2. spi'.state = 24
  BY <1>1, BeginRecvSets, AfterByteIs, AfterWordIs DEF SpiType, SpiPlain
<1>3. SpiPlain'
  BY <1>1, <1>2, BeginRecvSets, ZeroByte DEF SpiType, SpiPlain, NoWrite, TxWrite, CfgWrite,
     SingleWrite
<1>4. SpiFlags'
  BY <1>1, BeginRecvSets DEF SpiType, SpiFlags
<1>5. spi'.Data_to_sram \in Pair
  BY <1>1, BeginRecvSets DEF SpiType
<1>6. LenFits'
  BY <1>1, <1>2, BeginRecvSets DEF SpiType, LenFits, SpiPlain, ConfigCmd
<1>7. SpiShape'
  BY <1>1, BeginRecvSets
<1>8. QED
  BY <1>3, <1>4, <1>5, <1>6, <1>7 DEF SpiType

(* IgnoreByte.                                                              *)
LEMMA IgnoreByteType ==
  ASSUME SpiType, IgnoreByte
  PROVE  SpiType'
<1>1. SpiShape
  BY DEF SpiType
<1>2. spi'.state = 0
  BY <1>1, IgnoreByteSets, AfterByteIs, AfterWordIs DEF SpiType, SpiPlain
<1>3. SpiPlain'
  BY <1>1, <1>2, IgnoreByteSets, ZeroByte DEF SpiType, SpiPlain, NoWrite, TxWrite,
     CfgWrite, SingleWrite
<1>4. SpiFlags'
  BY <1>1, IgnoreByteSets DEF SpiType, SpiFlags
<1>5. spi'.Data_to_sram \in Pair
  BY <1>1, IgnoreByteSets DEF SpiType
<1>6. LenFits'
  BY <1>1, <1>2, IgnoreByteSets DEF SpiType, LenFits, SpiPlain, ConfigCmd
<1>7. SpiShape'
  BY <1>1, IgnoreByteSets
<1>8. QED
  BY <1>3, <1>4, <1>5, <1>6, <1>7 DEF SpiType

(* TakeLenHigh.                                                             *)
LEMMA TakeLenHighType ==
  ASSUME SpiType, TakeLen, spi.state = 31 /\ ~spi.Byte_flag
  PROVE  SpiType'
<1>1. SpiShape
  BY DEF SpiType
<1>0. spi.byte \in Nat /\ 256 * spi.byte \in Nat
  BY ZeroByte DEF SpiType, SpiPlain
<1>2. spi'.state = 30
  BY <1>1, <1>0, TakeLenHighSets, AfterByteIs, AfterWordIs DEF SpiType, SpiPlain
<1>3. SpiPlain'
  <2>1. spi'.byte = spi.byte /\ spi'.write_line = spi.write_line
          /\ spi'.Count = spi.Count /\ spi'.Len = 256 * spi.byte
          /\ spi'.slave_data_to_spi = spi.slave_data_to_spi
    BY <1>1, TakeLenHighSets
  <2>2. QED
    BY <1>0, <1>2, <2>1, ZeroByte DEF SpiType, SpiPlain
<1>4. SpiFlags'
  BY <1>1, TakeLenHighSets DEF SpiType, SpiFlags
<1>5. spi'.Data_to_sram \in Pair
  BY <1>1, TakeLenHighSets DEF SpiType
<1>6. LenFits'
  <2>1. spi'.Len = 256 * spi.byte /\ spi.byte \in Byte
    BY <1>1, TakeLenHighSets DEF SpiType, SpiPlain
  <2>2. QED
    BY <1>2, <2>1 DEF LenFits
<1>7. SpiShape'
  BY <1>1, TakeLenHighSets
<1>8. QED
  BY <1>3, <1>4, <1>5, <1>6, <1>7 DEF SpiType

(* TakeLenLow.                                                              *)
LEMMA TakeLenLowType ==
  ASSUME SpiType, TakeLen, spi.state = 31 /\ spi.Byte_flag
  PROVE  SpiType'
<1>1. SpiShape
  BY DEF SpiType
<1>2. spi'.state = 32
  BY <1>1, TakeLenLowSets, AfterByteIs, AfterWordIs DEF SpiType, SpiPlain
<1>3. SpiPlain'
  BY <1>1, <1>2, TakeLenLowSets, ZeroByte DEF SpiType, SpiPlain, NoWrite, TxWrite,
     CfgWrite, SingleWrite
<1>4. SpiFlags'
  BY <1>1, TakeLenLowSets DEF SpiType, SpiFlags
<1>5. spi'.Data_to_sram \in Pair
  BY <1>1, TakeLenLowSets DEF SpiType
<1>6. LenFits'
  <2>1. PICK h \in Byte : spi.Len = 256 * h
    BY DEF SpiType, LenFits
  <2>2. spi'.Len = 256 * h + spi.byte /\ spi.byte \in Nat /\ spi.byte <= 255 /\ h \in Nat
    BY <1>1, <2>1, TakeLenLowSets, ByteFacts DEF SpiType, SpiPlain
  <2>3. Hi(spi'.Len) = h
    BY <2>2, HiLo
  <2>4. QED
    BY <1>2, <2>3 DEF LenFits
<1>7. SpiShape'
  BY <1>1, TakeLenLowSets
<1>8. QED
  BY <1>3, <1>4, <1>5, <1>6, <1>7 DEF SpiType

(* TakeLenFrame.                                                            *)
LEMMA TakeLenFrameType ==
  ASSUME SpiType, TakeLen, spi.state = 6
  PROVE  SpiType'
<1>1. SpiShape
  BY DEF SpiType
<1>2. spi'.state = 7
  BY <1>1, TakeLenFrameSets, AfterByteIs, AfterWordIs DEF SpiType, SpiPlain
<1>3. SpiPlain'
  BY <1>1, <1>2, TakeLenFrameSets, ZeroByte DEF SpiType, SpiPlain, NoWrite, TxWrite,
     CfgWrite, SingleWrite
<1>4. SpiFlags'
  BY <1>1, TakeLenFrameSets DEF SpiType, SpiFlags
<1>5. spi'.Data_to_sram \in Pair
  <2>1. Sync[2] \in Byte
    BY CodesAreBytes DEF Sync
  <2>2. QED
    BY <1>1, <2>1, TakeLenFrameSets, PairPut DEF SpiType
<1>6. LenFits'
  BY <1>1, <1>2, TakeLenFrameSets DEF SpiType, LenFits, SpiPlain, ConfigCmd
<1>7. SpiShape'
  BY <1>1, TakeLenFrameSets
<1>8. QED
  BY <1>3, <1>4, <1>5, <1>6, <1>7 DEF SpiType

(* FirstHalfLast.                                                           *)
LEMMA FirstHalfLastType ==
  ASSUME SpiType, FirstHalf, spi.Count + 1 >= spi.Len
  PROVE  SpiType'
<1>1. SpiShape
  BY DEF SpiType
<1>2. spi'.state \in {14, 36, 50}
  BY <1>1, FirstHalfLastSets, AfterByteIs, AfterWordIs DEF SpiType, SpiPlain
<1>3. SpiPlain'
  BY <1>1, <1>2, FirstHalfLastSets, ZeroByte DEF SpiType, SpiPlain, NoWrite, TxWrite,
     CfgWrite, SingleWrite
<1>4. SpiFlags'
  BY <1>1, FirstHalfLastSets DEF SpiType, SpiFlags
<1>5. spi'.Data_to_sram \in Pair
  BY <1>1, FirstHalfLastSets, ZeroByte DEF SpiType, SpiPlain, Pair
<1>6. LenFits'
  BY <1>1, <1>2, FirstHalfLastSets DEF SpiType, LenFits, SpiPlain, ConfigCmd
<1>7. SpiShape'
  BY <1>1, FirstHalfLastSets
<1>8. QED
  BY <1>3, <1>4, <1>5, <1>6, <1>7 DEF SpiType

(* FirstHalfMore.                                                           *)
LEMMA FirstHalfMoreType ==
  ASSUME SpiType, FirstHalf, ~(spi.Count + 1 >= spi.Len)
  PROVE  SpiType'
<1>1. SpiShape
  BY DEF SpiType
<1>2. spi'.state \in {11, 34, 48}
  BY <1>1, FirstHalfMoreSets, AfterByteIs, AfterWordIs DEF SpiType, SpiPlain
<1>3. SpiPlain'
  BY <1>1, <1>2, FirstHalfMoreSets, ZeroByte DEF SpiType, SpiPlain, NoWrite, TxWrite,
     CfgWrite, SingleWrite
<1>4. SpiFlags'
  BY <1>1, FirstHalfMoreSets DEF SpiType, SpiFlags
<1>5. spi'.Data_to_sram \in Pair
  BY <1>1, FirstHalfMoreSets, PairPut, ZeroByte DEF SpiType, SpiPlain, LenFits, Sync
<1>6. LenFits'
  BY <1>1, <1>2, FirstHalfMoreSets DEF SpiType, LenFits, SpiPlain, ConfigCmd
<1>7. SpiShape'
  BY <1>1, FirstHalfMoreSets
<1>8. QED
  BY <1>3, <1>4, <1>5, <1>6, <1>7 DEF SpiType

(* SecondHalf.                                                              *)
LEMMA SecondHalfType ==
  ASSUME SpiType, SecondHalf
  PROVE  SpiType'
<1>1. SpiShape
  BY DEF SpiType
<1>2. spi'.state \in {14, 36, 50}
  BY <1>1, SecondHalfSets, AfterByteIs, AfterWordIs DEF SpiType, SpiPlain
<1>3. SpiPlain'
  BY <1>1, <1>2, SecondHalfSets, ZeroByte DEF SpiType, SpiPlain, NoWrite, TxWrite,
     CfgWrite, SingleWrite
<1>4. SpiFlags'
  BY <1>1, SecondHalfSets DEF SpiType, SpiFlags
<1>5. spi'.Data_to_sram \in Pair
  BY <1>1, SecondHalfSets, PairPut, ZeroByte DEF SpiType, SpiPlain, LenFits, Sync
<1>6. LenFits'
  BY <1>1, <1>2, SecondHalfSets DEF SpiType, LenFits, SpiPlain, ConfigCmd
<1>7. SpiShape'
  BY <1>1, SecondHalfSets
<1>8. QED
  BY <1>3, <1>4, <1>5, <1>6, <1>7 DEF SpiType

(* RaiseSendLength.                                                         *)
LEMMA RaiseSendLengthType ==
  ASSUME SpiType, NEW full, RaiseSend(full), spi.state = 9
  PROVE  SpiType'
<1>1. SpiShape
  BY DEF SpiType
<1>2. spi'.state = 10
  BY <1>1, RaiseSendLengthSets, AfterByteIs, AfterWordIs DEF SpiType, SpiPlain
<1>3. SpiPlain'
  BY <1>1, <1>2, RaiseSendLengthSets, ZeroByte DEF SpiType, SpiPlain, NoWrite, TxWrite,
     CfgWrite, SingleWrite
<1>4. SpiFlags'
  BY <1>1, RaiseSendLengthSets DEF SpiType, SpiFlags
<1>5. spi'.Data_to_sram \in Pair
  <2>1. Hi(spi.Len + 1) \in Byte /\ Lo(spi.Len + 1) \in Byte
    <3>1. spi.Len \in Nat /\ spi.Len <= 255
      BY ByteFacts DEF SpiType, LenFits
    <3>2. spi.Len + 1 \in Nat /\ Hi(spi.Len + 1) \in {0, 1}
      BY <3>1 DEF Hi
    <3>3. 0 \in Byte /\ 1 \in Byte
      BY ByteFacts
    <3>4. QED
      BY <3>2, <3>3, DivFacts
  <2>2. spi'.Data_to_sram = <<Hi(spi.Len + 1), Lo(spi.Len + 1)>>
    BY <1>1, RaiseSendLengthSets DEF Hi, Lo
  <2>3. QED
    BY <2>1, <2>2 DEF Pair
<1>6. LenFits'
  BY <1>1, <1>2, RaiseSendLengthSets DEF SpiType, LenFits, SpiPlain, ConfigCmd
<1>7. SpiShape'
  BY <1>1, RaiseSendLengthSets
<1>8. QED
  BY <1>3, <1>4, <1>5, <1>6, <1>7 DEF SpiType

(* RaiseSendWord.                                                           *)
LEMMA RaiseSendWordType ==
  ASSUME SpiType, NEW full, RaiseSend(full), spi.state # 9
  PROVE  SpiType'
<1>1. SpiShape
  BY DEF SpiType
<1>0. spi.state \in {7, 14}
  BY DEF RaiseSend
<1>2. spi'.state \in {8, 15} /\ (spi'.state = 8 => spi.state = 7)
  BY <1>1, <1>0, RaiseSendWordSets, AfterByteIs, AfterWordIs DEF SpiType, SpiPlain
<1>3. SpiPlain'
  BY <1>1, <1>2, RaiseSendWordSets, ZeroByte DEF SpiType, SpiPlain, NoWrite, TxWrite,
     CfgWrite, SingleWrite
<1>4. SpiFlags'
  BY <1>1, RaiseSendWordSets DEF SpiType, SpiFlags
<1>5. spi'.Data_to_sram \in Pair
  BY <1>1, RaiseSendWordSets DEF SpiType
<1>6. LenFits'
  BY <1>1, <1>2, RaiseSendWordSets DEF SpiType, LenFits, SpiPlain, ConfigCmd
<1>7. SpiShape'
  BY <1>1, RaiseSendWordSets
<1>8. QED
  BY <1>3, <1>4, <1>5, <1>6, <1>7 DEF SpiType

(* RaiseStoreCfgLen.                                                        *)
LEMMA RaiseStoreCfgLenType ==
  ASSUME SpiType, RaiseStore, spi.state = 32
  PROVE  SpiType'
<1>1. SpiShape
  BY DEF SpiType
<1>2. spi'.state = 33
  BY <1>1, RaiseStoreCfgLenSets, AfterByteIs, AfterWordIs DEF SpiType, SpiPlain
<1>3. SpiPlain'
  BY <1>1, <1>2, RaiseStoreCfgLenSets, ZeroByte DEF SpiType, SpiPlain, NoWrite, TxWrite,
     CfgWrite, SingleWrite
<1>4. SpiFlags'
  BY <1>1, RaiseStoreCfgLenSets DEF SpiType, SpiFlags
<1>5. spi'.Data_to_sram \in Pair
  <2>1. Hi(spi.Len) \in Byte /\ Lo(spi.Len) \in Byte
    BY DivFacts DEF SpiType, SpiPlain, LenFits
  <2>2. spi'.Data_to_sram = <<Hi(spi.Len), Lo(spi.Len)>>
    BY <1>1, RaiseStoreCfgLenSets DEF Hi, Lo
  <2>3. QED
    BY <2>1, <2>2 DEF Pair
<1>6. LenFits'
  BY <1>1, <1>2, RaiseStoreCfgLenSets DEF SpiType, LenFits, SpiPlain, ConfigCmd
<1>7. SpiShape'
  BY <1>1, RaiseStoreCfgLenSets
<1>8. QED
  BY <1>3, <1>4, <1>5, <1>6, <1>7 DEF SpiType

(* RaiseStoreCmdLen.                                                        *)
LEMMA RaiseStoreCmdLenType ==
  ASSUME SpiType, RaiseStore, spi.state = 46
  PROVE  SpiType'
<1>1. SpiShape
  BY DEF SpiType
<1>2. spi'.state = 47
  BY <1>1, RaiseStoreCmdLenSets, AfterByteIs, AfterWordIs DEF SpiType, SpiPlain
<1>3. SpiPlain'
  BY <1>1, <1>2, RaiseStoreCmdLenSets, ZeroByte DEF SpiType, SpiPlain, NoWrite, TxWrite,
     CfgWrite, SingleWrite
<1>4. SpiFlags'
  BY <1>1, RaiseStoreCmdLenSets DEF SpiType, SpiFlags
<1>5. spi'.Data_to_sram \in Pair
  BY <1>1, RaiseStoreCmdLenSets, ZeroByte DEF SpiType, LenFits, Pair
<1>6. LenFits'
  BY <1>1, <1>2, RaiseStoreCmdLenSets DEF SpiType, LenFits, SpiPlain, ConfigCmd
<1>7. SpiShape'
  BY <1>1, RaiseStoreCmdLenSets
<1>8. QED
  BY <1>3, <1>4, <1>5, <1>6, <1>7 DEF SpiType

(* RaiseStoreCfg.                                                           *)
LEMMA RaiseStoreCfgType ==
  ASSUME SpiType, RaiseStore, spi.state = 36
  PROVE  SpiType'
<1>1. SpiShape
  BY DEF SpiType
<1>2. spi'.state = 37
  BY <1>1, RaiseStoreCfgSets, AfterByteIs, AfterWordIs DEF SpiType, SpiPlain
<1>3. SpiPlain'
  BY <1>1, <1>2, RaiseStoreCfgSets, ZeroByte DEF SpiType, SpiPlain, NoWrite, TxWrite,
     CfgWrite, SingleWrite
<1>4. SpiFlags'
  BY <1>1, RaiseStoreCfgSets DEF SpiType, SpiFlags
<1>5. spi'.Data_to_sram \in Pair
  BY <1>1, RaiseStoreCfgSets DEF SpiType
<1>6. LenFits'
  BY <1>1, <1>2, RaiseStoreCfgSets DEF SpiType, LenFits, SpiPlain, ConfigCmd
<1>7. SpiShape'
  BY <1>1, RaiseStoreCfgSets
<1>8. QED
  BY <1>3, <1>4, <1>5, <1>6, <1>7 DEF SpiType

(* RaiseStoreCmd.                                                           *)
LEMMA RaiseStoreCmdType ==
  ASSUME SpiType, RaiseStore, spi.state = 50
  PROVE  SpiType'
<1>1. SpiShape
  BY DEF SpiType
<1>2. spi'.state = 51
  BY <1>1, RaiseStoreCmdSets, AfterByteIs, AfterWordIs DEF SpiType, SpiPlain
<1>3. SpiPlain'
  BY <1>1, <1>2, RaiseStoreCmdSets, ZeroByte DEF SpiType, SpiPlain, NoWrite, TxWrite,
     CfgWrite, SingleWrite
<1>4. SpiFlags'
  BY <1>1, RaiseStoreCmdSets DEF SpiType, SpiFlags
<1>5. spi'.Data_to_sram \in Pair
  BY <1>1, RaiseStoreCmdSets DEF SpiType
<1>6. LenFits'
  BY <1>1, <1>2, RaiseStoreCmdSets DEF SpiType, LenFits, SpiPlain, ConfigCmd
<1>7. SpiShape'
  BY <1>1, RaiseStoreCmdSets
<1>8. QED
  BY <1>3, <1>4, <1>5, <1>6, <1>7 DEF SpiType

(* LowerLength.                                                             *)
LEMMA LowerLengthType ==
  ASSUME SpiType, NEW hint, LowerWrite(hint), spi.state = 10
  PROVE  SpiType'
<1>1. SpiShape
  BY DEF SpiType
<1>2. spi'.state = 11
  BY <1>1, LowerLengthSets, AfterByteIs, AfterWordIs DEF SpiType, SpiPlain
<1>3. SpiPlain'
  BY <1>1, <1>2, LowerLengthSets, ZeroByte DEF SpiType, SpiPlain, NoWrite, TxWrite,
     CfgWrite, SingleWrite
<1>4. SpiFlags'
  BY <1>1, LowerLengthSets DEF SpiType, SpiFlags
<1>5. spi'.Data_to_sram \in Pair
  BY <1>1, LowerLengthSets, PairPut, ZeroByte DEF SpiType, SpiPlain, LenFits, Sync
<1>6. LenFits'
  BY <1>1, <1>2, LowerLengthSets DEF SpiType, LenFits, SpiPlain, ConfigCmd
<1>7. SpiShape'
  BY <1>1, LowerLengthSets
<1>8. QED
  BY <1>3, <1>4, <1>5, <1>6, <1>7 DEF SpiType

(* LowerWord.                                                               *)
LEMMA LowerWordType ==
  ASSUME SpiType, NEW hint, LowerWrite(hint), spi.state # 10
  PROVE  SpiType'
<1>1. SpiShape
  BY DEF SpiType
<1>0. AfterHint \in {9, 11, 0, 34, 38, 48, 52} /\ (AfterHint = 9 => spi.state = 8)
  <2>1. spi.state \in {8, 15, 33, 37, 47, 51}
    BY DEF LowerWrite
  <2>2. AfterHint \in {9, 11, 0, 34, 38, 48, 52}
    BY <2>1, AfterHintIs
  <2>3. ASSUME spi.state # 8
        PROVE  AfterHint # 9
    BY <2>1, <2>3 DEF AfterHint
  <2>4. QED
    BY <2>2, <2>3
<1>2. spi'.state \in {9, 11, 0, 34, 38, 48, 52} /\ (spi'.state = 9 => spi.state = 8)
  BY <1>1, <1>0, LowerWordSets, AfterByteIs, AfterWordIs DEF SpiType, SpiPlain
<1>3. SpiPlain'
  BY <1>1, <1>2, LowerWordSets, ZeroByte DEF SpiType, SpiPlain, NoWrite, TxWrite, CfgWrite,
     SingleWrite
<1>4. SpiFlags'
  BY <1>1, LowerWordSets DEF SpiType, SpiFlags
<1>5. spi'.Data_to_sram \in Pair
  BY <1>1, LowerWordSets DEF SpiType
<1>6. LenFits'
  BY <1>1, <1>2, LowerWordSets DEF SpiType, LenFits, SpiPlain, ConfigCmd
<1>7. SpiShape'
  BY <1>1, LowerWordSets
<1>8. QED
  BY <1>3, <1>4, <1>5, <1>6, <1>7 DEF SpiType

(* EndConfig.                                                               *)
LEMMA EndConfigType ==
  ASSUME SpiType, EndConfig
  PROVE  SpiType'
<1>1. SpiShape
  BY DEF SpiType
<1>2. spi'.state \in {0, 39, 40, 41, 42}
  BY <1>1, EndConfigSets, AfterByteIs, AfterWordIs DEF SpiType, SpiPlain
<1>3. SpiPlain'
  BY <1>1, <1>2, EndConfigSets, ZeroByte DEF SpiType, SpiPlain, NoWrite, TxWrite, CfgWrite,
     SingleWrite
<1>4. SpiFlags'
  BY <1>1, EndConfigSets DEF SpiType, SpiFlags
<1>5. spi'.Data_to_sram \in Pair
  BY <1>1, EndConfigSets DEF SpiType
<1>6. LenFits'
  BY <1>1, <1>2, EndConfigSets DEF SpiType, LenFits, SpiPlain, ConfigCmd
<1>7. SpiShape'
  BY <1>1, EndConfigSets
<1>8. QED
  BY <1>3, <1>4, <1>5, <1>6, <1>7 DEF SpiType

(* EndCmd.                                                                  *)
LEMMA EndCmdType ==
  ASSUME SpiType, EndCmd
  PROVE  SpiType'
<1>1. SpiShape
  BY DEF SpiType
<1>2. spi'.state \in {0, 53}
  BY <1>1, EndCmdSets, AfterByteIs, AfterWordIs DEF SpiType, SpiPlain
<1>3. SpiPlain'
  BY <1>1, <1>2, EndCmdSets, ZeroByte DEF SpiType, SpiPlain, NoWrite, TxWrite, CfgWrite,
     SingleWrite
<1>4. SpiFlags'
  BY <1>1, EndCmdSets DEF SpiType, SpiFlags
<1>5. spi'.Data_to_sram \in Pair
  BY <1>1, EndCmdSets DEF SpiType
<1>6. LenFits'
  BY <1>1, <1>2, EndCmdSets DEF SpiType, LenFits, SpiPlain, ConfigCmd
<1>7. SpiShape'
  BY <1>1, EndCmdSets
<1>8. QED
  BY <1>3, <1>4, <1>5, <1>6, <1>7 DEF SpiType

(* LoadByte.                                                                *)
LEMMA LoadByteType ==
  ASSUME SpiType, NEW q, IrqFields(q), NEW data \in Pair, NEW trdy,
         LoadByte(q, data, trdy)
  PROVE  SpiType'
<1>1. SpiShape
  BY DEF SpiType
<1>0. q.packet_len \in Byte /\ q.word[2] \in Byte /\ data[1] \in Byte /\ data[2] \in Byte
      /\ spi.state \in {24, 16, 20, 22}
  BY DEF IrqFields, Pair, LoadByte
<1>01. spi'.slave_data_to_spi \in Byte
  <2>1. CASE spi.state = 24
    BY <1>0, <1>1, <2>1, LoadByteSets
  <2>2. CASE spi.state = 16
    BY <1>0, <1>1, <2>2, LoadByteSets
  <2>3. CASE spi.state = 20
    BY <1>0, <1>1, <2>3, LoadByteSets
  <2>4. CASE spi.state = 22
    BY <1>0, <1>1, <2>4, LoadByteSets
  <2>5. QED
    BY <1>0, <2>1, <2>2, <2>3, <2>4
<1>2. spi'.state \in {17, 21, 23, 25}
  <2>1. spi'.state = spi.state + 1
    BY <1>1, LoadByteSets
  <2>2. QED
    BY <1>0, <2>1
<1>3. SpiPlain'
  <2>1. spi'.byte = spi.byte /\ spi'.write_line = spi.write_line
          /\ spi'.Count = spi.Count /\ spi'.Len = spi.Len
    BY <1>1, LoadByteSets
  <2>2. QED
    BY <1>0, <1>01, <1>2, <2>1, ZeroByte DEF SpiType, SpiPlain
<1>4. SpiFlags'
  BY <1>1, LoadByteSets DEF SpiType, SpiFlags
<1>5. spi'.Data_to_sram \in Pair
  BY <1>1, LoadByteSets DEF SpiType
<1>6. LenFits'
  BY <1>1, <1>2, LoadByteSets DEF SpiType, LenFits, SpiPlain, ConfigCmd
<1>7. SpiShape'
  BY <1>1, LoadByteSets
<1>8. QED
  BY <1>3, <1>4, <1>5, <1>6, <1>7 DEF SpiType

(* LoadedLen.                                                               *)
LEMMA LoadedLenType ==
  ASSUME SpiType, LoadedLen
  PROVE  SpiType'
<1>1. SpiShape
  BY DEF SpiType
<1>2. spi'.state = 16
  BY <1>1, LoadedLenSets, AfterByteIs, AfterWordIs DEF SpiType, SpiPlain
<1>3. SpiPlain'
  BY <1>1, <1>2, LoadedLenSets, ZeroByte DEF SpiType, SpiPlain, NoWrite, TxWrite, CfgWrite,
     SingleWrite
<1>4. SpiFlags'
  BY <1>1, LoadedLenSets DEF SpiType, SpiFlags
<1>5. spi'.Data_to_sram \in Pair
  BY <1>1, LoadedLenSets DEF SpiType
<1>6. LenFits'
  BY <1>1, <1>2, LoadedLenSets DEF SpiType, LenFits, SpiPlain, ConfigCmd
<1>7. SpiShape'
  BY <1>1, LoadedLenSets
<1>8. QED
  BY <1>3, <1>4, <1>5, <1>6, <1>7 DEF SpiType

(* LoadedByteMore.                                                          *)
LEMMA LoadedByteMoreType ==
  ASSUME SpiType, NEW q, LoadedByte(q), (spi.Count + 1) % 256 < q.packet_len
  PROVE  SpiType'
<1>1. SpiShape
  BY DEF SpiType
<1>0. (spi.Count + 1) % 256 \in Nat
  <2>1. spi.Count \in Nat
    BY DEF SpiType, SpiPlain
  <2>2. QED
    BY <2>1
<1>2. spi'.state \in {18, 22} /\ spi'.Count \in Nat
  BY <1>1, <1>0, LoadedByteMoreSets, AfterByteIs, AfterWordIs DEF SpiType, SpiPlain
<1>3. SpiPlain'
  <2>1. spi'.byte = spi.byte /\ spi'.write_line = spi.write_line /\ spi'.Len = spi.Len
          /\ spi'.slave_data_to_spi = spi.slave_data_to_spi
    BY <1>1, LoadedByteMoreSets
  <2>2. QED
    BY <1>0, <1>2, <2>1, ZeroByte DEF SpiType, SpiPlain
<1>4. SpiFlags'
  BY <1>1, LoadedByteMoreSets DEF SpiType, SpiFlags
<1>5. spi'.Data_to_sram \in Pair
  BY <1>1, LoadedByteMoreSets DEF SpiType
<1>6. LenFits'
  BY <1>1, <1>2, LoadedByteMoreSets DEF SpiType, LenFits, SpiPlain, ConfigCmd
<1>7. SpiShape'
  BY <1>1, LoadedByteMoreSets
<1>8. QED
  BY <1>3, <1>4, <1>5, <1>6, <1>7 DEF SpiType

(* LoadedByteLast.                                                          *)
LEMMA LoadedByteLastType ==
  ASSUME SpiType, NEW q, LoadedByte(q), ~((spi.Count + 1) % 256 < q.packet_len)
  PROVE  SpiType'
<1>1. SpiShape
  BY DEF SpiType
<1>0. (spi.Count + 1) % 256 \in Nat
  <2>1. spi.Count \in Nat
    BY DEF SpiType, SpiPlain
  <2>2. QED
    BY <2>1
<1>2. spi'.state = 0 /\ spi'.Count \in Nat
  BY <1>1, <1>0, LoadedByteLastSets, AfterByteIs, AfterWordIs DEF SpiType, SpiPlain
<1>3. SpiPlain'
  BY <1>1, <1>2, LoadedByteLastSets, ZeroByte DEF SpiType, SpiPlain, NoWrite, TxWrite,
     CfgWrite, SingleWrite
<1>4. SpiFlags'
  BY <1>1, LoadedByteLastSets DEF SpiType, SpiFlags
<1>5. spi'.Data_to_sram \in Pair
  BY <1>1, LoadedByteLastSets DEF SpiType
<1>6. LenFits'
  BY <1>1, <1>2, LoadedByteLastSets DEF SpiType, LenFits, SpiPlain, ConfigCmd
<1>7. SpiShape'
  BY <1>1, LoadedByteLastSets
<1>8. QED
  BY <1>3, <1>4, <1>5, <1>6, <1>7 DEF SpiType

-----------------------------------------------------------------------------
(* An edge of the whole link.                                               *)

(* A message from the CPU keeps the types,                                  *)
LEMMA WriteMessageType ==
  ASSUME SpiType, NEW hint, NEW full, NEW done, NEW byte \in Byte,
         WriteMessage(hint, full, done, byte)
  PROVE  SpiType'
<1>1. CASE TakeByte(done, byte)
  BY <1>1, TakeByteType
<1>2. CASE BeginWrite \/ BeginSend \/ BeginRecv \/ IgnoreByte
  BY <1>2, BeginWriteType, BeginSendType, BeginRecvType, IgnoreByteType
<1>3. CASE TakeLen
  <2>1. CASE spi.state = 31
    <3>1. CASE spi.Byte_flag
      BY <1>3, <2>1, <3>1, TakeLenLowType
    <3>2. CASE ~spi.Byte_flag
      BY <1>3, <2>1, <3>2, TakeLenHighType
    <3>3. QED
      BY <3>1, <3>2
  <2>2. CASE spi.state = 6
    BY <1>3, <2>2, TakeLenFrameType
  <2>3. QED
    BY <1>3, <2>1, <2>2 DEF TakeLen
<1>4. CASE FirstHalf \/ SecondHalf
  BY <1>4, FirstHalfLastType, FirstHalfMoreType, SecondHalfType
<1>5. CASE RaiseSend(full)
  BY <1>5, RaiseSendLengthType, RaiseSendWordType
<1>6. CASE RaiseStore
  BY <1>6, RaiseStoreCfgLenType, RaiseStoreCmdLenType, RaiseStoreCfgType, RaiseStoreCmdType
     DEF RaiseStore
<1>7. CASE LowerWrite(hint)
  BY <1>7, LowerLengthType, LowerWordType
<1>8. CASE EndConfig \/ EndCmd
  BY <1>8, EndConfigType, EndCmdType
<1>9. QED
  BY <1>1, <1>2, <1>3, <1>4, <1>5, <1>6, <1>7, <1>8 DEF WriteMessage

(* RaiseRead and LowerRead.                                                 *)
LEMMA ReadType ==
  ASSUME SpiType, NEW q, IrqFields(q), NEW hint, RaiseRead(q) \/ LowerRead(q, hint)
  PROVE  SpiType' /\ IrqFields(irq')
<1>1. PICK s \in {19, 20}, b \in BOOLEAN :
        spi' = [spi EXCEPT !.state = s] /\ irq' = [q EXCEPT !.SRAM_read = b]
  BY DEF RaiseRead, LowerRead
<1>2. IrqFields(irq')
  <2>1. /\ DOMAIN irq' = DOMAIN q /\ irq'.SRAM_read = b /\ irq'.counted = q.counted
        /\ irq'.cpu_recv_int = q.cpu_recv_int /\ irq'.packet_len = q.packet_len
        /\ irq'.word = q.word
    BY <1>1 DEF IrqFields
  <2>2. QED
    BY <1>1, <2>1 DEF IrqFields
<1>3. /\ SpiShape' /\ spi'.state = s /\ spi'.byte = spi.byte /\ spi'.Len = spi.Len
      /\ spi'.Count = spi.Count /\ spi'.write_line = spi.write_line
      /\ spi'.slave_data_to_spi = spi.slave_data_to_spi
      /\ spi'.Data_to_sram = spi.Data_to_sram
  BY <1>1 DEF SpiType, SpiShape, SpiRegisters
<1>4. spi'.Byte_flag = spi.Byte_flag /\ spi'.slave_write = spi.slave_write
  BY <1>1 DEF SpiType, SpiShape, SpiRegisters
<1>5. SpiPlain' /\ LenFits'
  BY <1>3 DEF SpiType, SpiPlain, LenFits
<1>6. SpiFlags'
  BY <1>4 DEF SpiType, SpiFlags
<1>7. QED
  BY <1>2, <1>3, <1>5, <1>6 DEF SpiType

(* and with them an edge of Slave_Ctrl.                                     *)
LEMMA SlaveType ==
  ASSUME SpiType, IrqFields(irq), NEW pkt \in BOOLEAN, NEW hint, NEW data \in Pair,
         NEW full, NEW empty, NEW done, NEW byte \in Byte, NEW trdy,
         SlaveStep(pkt, hint, data, full, empty, done, byte, trdy)
  PROVE  SpiType' /\ IrqFields(irq')
<1> DEFINE q == AfterIrq(AfterCounter(pkt), hint, data, empty)
<1>1. IrqFields(q)
  <2>1. data[1] \in Byte /\ data[2] \in Byte
    BY DEF Pair
  <2>2. QED
    BY <2>1, CounterType, AfterIrqType
<1>2. \/ /\ \/ WriteMessage(hint, full, done, byte)
            \/ LoadByte(q, data, trdy) \/ LoadedLen \/ LoadedByte(q)
            \/ UNCHANGED spi
         /\ irq' = q
      \/ RaiseRead(q) \/ LowerRead(q, hint)
  BY DEF SlaveStep
<1> HIDE DEF q
<1>3. CASE WriteMessage(hint, full, done, byte) /\ irq' = q
  BY <1>1, <1>3, WriteMessageType
<1>4. CASE (LoadByte(q, data, trdy) \/ LoadedLen \/ LoadedByte(q)) /\ irq' = q
  BY <1>1, <1>4, LoadByteType, LoadedLenType, LoadedByteMoreType, LoadedByteLastType
<1>5. CASE UNCHANGED spi /\ irq' = q
  <2>1. SpiType' <=> SpiType
    BY <1>5 DEF SpiType, SpiShape, SpiPlain, SpiFlags, LenFits
  <2>2. QED
    BY <1>1, <1>5, <2>1
<1>6. CASE RaiseRead(q) \/ LowerRead(q, hint)
  BY <1>1, <1>6, ReadType
<1>7. QED
  BY <1>2, <1>3, <1>4, <1>5, <1>6

-----------------------------------------------------------------------------

(* Wireless_Ctrl: the answer of SRAM_ctrl,                                  *)
LEMMA RadioAnswerType ==
  ASSUME RadioType, NEW hint, NEW data, Answer(hint, data)
  PROVE  RadioType'
<1>1. CASE Stored(hint)
  <2>1. /\ RadioShape' /\ radio'.data = radio.data /\ radio'.todo = Tail(radio.todo)
        /\ radio'.start = radio.start /\ radio'.rollback = radio.rollback
        /\ radio'.received = radio.received /\ radio'.read = radio.read
        /\ radio'.write = FALSE /\ radio.todo # <<>>
    BY <1>1 DEF Stored, RadioShape, RadioType
  <2>2. Tail(radio.todo) \in Seq(Pair)
    BY <2>1 DEF RadioType
  <2>3. QED
    BY <2>1, <2>2 DEF RadioType
<1>2. CASE Fetched(hint, data)
  <2>1. /\ RadioShape' /\ radio'.data = radio.data /\ radio'.todo = radio.todo
        /\ radio'.start = radio.start /\ radio'.rollback = radio.rollback
        /\ radio'.received = radio.received /\ radio'.read = FALSE
        /\ radio'.write = radio.write
    BY <1>2 DEF Fetched, RadioShape, RadioType
  <2>2. QED
    BY <2>1 DEF RadioType
<1>3. CASE EndAnnounce
  <2>1. /\ RadioShape' /\ radio'.data = radio.data /\ radio'.todo = radio.todo
        /\ radio'.start = radio.start /\ radio'.rollback = radio.rollback
        /\ radio'.received = FALSE /\ radio'.read = radio.read
        /\ radio'.write = radio.write
    BY <1>3 DEF EndAnnounce, RadioShape, RadioType
  <2>2. QED
    BY <2>1 DEF RadioType
<1>4. QED
  BY <1>1, <1>2, <1>3 DEF Answer

(* the words of a packet,                                                   *)
LEMMA WordsOfType ==
  ASSUME NEW p \in Packets
  PROVE  WordsOf(p) \in Seq(Pair) /\ WordsOf(p) # <<>>
<1>1. p \in Seq(Byte) /\ Len(p) + 1 \in Byte /\ Rssi \in Byte
  BY MessageAssumption
<1> DEFINE n == (Len(p) + 1) \div 2
           ws == [k \in 1 .. n |->
                    <<p[2 * k - 1], IF 2 * k <= Len(p) THEN p[2 * k] ELSE 0>>]
<1>2. n \in Nat /\ \A k \in 1 .. n : 2 * k - 1 \in 1 .. Len(p)
  BY <1>1
<1>3. \A k \in 1 .. n : p[2 * k - 1] \in Byte
  BY <1>1, <1>2
<1>4. \A k \in 1 .. n : (IF 2 * k <= Len(p) THEN p[2 * k] ELSE 0) \in Byte
  <2>1. ASSUME NEW k \in 1 .. n, 2 * k <= Len(p)
        PROVE  p[2 * k] \in Byte
    <3>1. 2 * k \in 1 .. Len(p)
      BY <1>1, <1>2, <2>1
    <3>2. QED
      BY <1>1, <3>1
  <2>2. QED
    BY <2>1, ZeroByte
<1>5. ws \in Seq(Pair)
  <2>1. ws \in [1 .. n -> Pair]
    BY <1>3, <1>4 DEF Pair
  <2> HIDE DEF ws, n
  <2>2. QED
    BY <1>2, <2>1
<1>6. <<<<45, 212>>, <<Len(p) + 1, Rssi>>>> \in Seq(Pair)
  <2>1. <<45, 212>> \in Pair /\ <<Len(p) + 1, Rssi>> \in Pair
    BY <1>1, CodesAreBytes DEF Pair
  <2>2. QED
    BY <2>1
<1>7. WordsOf(p) = <<<<45, 212>>, <<Len(p) + 1, Rssi>>>> \o ws
  BY DEF WordsOf
<1> DEFINE head == <<<<45, 212>>, <<Len(p) + 1, Rssi>>>>
<1>8. head \in Seq(Pair) /\ Len(head) = 2 /\ WordsOf(p) = head \o ws
  BY <1>6, <1>7
<1> HIDE DEF ws, head
<1>9. ASSUME NEW a \in Seq(Pair), NEW b \in Seq(Pair), Len(a) = 2
      PROVE  a \o b \in Seq(Pair) /\ a \o b # <<>>
  <2>1. Len(a \o b) = Len(a) + Len(b) /\ Len(b) \in Nat
    OBVIOUS
  <2>2. QED
    BY <1>9, <2>1
<1>10. head \o ws \in Seq(Pair) /\ head \o ws # <<>>
  BY <1>5, <1>8, <1>9
<1>11. QED
  BY <1>8, <1>10

(* what it may begin,                                                       *)
LEMMA RadioMayType ==
  ASSUME RadioType, NEW hint, NEW empty, NEW full, NEW almost,
         RadioMay(hint, empty, full, almost)
  PROVE  RadioType'
<1>1. CASE Mark(almost)
  <2>1. PICK p \in Packets :
          radio' = [radio EXCEPT !.rx = "mark", !.start = TRUE, !.air = p,
                                 !.todo = WordsOf(p), !.stored = 0, !.packets = @ + 1]
    BY <1>1 DEF Mark
  <2> DEFINE ws == WordsOf(p)
  <2>2. ws \in Seq(Pair) /\ ws # <<>>
    BY WordsOfType
  <2> HIDE DEF ws
  <2>3. radio' = [radio EXCEPT !.rx = "mark", !.start = TRUE, !.air = p,
                                 !.todo = ws, !.stored = 0, !.packets = @ + 1]
    BY <2>1 DEF ws
  <2>4. /\ RadioShape' /\ radio'.data = radio.data /\ radio'.todo = ws
        /\ radio'.start = TRUE /\ radio'.rollback = radio.rollback
        /\ radio'.received = radio.received /\ radio'.read = radio.read
        /\ radio'.write = radio.write
    BY <2>3 DEF RadioType, RadioShape
  <2>5. QED
    BY <2>2, <2>4 DEF RadioType
<1>2. CASE EndMark
  <2>1. /\ RadioShape' /\ radio'.data = radio.data /\ radio'.todo = radio.todo
        /\ radio'.start = FALSE /\ radio'.rollback = radio.rollback
        /\ radio'.received = radio.received /\ radio'.read = radio.read
        /\ radio'.write = radio.write
    BY <1>2 DEF RadioType, RadioShape, EndMark
  <2>2. QED
    BY <2>1 DEF RadioType
<1>3. CASE Store(full)
  <2>1. /\ RadioShape' /\ radio'.data = Head(radio.todo) /\ radio'.todo = radio.todo
        /\ radio.todo # <<>>
        /\ radio'.start = radio.start /\ radio'.rollback = radio.rollback
        /\ radio'.received = radio.received /\ radio'.read = radio.read
        /\ radio'.write = TRUE
    BY <1>3 DEF RadioType, RadioShape, Store
  <2>2. Head(radio.todo) \in Pair
    BY <1>3 DEF RadioType, Store
  <2>3. QED
    BY <2>1, <2>2 DEF RadioType
<1>4. CASE Announce
  <2>1. /\ RadioShape' /\ radio'.data = radio.data /\ radio'.todo = radio.todo
        /\ radio'.start = radio.start /\ radio'.rollback = radio.rollback
        /\ radio'.received = TRUE /\ radio'.read = radio.read
        /\ radio'.write = radio.write
    BY <1>4 DEF RadioType, RadioShape, Announce
  <2>2. QED
    BY <2>1 DEF RadioType
<1>5. CASE RollBack
  <2>1. /\ RadioShape' /\ radio'.data = radio.data /\ radio'.todo = <<>>
        /\ radio'.start = radio.start /\ radio'.rollback = TRUE
        /\ radio'.received = radio.received /\ radio'.read = radio.read
        /\ radio'.write = radio.write /\ ~radio.write
    BY <1>5 DEF RadioType, RadioShape, RollBack, EngineFree
  <2>2. <<>> \in Seq(Pair)
    OBVIOUS
  <2>3. QED
    BY <2>1, <2>2 DEF RadioType
<1>6. CASE EndRollBack
  <2>1. /\ RadioShape' /\ radio'.data = radio.data /\ radio'.todo = radio.todo
        /\ radio'.start = radio.start /\ radio'.rollback = FALSE
        /\ radio'.received = radio.received /\ radio'.read = radio.read
        /\ radio'.write = radio.write
    BY <1>6 DEF RadioType, RadioShape, EndRollBack
  <2>2. QED
    BY <2>1 DEF RadioType
<1>7. CASE Fetch(empty)
  <2>1. /\ RadioShape' /\ radio'.data = radio.data /\ radio'.todo = radio.todo
        /\ radio'.start = radio.start /\ radio'.rollback = radio.rollback
        /\ radio'.received = radio.received /\ radio'.read = TRUE
        /\ radio'.write = radio.write
    BY <1>7 DEF RadioType, RadioShape, Fetch
  <2>2. QED
    BY <2>1 DEF RadioType
<1>8. QED
  BY <1>1, <1>2, <1>3, <1>4, <1>5, <1>6, <1>7 DEF RadioMay

(* and an edge.                                                             *)
LEMMA RadioStepType ==
  ASSUME RadioType, NEW hint, NEW data, NEW empty, NEW full, NEW almost,
         Answer(hint, data) \/ RadioMay(hint, empty, full, almost) \/ RadioIdles(hint)
  PROVE  RadioType'
<1>1. CASE RadioIdles(hint)
  BY <1>1 DEF RadioIdles, RadioType, RadioShape
<1>2. QED
  BY <1>1, RadioAnswerType, RadioMayType

-----------------------------------------------------------------------------
(* The wires between the modules carry what the modules may be told.        *)
LinkType == SpiType /\ IrqFields(irq) /\ PortType /\ HostType /\ RadioType

(* They are so at power-up.                                                 *)
LEMMA LinkInitType == LinkInit => LinkType /\ TypeOK
<1> SUFFICES ASSUME LinkInit PROVE LinkType /\ TypeOK
  OBVIOUS
<1>1. SpiType
  <2>1. spi = [state |-> 0, byte |-> 0, Byte_flag |-> FALSE,
            Len |-> 0, Count |-> 0, Data_to_sram |-> <<0, 0>>,
            write_line |-> NoWrite, config_done |-> FALSE,
            cmd_done |-> FALSE, slave_data_to_spi |-> 0,
            slave_write |-> FALSE, irq_noted |-> FALSE,
            spi_send_end |-> TRUE, reset_n |-> TRUE]
    BY DEF LinkInit, SlaveInit
  <2>2. SpiShape /\ SpiFlags
    BY <2>1 DEF SpiShape, SpiFlags, SpiRegisters
  <2>3. SpiPlain /\ LenFits /\ spi.Data_to_sram \in Pair
    BY <2>1, ZeroByte DEF SpiPlain, LenFits, NoWrite, Pair
  <2>4. QED
    BY <2>2, <2>3 DEF SpiType
<1>2. IrqFields(irq)
  <2>1. irq = [state |-> 0, SRAM_read |-> FALSE, cpu_recv_int |-> TRUE,
               counted |-> FALSE, bufferd_pkt_count |-> 0,
               packet_len |-> 0, word |-> <<0, 0>>]
    BY DEF LinkInit, SlaveInit
  <2>2. QED
    BY <2>1, ZeroByte DEF IrqFields
<1>3. PortType
  BY ZeroByte, TimingAssumption DEF LinkInit, PortInit, PortType
<1>4. HostType
  BY DEF LinkInit, HostInit, HostType, HostShape
<1>5. RadioType
  BY ZeroByte DEF LinkInit, RadioInit, RadioType, RadioShape, Pair
<1>6. TypeOK
  BY TypeInit DEF LinkInit
<1>7. QED
  BY <1>1, <1>2, <1>3, <1>4, <1>5, <1>6 DEF LinkType

(* An edge of the whole is an edge of SRAM_ctrl among its neighbours.       *)
LEMMA StepIsNext ==
  ASSUME NEW req \in SUBSET Request, NEW start \in BOOLEAN, NEW rollback \in BOOLEAN,
         NEW sd \in Pair, NEW md \in Pair, Step(req, start, rollback, sd, md)
  PROVE  Next
<1>1. req \in RequestSets /\ start \in Starts /\ rollback \in Rollbacks
      /\ sd \in Word /\ md \in Word
  BY NeighbourAssumption DEF Pair
<1> DEFINE wr == FifoOWrPtr(start, rollback)
<1>2. /\ Edge(start)
      /\ \/ Arbitrate(req, wr)
         \/ SlaveWrite(sd, wr) \/ ConfigWrite(sd, wr)
         \/ CmdWrite(sd, wr) \/ MasterWrite(md, wr)
         \/ Serve(wr)
  BY DEF Step
<1>3. /\ Edge(start)
      /\ \/ \E r \in RequestSets : Arbitrate(r, wr)
         \/ \E w \in Word : \/ SlaveWrite(w, wr) \/ ConfigWrite(w, wr)
                            \/ CmdWrite(w, wr) \/ MasterWrite(w, wr)
         \/ Serve(wr)
  <2> HIDE DEF wr
  <2>1. QED
    BY <1>1, <1>2
<1>4. QED
  BY <1>1, <1>3 DEF Next

(* Those they raise are requests.                                           *)
LEMMA RequestsRaised ==
  ASSUME SpiType
  PROVE  SlaveRequests \cup RadioRequests \in SUBSET Request
<1>1. spi.write_line \in {0, 1, 5, 9}
  BY DEF SpiType, SpiPlain
<1>2. QED
  BY <1>1 DEF SlaveRequests, RadioRequests, Request, NoWrite

(* An edge of the FPGA keeps the types,                                     *)
LEMMA FpgaType ==
  ASSUME LinkType, TypeOK, NEW ends \in BOOLEAN, NEW mosi \in Byte, Fpga(ends, mosi)
  PROVE  Next /\ TypeOK' /\ SpiType' /\ IrqFields(irq') /\ PortType' /\ RadioType'
<1>1. /\ Step(SlaveRequests \cup RadioRequests, radio.start, radio.rollback,
              spi.Data_to_sram, radio.data)
      /\ SlaveStep(radio.received, slave_hint, slave_data_from_sram,
                   fifo_i_full, fifo_o_empty,
                   port.SPI_DONE, port.Rx_holding_reg, ~port.Data_holding)
      /\ PortStep(ends, mosi, spi.slave_write, spi.slave_data_to_spi)
      /\ \/ Answer(master_hint, master_data_from_sram)
         \/ RadioMay(master_hint, fifo_i_empty, fifo_o_full, SRAM_AlmostFull)
         \/ RadioIdles(master_hint)
  BY DEF Fpga
<1>2. /\ SpiType /\ IrqFields(irq) /\ PortType /\ RadioType
      /\ radio.start \in BOOLEAN /\ radio.rollback \in BOOLEAN /\ radio.received \in BOOLEAN
      /\ radio.data \in Pair /\ spi.Data_to_sram \in Pair /\ spi.slave_write \in BOOLEAN
      /\ spi.slave_data_to_spi \in Byte /\ port.Rx_holding_reg \in Byte
  BY DEF LinkType, RadioType, SpiType, SpiFlags, SpiPlain, PortType
<1>3. slave_data_from_sram \in Pair
  BY NeighbourAssumption DEF TypeOK, Pair
<1>4. Next
  BY <1>1, <1>2, RequestsRaised, StepIsNext
<1>5. TypeOK'
  BY <1>4, TypeStep
<1>6. SpiType' /\ IrqFields(irq')
  BY <1>1, <1>2, <1>3, SlaveType
<1>7. PortType'
  BY <1>1, <1>2, PortTypeStep, ZeroByte
<1>8. RadioType'
  BY <1>1, <1>2, RadioStepType
<1>9. QED
  BY <1>4, <1>5, <1>6, <1>7, <1>8

(* and so does a step of the driver; for SRAM_ctrl it is an edge or none.   *)
LEMMA LinkStepType ==
  LinkType /\ TypeOK /\ [LinkNext]_linkVars => LinkType' /\ TypeOK' /\ [Next]_vars
<1> SUFFICES ASSUME LinkType, TypeOK, [LinkNext]_linkVars
             PROVE  LinkType' /\ TypeOK' /\ [Next]_vars
  OBVIOUS
<1>1. CASE EdgeShifting
  <2>1. HostType /\ port.TxData \in Byte /\ ShiftByte(port.TxData)
          /\ Fpga(TRUE, Head(host.out))
    BY <1>1 DEF EdgeShifting, LinkType, PortType
  <2>2. Head(host.out) \in Byte
    BY <2>1 DEF ShiftByte, HostType
  <2>3. HostType'
    BY <2>1, ShiftType
  <2>4. QED
    BY <2>1, <2>2, <2>3, FpgaType DEF LinkType
<1>2. CASE EdgeReacting
  <2>1. HostType /\ DriverReacts /\ Fpga(FALSE, 0)
    BY <1>2 DEF EdgeReacting, LinkType
  <2>2. HostType'
    BY <2>1, ReactsType
  <2>3. QED
    BY <2>1, <2>2, FpgaType, ZeroByte DEF LinkType
<1>3. CASE EdgeBeginning
  <2>1. HostType /\ DriverBegins(cpu_irq_full) /\ Fpga(FALSE, 0)
    BY <1>3 DEF EdgeBeginning, LinkType
  <2>2. HostType'
    BY <2>1, BeginsType
  <2>3. QED
    BY <2>1, <2>2, FpgaType, ZeroByte DEF LinkType
<1>4. CASE EdgeQuiet
  <2>1. HostType /\ UNCHANGED host /\ Fpga(FALSE, 0)
    BY <1>4 DEF EdgeQuiet, LinkType
  <2>2. HostType'
    BY <2>1 DEF HostType, HostShape
  <2>3. QED
    BY <2>1, <2>2, FpgaType, ZeroByte DEF LinkType
<1>5. CASE UNCHANGED linkVars
  <2>1. UNCHANGED vars /\ spi' = spi /\ irq' = irq /\ port' = port /\ host' = host
          /\ radio' = radio
    BY <1>5 DEF linkVars
  <2>2. TypeOK'
    BY <2>1, TypeStep
  <2>3. LinkType'
    BY <2>1 DEF LinkType, SpiType, SpiShape, SpiPlain, SpiFlags, LenFits, IrqFields,
                PortType, HostType, HostShape, RadioType, RadioShape
  <2>4. QED
    BY <2>1, <2>2, <2>3
<1>6. QED
  BY <1>1, <1>2, <1>3, <1>4, <1>5 DEF LinkNext

(* The wiring keeps SRAM_ctrl within its specification: whatever the CPU,    *)
(* the radio and the machines of Slave_Ctrl do, an edge of the link is one of *)
(* SRAM_ctrl, so that what is proved of it holds in the link.                *)
THEOREM LinkImplementsArbiter == LinkSpec => Spec
<1>1. LinkInit => Init
  BY DEF LinkInit
<1>2. LinkInit => LinkType /\ TypeOK
  BY LinkInitType
<1>3. LinkType /\ TypeOK /\ [LinkNext]_linkVars => LinkType' /\ TypeOK' /\ [Next]_vars
  BY LinkStepType
<1>4. QED
  BY <1>1, <1>2, <1>3, PTL DEF LinkSpec, Spec

(* Hence its guarantees are kept with the driver, the SPI port and the radio  *)
(* of the link as clients: no FIFO is overrun, and the pointers and the count *)
(* of FIFO_I agree (SRAM_ctrl.v:106-121, 236-243).                            *)
THEOREM LinkFifosKept ==
  LinkSpec => [](CountsInBounds /\ FlagsTrueWhenArbitrating /\ FifoIConsistent)
<1>1. Spec => []CountsInBounds
  BY NoOverrun
<1>2. Spec => []FlagsTrueWhenArbitrating
  BY FlagsNeverMislead
<1>3. Spec => []FifoIConsistent
  BY FifoICorrect
<1>4. QED
  BY <1>1, <1>2, <1>3, LinkImplementsArbiter, PTL

-----------------------------------------------------------------------------
(* That no byte of the CPU is lost while nothing is received. A message m of*)
(* which t bytes are taken determines the state of the Spi machine; the     *)
(* edges until it waits again are counted against those the next byte takes;*)
(* and the words still to come against the room in FIFO_I.                  *)

(* The messages of the driver as they are on the bus.                       *)
IsMessage(m) ==
  /\ m.msg \in {"frame", "cmd", "config"} /\ m.body \in Seq(Byte) /\ m.body # <<>>
  /\ m.msg = "config" => Configs # {} /\ Hi(Len(m.body)) \in Byte
  /\ m.msg # "config" => Len(m.body) \in Byte

Lead(m) == IF m.msg = "config" THEN 3 ELSE 2
WireLen(m) == Len(m.body) + Lead(m)
WireByte(m, k) ==
  IF k = 1 THEN (CASE m.msg = "frame" -> SendCmd [] m.msg = "cmd" -> SingleCmd
                   [] OTHER -> ConfigCmd)
  ELSE IF k > Lead(m) THEN m.body[k - Lead(m)]
  ELSE IF m.msg # "config" THEN Len(m.body)
  ELSE IF k = 2 THEN Hi(Len(m.body)) ELSE Lo(Len(m.body))

(* Its length.                                                              *)
LEMMA BodyFacts ==
  ASSUME NEW f, f \in Seq(Byte), f # <<>>
  PROVE  Len(f) \in Nat \ {0} /\ \A k \in 1 .. Len(f) : f[k] \in Byte
<1>1. Len(f) \in Nat \ {0}
  OBVIOUS
<1>2. \A k \in 1 .. Len(f) : f[k] \in Byte
  OBVIOUS
<1>3. QED
  BY <1>1, <1>2

(* A message is of one of three kinds, and not empty.                       *)
LEMMA MessageFacts ==
  ASSUME NEW m, IsMessage(m)
  PROVE  /\ Len(m.body) \in Nat \ {0} /\ Hi(Len(m.body)) \in Byte
         /\ m.msg \in {"frame", "cmd", "config"}
         /\ m.msg # "config" => Len(m.body) \in Byte
         /\ \A k \in 1 .. Len(m.body) : m.body[k] \in Byte
<1>1. Len(m.body) \in Nat \ {0} /\ \A k \in 1 .. Len(m.body) : m.body[k] \in Byte
  BY BodyFacts DEF IsMessage
<1>2. Hi(Len(m.body)) \in Byte
  <2>1. CASE m.msg = "config"
    BY <2>1 DEF IsMessage
  <2>2. CASE m.msg # "config"
    <3>1. Hi(Len(m.body)) = 0
      BY <2>2, <1>1, DivFacts DEF IsMessage
    <3>2. QED
      BY <3>1, ByteFacts
  <2>3. QED
    BY <2>1, <2>2
<1>3. QED
  BY <1>1, <1>2 DEF IsMessage

(* The bytes before its body, and all of them.                              *)
LEMMA LeadFacts ==
  ASSUME NEW m, IsMessage(m)
  PROVE  /\ Lead(m) \in Nat /\ WireLen(m) \in Nat /\ WireLen(m) = Len(m.body) + Lead(m)
         /\ Lead(m) = IF m.msg = "config" THEN 3 ELSE 2
<1>1. Lead(m) \in {2, 3} /\ Lead(m) = IF m.msg = "config" THEN 3 ELSE 2
  BY DEF Lead
<1>2. WireLen(m) = Len(m.body) + Lead(m) /\ Len(m.body) \in Nat
  BY MessageFacts DEF WireLen
<1> HIDE DEF IsMessage
<1>3. ASSUME NEW a \in Nat, NEW b \in {2, 3}
      PROVE  a + b \in Nat /\ b \in Nat
  OBVIOUS
<1>4. WireLen(m) \in Nat /\ Lead(m) \in Nat
  BY <1>1, <1>2, <1>3
<1>5. QED
  BY <1>1, <1>2, <1>4

(* The parity of the next number.                                           *)
Odd(n)  == n % 2 = 1
LEMMA OddNext == ASSUME NEW n \in Nat PROVE Odd(n + 1) <=> ~Odd(n)
BY DEF Odd
LEMMA OddZero == ~Odd(0)
BY DEF Odd

(* Where the Spi machine is in a message m of which it has taken t bytes.   *)
FrameStates  == {4, 6, 7, 8, 9, 10, 11, 13, 14, 15}
ConfigStates == {30, 31, 32, 33, 34, 35, 36, 37, 38, 39, 40, 41, 42}
CmdStates    == {45, 46, 47, 48, 49, 50, 51, 52, 53}

Begins(m, t) ==
  /\ t = 0 => spi.state = 0
  /\ spi.state = 0 => t = 0 \/ t = WireLen(m)
  /\ spi.state = 3 => t = 1 /\ spi.byte = WireByte(m, 1)
  /\ spi.state \in FrameStates => m.msg = "frame"
  /\ spi.state \in ConfigStates => m.msg = "config"
  /\ spi.state \in CmdStates => m.msg = "cmd"

(* The lengths.                                                             *)
Leads(m, t) ==
  /\ spi.state \in {4, 6, 7, 8, 9, 10, 30, 31, 32, 33, 45, 46, 47} => spi.Count = 0
  /\ spi.state \in {4, 6, 7, 8, 9, 10, 32, 33, 45, 46, 47} => ~spi.Byte_flag
  /\ spi.state \in {4, 45} => t = 1
  /\ spi.state = 6 => t = 2 /\ spi.byte = Len(m.body)
  /\ spi.state \in {30, 31} =>
       spi.Len = IF spi.Byte_flag THEN 256 * Hi(Len(m.body)) ELSE 0
  /\ spi.state = 30 => t = IF spi.Byte_flag THEN 2 ELSE 1
  /\ spi.state = 31 => /\ t = IF spi.Byte_flag THEN 3 ELSE 2
                       /\ spi.byte = WireByte(m, t)
  /\ spi.state \in {7, 8, 9, 10, 32, 33, 46, 47} => t = Lead(m) /\ spi.Len = Len(m.body)

(* The bytes of the body: two make a word, for a frame from the length on.  *)
Body(m, t) ==
  /\ spi.state \in {11, 13, 34, 35, 48, 49} =>
       spi.Len = Len(m.body) /\ spi.Count < Len(m.body)
  /\ spi.state \in {11, 13} => (spi.Byte_flag <=> ~Odd(spi.Count))
  /\ spi.state \in {34, 35, 48, 49} => (spi.Byte_flag <=> Odd(spi.Count))
  /\ spi.state \in {11, 34, 48} => t = spi.Count + Lead(m)
  /\ spi.state \in {13, 35, 49} =>
       t = spi.Count + Lead(m) + 1 /\ spi.byte = m.body[spi.Count + 1]
  /\ spi.state \in {14, 15, 36, 37, 50, 51} =>
       /\ spi.Len = Len(m.body) /\ t = spi.Count + Lead(m) /\ ~spi.Byte_flag
       /\ spi.Count <= Len(m.body) /\ spi.Count > 0
  /\ spi.state \in {14, 15} => Odd(spi.Count) \/ spi.Count = Len(m.body)
  /\ spi.state \in {36, 37, 50, 51} => ~Odd(spi.Count) \/ spi.Count = Len(m.body)
  /\ spi.state \in {38, 39, 40, 41, 42, 52, 53} => t = WireLen(m)

SpiAt(m, t) ==
  /\ spi.state \in {0, 3} \cup FrameStates \cup ConfigStates \cup CmdStates
  /\ t \in Nat /\ t <= WireLen(m)
  /\ Begins(m, t) /\ Leads(m, t) /\ Body(m, t)

(* What it drives.                                                          *)
Drives ==
  /\ spi.state \in {8, 10, 15} => spi.write_line = TxWrite
  /\ spi.state \in {33, 37} => spi.write_line = CfgWrite
  /\ spi.state \in {47, 51} => spi.write_line = SingleWrite
  /\ spi.state \notin {8, 10, 15, 33, 37, 47, 51} => spi.write_line = NoWrite
Pulsing ==
  /\ (spi.config_done <=> spi.state = 39)
  /\ (spi.cmd_done <=> spi.state = 53)

(* Where the hint takes the Spi machine.                                    *)
LEMMA AfterHintSays ==
  ASSUME spi.state \in {8, 15, 33, 37, 47, 51}
  PROVE  AfterHint = IF spi.state = 8 THEN 9 ELSE IF spi.state = 33 THEN 34
                     ELSE IF spi.state = 47 THEN 48
                     ELSE IF spi.Count < spi.Len
                          THEN (IF spi.state = 15 THEN 11 ELSE IF spi.state = 37 THEN 34 ELSE 48)
                          ELSE (IF spi.state = 15 THEN 0 ELSE IF spi.state = 37 THEN 38 ELSE 52)
<1>1. CASE spi.state = 8
  BY <1>1 DEF AfterHint
<1>2. CASE spi.state = 15
  BY <1>2 DEF AfterHint
<1>3. CASE spi.state = 33
  BY <1>3 DEF AfterHint
<1>4. CASE spi.state = 37
  BY <1>4 DEF AfterHint
<1>5. CASE spi.state = 47
  BY <1>5 DEF AfterHint
<1>6. CASE spi.state = 51
  BY <1>6 DEF AfterHint
<1>7. QED
  BY <1>1, <1>2, <1>3, <1>4, <1>5, <1>6

(* Each action of the Spi machine keeps its place in the message: the code  *)
(* of the message,                                                          *)
LEMMA BeginWriteAt ==
  ASSUME SpiType, NEW m, IsMessage(m), NEW t, SpiAt(m, t), Drives, BeginWrite
  PROVE  SpiAt(m, t)' /\ Drives'
<1>1. SpiShape /\ spi.state \in Nat /\ spi.Count \in Nat /\ spi.Len \in Nat
  BY DEF SpiType, SpiPlain
<1> DEFINE L == Len(m.body)
<1>2. /\ L \in Nat /\ L > 0 /\ Lead(m) \in Nat /\ WireLen(m) = L + Lead(m) /\ t \in Nat
      /\ t <= WireLen(m) /\ Lead(m) \in {2, 3}
      /\ Lead(m) = IF m.msg = "config" THEN 3 ELSE 2
  BY MessageFacts, LeadFacts DEF SpiAt
<1>3. Begins(m, t) /\ Leads(m, t) /\ Body(m, t)
  BY DEF SpiAt
<1>4. /\ spi.state = 3 /\ spi.byte \in {17, 18}
      /\ spi'.state = (IF spi.byte = 17 THEN 30 ELSE 45)
      /\ spi'.Count = 0 /\ spi'.Len = 0 /\ spi'.Byte_flag = FALSE
      /\ spi'.write_line = spi.write_line
  BY <1>1, BeginWriteSets DEF ConfigCmd, SingleCmd
<1>11. spi.byte = WireByte(m, 1) /\ t = 1
  BY <1>3, <1>4 DEF Begins
<1>12. spi.byte = IF m.msg = "frame" THEN 102 ELSE IF m.msg = "cmd" THEN 18 ELSE 17
  BY <1>11 DEF WireByte, SendCmd, SingleCmd, ConfigCmd
<1>13. m.msg \in {"frame", "cmd", "config"}
  BY MessageFacts
<1>14. /\ spi'.state = IF m.msg = "config" THEN 30 ELSE 45
       /\ m.msg \in {"cmd", "config"}
  BY <1>4, <1>12, <1>13
<1>40. spi'.write_line = NoWrite
  BY <1>4 DEF Drives
<1>6. Begins(m, t)'
  BY <1>2, <1>4, <1>11, <1>12, <1>13, <1>14 DEF Begins, FrameStates, ConfigStates, CmdStates
<1>7. Leads(m, t)'
  BY <1>2, <1>4, <1>11, <1>12, <1>13, <1>14 DEF Leads
<1>8. Body(m, t)'
  BY <1>1, <1>2, <1>4, <1>11, <1>12, <1>13, <1>14, OddZero DEF Body
<1>9. Drives' /\ spi'.state \in {0, 3} \cup FrameStates \cup ConfigStates \cup CmdStates
  BY <1>4, <1>40 DEF Drives, NoWrite, TxWrite, CfgWrite, SingleWrite,
     FrameStates, ConfigStates, CmdStates
<1>10. QED
  BY <1>2, <1>6, <1>7, <1>8, <1>9 DEF SpiAt

(* of a frame,                                                              *)
LEMMA BeginSendAt ==
  ASSUME SpiType, NEW m, IsMessage(m), NEW t, SpiAt(m, t), Drives, BeginSend
  PROVE  SpiAt(m, t)' /\ Drives'
<1>1. SpiShape /\ spi.state \in Nat /\ spi.Count \in Nat /\ spi.Len \in Nat
  BY DEF SpiType, SpiPlain
<1> DEFINE L == Len(m.body)
<1>2. /\ L \in Nat /\ L > 0 /\ Lead(m) \in Nat /\ WireLen(m) = L + Lead(m) /\ t \in Nat
      /\ t <= WireLen(m) /\ Lead(m) \in {2, 3}
      /\ Lead(m) = IF m.msg = "config" THEN 3 ELSE 2
  BY MessageFacts, LeadFacts DEF SpiAt
<1>3. Begins(m, t) /\ Leads(m, t) /\ Body(m, t)
  BY DEF SpiAt
<1>4. /\ spi.state = 3 /\ spi.byte = 102 /\ spi'.state = 4
      /\ spi'.Count = 0 /\ spi'.Byte_flag = FALSE
      /\ spi'.write_line = spi.write_line
  BY <1>1, BeginSendSets DEF SendCmd
<1>11. spi.byte = WireByte(m, 1) /\ t = 1
  BY <1>3, <1>4 DEF Begins
<1>12. spi.byte = IF m.msg = "frame" THEN 102 ELSE IF m.msg = "cmd" THEN 18 ELSE 17
  BY <1>11 DEF WireByte, SendCmd, SingleCmd, ConfigCmd
<1>13. m.msg = "frame"
  BY <1>4, <1>12
<1>40. spi'.write_line = NoWrite
  BY <1>4 DEF Drives
<1>6. Begins(m, t)'
  BY <1>2, <1>4, <1>11, <1>12, <1>13 DEF Begins, FrameStates, ConfigStates, CmdStates
<1>7. Leads(m, t)'
  BY <1>2, <1>4, <1>11, <1>12, <1>13 DEF Leads
<1>8. Body(m, t)'
  BY <1>1, <1>2, <1>4, <1>11, <1>12, <1>13, OddZero DEF Body
<1>9. Drives' /\ spi'.state \in {0, 3} \cup FrameStates \cup ConfigStates \cup CmdStates
  BY <1>4, <1>40 DEF Drives, NoWrite, TxWrite, CfgWrite, SingleWrite,
     FrameStates, ConfigStates, CmdStates
<1>10. QED
  BY <1>2, <1>6, <1>7, <1>8, <1>9 DEF SpiAt

(* the high byte of a length                                                *)
LEMMA TakeLenHighAt ==
  ASSUME SpiType, NEW m, IsMessage(m), NEW t, SpiAt(m, t), Drives, TakeLen,
         spi.state = 31, ~spi.Byte_flag
  PROVE  SpiAt(m, t)' /\ Drives'
<1>1. SpiShape /\ spi.state \in Nat /\ spi.Count \in Nat /\ spi.Len \in Nat
  BY DEF SpiType, SpiPlain
<1> DEFINE L == Len(m.body)
<1>2. /\ L \in Nat /\ L > 0 /\ Lead(m) \in Nat /\ WireLen(m) = L + Lead(m) /\ t \in Nat
      /\ t <= WireLen(m) /\ Lead(m) \in {2, 3}
      /\ Lead(m) = IF m.msg = "config" THEN 3 ELSE 2
  BY MessageFacts, LeadFacts DEF SpiAt
<1>3. Begins(m, t) /\ Leads(m, t) /\ Body(m, t)
  BY DEF SpiAt
<1>4. /\ spi.state = 31 /\ ~spi.Byte_flag /\ spi'.state = 30
      /\ spi'.Count = spi.Count /\ spi'.Byte_flag = TRUE /\ spi'.Len = 256 * spi.byte
      /\ spi'.write_line = spi.write_line
  BY <1>1, TakeLenHighSets
<1>5. m.msg = "config" /\ spi.Count = 0
  BY <1>1, <1>2, <1>3, <1>4 DEF Begins, Leads, Body, FrameStates, ConfigStates, CmdStates
<1>12. m.msg = "config" /\ t = 2 /\ spi.byte = WireByte(m, 2)
  BY <1>3, <1>4 DEF Begins, Leads, ConfigStates
<1>13. spi'.Len = 256 * Hi(L)
  BY <1>2, <1>4, <1>12 DEF WireByte
<1>40. spi'.write_line = NoWrite
  BY <1>4 DEF Drives
<1>6. Begins(m, t)'
  BY <1>2, <1>4, <1>5, <1>12, <1>13 DEF Begins, FrameStates, ConfigStates, CmdStates
<1>7. Leads(m, t)'
  BY <1>2, <1>4, <1>5, <1>12, <1>13 DEF Leads
<1>8. Body(m, t)'
  BY <1>1, <1>2, <1>4, <1>5, <1>12, <1>13, OddZero DEF Body
<1>9. Drives' /\ spi'.state \in {0, 3} \cup FrameStates \cup ConfigStates \cup CmdStates
  BY <1>4, <1>40 DEF Drives, NoWrite, TxWrite, CfgWrite, SingleWrite,
     FrameStates, ConfigStates, CmdStates
<1>10. QED
  BY <1>2, <1>6, <1>7, <1>8, <1>9 DEF SpiAt

(* and the low one,                                                         *)
LEMMA TakeLenLowAt ==
  ASSUME SpiType, NEW m, IsMessage(m), NEW t, SpiAt(m, t), Drives, TakeLen,
         spi.state = 31, spi.Byte_flag
  PROVE  SpiAt(m, t)' /\ Drives'
<1>1. SpiShape /\ spi.state \in Nat /\ spi.Count \in Nat /\ spi.Len \in Nat
  BY DEF SpiType, SpiPlain
<1> DEFINE L == Len(m.body)
<1>2. /\ L \in Nat /\ L > 0 /\ Lead(m) \in Nat /\ WireLen(m) = L + Lead(m) /\ t \in Nat
      /\ t <= WireLen(m) /\ Lead(m) \in {2, 3}
      /\ Lead(m) = IF m.msg = "config" THEN 3 ELSE 2
  BY MessageFacts, LeadFacts DEF SpiAt
<1>3. Begins(m, t) /\ Leads(m, t) /\ Body(m, t)
  BY DEF SpiAt
<1>4. /\ spi.state = 31 /\ spi.Byte_flag /\ spi'.state = 32
      /\ spi'.Count = spi.Count /\ spi'.Byte_flag = FALSE /\ spi'.Len = spi.Len + spi.byte
      /\ spi'.write_line = spi.write_line
  BY <1>1, TakeLenLowSets
<1>5. m.msg = "config" /\ spi.Count = 0
  BY <1>1, <1>2, <1>3, <1>4 DEF Begins, Leads, Body, FrameStates, ConfigStates, CmdStates
<1>12. m.msg = "config" /\ t = 3 /\ spi.byte = WireByte(m, 3) /\ spi.Len = 256 * Hi(L)
  BY <1>3, <1>4 DEF Begins, Leads, ConfigStates
<1>13. spi.byte = Lo(L)
  BY <1>2, <1>12 DEF WireByte
<1>14. spi'.Len = L
  <2>1. L = 256 * Hi(L) + Lo(L)
    BY <1>2, DivFacts
  <2>2. QED
    BY <2>1, <1>4, <1>12, <1>13
<1>40. spi'.write_line = NoWrite
  BY <1>4 DEF Drives
<1>6. Begins(m, t)'
  BY <1>2, <1>4, <1>5, <1>12, <1>13, <1>14 DEF Begins, FrameStates, ConfigStates, CmdStates
<1>7. Leads(m, t)'
  BY <1>2, <1>4, <1>5, <1>12, <1>13, <1>14 DEF Leads
<1>8. Body(m, t)'
  BY <1>1, <1>2, <1>4, <1>5, <1>12, <1>13, <1>14, OddZero DEF Body
<1>9. Drives' /\ spi'.state \in {0, 3} \cup FrameStates \cup ConfigStates \cup CmdStates
  BY <1>4, <1>40 DEF Drives, NoWrite, TxWrite, CfgWrite, SingleWrite,
     FrameStates, ConfigStates, CmdStates
<1>10. QED
  BY <1>2, <1>6, <1>7, <1>8, <1>9 DEF SpiAt

(* the length of a frame,                                                   *)
LEMMA TakeLenFrameAt ==
  ASSUME SpiType, NEW m, IsMessage(m), NEW t, SpiAt(m, t), Drives, TakeLen, spi.state = 6
  PROVE  SpiAt(m, t)' /\ Drives'
<1>1. SpiShape /\ spi.state \in Nat /\ spi.Count \in Nat /\ spi.Len \in Nat
  BY DEF SpiType, SpiPlain
<1> DEFINE L == Len(m.body)
<1>2. /\ L \in Nat /\ L > 0 /\ Lead(m) \in Nat /\ WireLen(m) = L + Lead(m) /\ t \in Nat
      /\ t <= WireLen(m) /\ Lead(m) \in {2, 3}
      /\ Lead(m) = IF m.msg = "config" THEN 3 ELSE 2
  BY MessageFacts, LeadFacts DEF SpiAt
<1>3. Begins(m, t) /\ Leads(m, t) /\ Body(m, t)
  BY DEF SpiAt
<1>4. /\ spi.state = 6 /\ spi'.state = 7
      /\ spi'.Count = spi.Count /\ spi'.Byte_flag = spi.Byte_flag /\ spi'.Len = spi.byte
      /\ spi'.write_line = spi.write_line
  BY <1>1, TakeLenFrameSets
<1>5. m.msg = "frame" /\ t = 2 /\ spi.byte = L /\ spi.Count = 0 /\ ~spi.Byte_flag
  BY <1>1, <1>2, <1>3, <1>4 DEF Begins, Leads, Body, FrameStates, ConfigStates, CmdStates
<1>20. t # 0
  BY <1>1, <1>2, <1>5
<1>40. spi'.write_line = NoWrite
  BY <1>4 DEF Drives
<1>6. Begins(m, t)'
  BY <1>2, <1>4, <1>20, <1>5 DEF Begins, FrameStates, ConfigStates, CmdStates
<1>7. Leads(m, t)'
  BY <1>2, <1>4, <1>20, <1>5 DEF Leads
<1>8. Body(m, t)'
  BY <1>1, <1>2, <1>4, <1>20, <1>5, OddZero DEF Body
<1>9. Drives' /\ spi'.state \in {0, 3} \cup FrameStates \cup ConfigStates \cup CmdStates
  BY <1>4, <1>40 DEF Drives, NoWrite, TxWrite, CfgWrite, SingleWrite,
     FrameStates, ConfigStates, CmdStates
<1>10. QED
  BY <1>2, <1>6, <1>7, <1>8, <1>9 DEF SpiAt

(* the first byte of a word, the last of the message,                       *)
LEMMA FirstHalfLastAt ==
  ASSUME SpiType, NEW m, IsMessage(m), NEW t, SpiAt(m, t), Drives, FirstHalf,
         spi.Count + 1 >= spi.Len
  PROVE  SpiAt(m, t)' /\ Drives'
<1>1. SpiShape /\ spi.state \in Nat /\ spi.Count \in Nat /\ spi.Len \in Nat
  BY DEF SpiType, SpiPlain
<1> DEFINE L == Len(m.body)
<1>2. /\ L \in Nat /\ L > 0 /\ Lead(m) \in Nat /\ WireLen(m) = L + Lead(m) /\ t \in Nat
      /\ t <= WireLen(m) /\ Lead(m) \in {2, 3}
      /\ Lead(m) = IF m.msg = "config" THEN 3 ELSE 2
  BY MessageFacts, LeadFacts DEF SpiAt
<1>3. Begins(m, t) /\ Leads(m, t) /\ Body(m, t)
  BY DEF SpiAt
<1>11. CASE spi.state = 13
  <2>1. /\ spi'.state = AfterWord[spi.state] /\ ~spi.Byte_flag /\ spi'.Byte_flag = FALSE
        /\ spi'.Count = spi.Count + 1 /\ spi'.Len = spi.Len
        /\ spi'.write_line = spi.write_line
    BY <1>1, FirstHalfLastSets
  <2>4. /\ spi.state = 13 /\ spi'.state = 14 /\ ~spi.Byte_flag /\ spi'.Byte_flag = FALSE
        /\ spi'.Count = spi.Count + 1 /\ spi'.Len = spi.Len
        /\ spi'.write_line = spi.write_line
    BY <1>1, <1>11, <2>1, AfterWordIs
  <2>5. /\ m.msg = "frame"
        /\ t = spi.Count + Lead(m) + 1
        /\ spi.Len = L
        /\ spi.Count < L
        /\ (~Odd(spi.Count) <=> spi.Byte_flag)
    BY <1>1, <1>2, <1>3, <2>4 DEF Begins, Leads, Body, FrameStates, ConfigStates, CmdStates
  <2>20. t # 0
    BY <1>1, <1>2, <2>5
  <2>11. spi.Len = L /\ spi.Count < L
    BY <2>5
  <2>12. spi'.Count = L
    BY <1>1, <1>2, <2>4, <2>11
  <2>3. spi'.write_line = NoWrite
    BY <2>4 DEF Drives
  <2>6. Begins(m, t)'
    BY <1>2, <2>4, <2>20, <2>5, <2>11, <2>12 DEF Begins, FrameStates, ConfigStates,
       CmdStates
  <2>7. Leads(m, t)'
    BY <1>2, <2>4, <2>20, <2>5, <2>11, <2>12 DEF Leads
  <2>8. Body(m, t)'
    BY <1>1, <1>2, <2>4, <2>20, <2>5, <2>11, <2>12, OddZero DEF Body
  <2>9. Drives' /\ spi'.state \in {0, 3} \cup FrameStates \cup ConfigStates \cup CmdStates
    BY <2>4, <2>3 DEF Drives, NoWrite, TxWrite, CfgWrite, SingleWrite,
       FrameStates, ConfigStates, CmdStates
  <2>10. QED
    BY <1>2, <2>6, <2>7, <2>8, <2>9 DEF SpiAt
<1>12. CASE spi.state = 35
  <2>1. /\ spi'.state = AfterWord[spi.state] /\ ~spi.Byte_flag /\ spi'.Byte_flag = FALSE
        /\ spi'.Count = spi.Count + 1 /\ spi'.Len = spi.Len
        /\ spi'.write_line = spi.write_line
    BY <1>1, FirstHalfLastSets
  <2>4. /\ spi.state = 35 /\ spi'.state = 36 /\ ~spi.Byte_flag /\ spi'.Byte_flag = FALSE
        /\ spi'.Count = spi.Count + 1 /\ spi'.Len = spi.Len
        /\ spi'.write_line = spi.write_line
    BY <1>1, <1>12, <2>1, AfterWordIs
  <2>5. /\ m.msg = "config"
        /\ t = spi.Count + Lead(m) + 1
        /\ spi.Len = L
        /\ spi.Count < L
        /\ (Odd(spi.Count) <=> spi.Byte_flag)
    BY <1>1, <1>2, <1>3, <2>4 DEF Begins, Leads, Body, FrameStates, ConfigStates, CmdStates
  <2>20. t # 0
    BY <1>1, <1>2, <2>5
  <2>11. spi.Len = L /\ spi.Count < L
    BY <2>5
  <2>12. spi'.Count = L
    BY <1>1, <1>2, <2>4, <2>11
  <2>3. spi'.write_line = NoWrite
    BY <2>4 DEF Drives
  <2>6. Begins(m, t)'
    BY <1>2, <2>4, <2>20, <2>5, <2>11, <2>12 DEF Begins, FrameStates, ConfigStates,
       CmdStates
  <2>7. Leads(m, t)'
    BY <1>2, <2>4, <2>20, <2>5, <2>11, <2>12 DEF Leads
  <2>8. Body(m, t)'
    BY <1>1, <1>2, <2>4, <2>20, <2>5, <2>11, <2>12, OddZero DEF Body
  <2>9. Drives' /\ spi'.state \in {0, 3} \cup FrameStates \cup ConfigStates \cup CmdStates
    BY <2>4, <2>3 DEF Drives, NoWrite, TxWrite, CfgWrite, SingleWrite,
       FrameStates, ConfigStates, CmdStates
  <2>10. QED
    BY <1>2, <2>6, <2>7, <2>8, <2>9 DEF SpiAt
<1>13. CASE spi.state = 49
  <2>1. /\ spi'.state = AfterWord[spi.state] /\ ~spi.Byte_flag /\ spi'.Byte_flag = FALSE
        /\ spi'.Count = spi.Count + 1 /\ spi'.Len = spi.Len
        /\ spi'.write_line = spi.write_line
    BY <1>1, FirstHalfLastSets
  <2>4. /\ spi.state = 49 /\ spi'.state = 50 /\ ~spi.Byte_flag /\ spi'.Byte_flag = FALSE
        /\ spi'.Count = spi.Count + 1 /\ spi'.Len = spi.Len
        /\ spi'.write_line = spi.write_line
    BY <1>1, <1>13, <2>1, AfterWordIs
  <2>5. /\ m.msg = "cmd"
        /\ t = spi.Count + Lead(m) + 1
        /\ spi.Len = L
        /\ spi.Count < L
        /\ (Odd(spi.Count) <=> spi.Byte_flag)
    BY <1>1, <1>2, <1>3, <2>4 DEF Begins, Leads, Body, FrameStates, ConfigStates, CmdStates
  <2>20. t # 0
    BY <1>1, <1>2, <2>5
  <2>11. spi.Len = L /\ spi.Count < L
    BY <2>5
  <2>12. spi'.Count = L
    BY <1>1, <1>2, <2>4, <2>11
  <2>3. spi'.write_line = NoWrite
    BY <2>4 DEF Drives
  <2>6. Begins(m, t)'
    BY <1>2, <2>4, <2>20, <2>5, <2>11, <2>12 DEF Begins, FrameStates, ConfigStates,
       CmdStates
  <2>7. Leads(m, t)'
    BY <1>2, <2>4, <2>20, <2>5, <2>11, <2>12 DEF Leads
  <2>8. Body(m, t)'
    BY <1>1, <1>2, <2>4, <2>20, <2>5, <2>11, <2>12, OddZero DEF Body
  <2>9. Drives' /\ spi'.state \in {0, 3} \cup FrameStates \cup ConfigStates \cup CmdStates
    BY <2>4, <2>3 DEF Drives, NoWrite, TxWrite, CfgWrite, SingleWrite,
       FrameStates, ConfigStates, CmdStates
  <2>10. QED
    BY <1>2, <2>6, <2>7, <2>8, <2>9 DEF SpiAt
<1>14. QED
  BY <1>1, FirstHalfLastSets, AfterWordIs, <1>11, <1>12, <1>13

(* or not the last,                                                         *)
LEMMA FirstHalfMoreAt ==
  ASSUME SpiType, NEW m, IsMessage(m), NEW t, SpiAt(m, t), Drives, FirstHalf,
         ~(spi.Count + 1 >= spi.Len)
  PROVE  SpiAt(m, t)' /\ Drives'
<1>1. SpiShape /\ spi.state \in Nat /\ spi.Count \in Nat /\ spi.Len \in Nat
  BY DEF SpiType, SpiPlain
<1> DEFINE L == Len(m.body)
<1>2. /\ L \in Nat /\ L > 0 /\ Lead(m) \in Nat /\ WireLen(m) = L + Lead(m) /\ t \in Nat
      /\ t <= WireLen(m) /\ Lead(m) \in {2, 3}
      /\ Lead(m) = IF m.msg = "config" THEN 3 ELSE 2
  BY MessageFacts, LeadFacts DEF SpiAt
<1>3. Begins(m, t) /\ Leads(m, t) /\ Body(m, t)
  BY DEF SpiAt
<1>11. CASE spi.state = 13
  <2>1. /\ spi'.state = NextByte[spi.state] /\ ~spi.Byte_flag /\ spi'.Byte_flag = TRUE
        /\ spi'.Count = spi.Count + 1 /\ spi'.Len = spi.Len
        /\ spi'.write_line = spi.write_line
    BY <1>1, FirstHalfMoreSets
  <2>4. /\ spi.state = 13 /\ spi'.state = 11 /\ ~spi.Byte_flag /\ spi'.Byte_flag = TRUE
        /\ spi'.Count = spi.Count + 1 /\ spi'.Len = spi.Len
        /\ spi'.write_line = spi.write_line
    BY <1>1, <1>11, <2>1, AfterWordIs
  <2>5. /\ m.msg = "frame"
        /\ t = spi.Count + Lead(m) + 1
        /\ spi.Len = L
        /\ spi.Count < L
        /\ (~Odd(spi.Count) <=> spi.Byte_flag)
    BY <1>1, <1>2, <1>3, <2>4 DEF Begins, Leads, Body, FrameStates, ConfigStates, CmdStates
  <2>20. t # 0
    BY <1>1, <1>2, <2>5
  <2>11. spi.Len = L /\ spi.Count \in Nat /\ spi.Count + 1 < L
    BY <1>1, <1>2, <2>4, <2>5
  <2>12. Odd(spi'.Count) <=> ~Odd(spi.Count)
    BY <1>1, <2>4, OddNext
  <2>13. spi'.Byte_flag /\ ~Odd(spi'.Count)
    BY <2>4, <2>5, <2>12
  <2>3. spi'.write_line = NoWrite
    BY <2>4 DEF Drives
  <2>6. Begins(m, t)'
    BY <1>2, <2>4, <2>20, <2>5, <2>11, <2>12, <2>13 DEF Begins, FrameStates, ConfigStates,
       CmdStates
  <2>7. Leads(m, t)'
    BY <1>2, <2>4, <2>20, <2>5, <2>11, <2>12, <2>13 DEF Leads
  <2>8. Body(m, t)'
    BY <1>1, <1>2, <2>4, <2>20, <2>5, <2>11, <2>12, <2>13, OddZero DEF Body
  <2>9. Drives' /\ spi'.state \in {0, 3} \cup FrameStates \cup ConfigStates \cup CmdStates
    BY <2>4, <2>3 DEF Drives, NoWrite, TxWrite, CfgWrite, SingleWrite,
       FrameStates, ConfigStates, CmdStates
  <2>10. QED
    BY <1>2, <2>6, <2>7, <2>8, <2>9 DEF SpiAt
<1>12. CASE spi.state = 35
  <2>1. /\ spi'.state = NextByte[spi.state] /\ ~spi.Byte_flag /\ spi'.Byte_flag = TRUE
        /\ spi'.Count = spi.Count + 1 /\ spi'.Len = spi.Len
        /\ spi'.write_line = spi.write_line
    BY <1>1, FirstHalfMoreSets
  <2>4. /\ spi.state = 35 /\ spi'.state = 34 /\ ~spi.Byte_flag /\ spi'.Byte_flag = TRUE
        /\ spi'.Count = spi.Count + 1 /\ spi'.Len = spi.Len
        /\ spi'.write_line = spi.write_line
    BY <1>1, <1>12, <2>1, AfterWordIs
  <2>5. /\ m.msg = "config"
        /\ t = spi.Count + Lead(m) + 1
        /\ spi.Len = L
        /\ spi.Count < L
        /\ (Odd(spi.Count) <=> spi.Byte_flag)
    BY <1>1, <1>2, <1>3, <2>4 DEF Begins, Leads, Body, FrameStates, ConfigStates, CmdStates
  <2>20. t # 0
    BY <1>1, <1>2, <2>5
  <2>11. spi.Len = L /\ spi.Count \in Nat /\ spi.Count + 1 < L
    BY <1>1, <1>2, <2>4, <2>5
  <2>12. Odd(spi'.Count) <=> ~Odd(spi.Count)
    BY <1>1, <2>4, OddNext
  <2>13. spi'.Byte_flag /\ Odd(spi'.Count)
    BY <2>4, <2>5, <2>12
  <2>3. spi'.write_line = NoWrite
    BY <2>4 DEF Drives
  <2>6. Begins(m, t)'
    BY <1>2, <2>4, <2>20, <2>5, <2>11, <2>12, <2>13 DEF Begins, FrameStates, ConfigStates,
       CmdStates
  <2>7. Leads(m, t)'
    BY <1>2, <2>4, <2>20, <2>5, <2>11, <2>12, <2>13 DEF Leads
  <2>8. Body(m, t)'
    BY <1>1, <1>2, <2>4, <2>20, <2>5, <2>11, <2>12, <2>13, OddZero DEF Body
  <2>9. Drives' /\ spi'.state \in {0, 3} \cup FrameStates \cup ConfigStates \cup CmdStates
    BY <2>4, <2>3 DEF Drives, NoWrite, TxWrite, CfgWrite, SingleWrite,
       FrameStates, ConfigStates, CmdStates
  <2>10. QED
    BY <1>2, <2>6, <2>7, <2>8, <2>9 DEF SpiAt
<1>13. CASE spi.state = 49
  <2>1. /\ spi'.state = NextByte[spi.state] /\ ~spi.Byte_flag /\ spi'.Byte_flag = TRUE
        /\ spi'.Count = spi.Count + 1 /\ spi'.Len = spi.Len
        /\ spi'.write_line = spi.write_line
    BY <1>1, FirstHalfMoreSets
  <2>4. /\ spi.state = 49 /\ spi'.state = 48 /\ ~spi.Byte_flag /\ spi'.Byte_flag = TRUE
        /\ spi'.Count = spi.Count + 1 /\ spi'.Len = spi.Len
        /\ spi'.write_line = spi.write_line
    BY <1>1, <1>13, <2>1, AfterWordIs
  <2>5. /\ m.msg = "cmd"
        /\ t = spi.Count + Lead(m) + 1
        /\ spi.Len = L
        /\ spi.Count < L
        /\ (Odd(spi.Count) <=> spi.Byte_flag)
    BY <1>1, <1>2, <1>3, <2>4 DEF Begins, Leads, Body, FrameStates, ConfigStates, CmdStates
  <2>20. t # 0
    BY <1>1, <1>2, <2>5
  <2>11. spi.Len = L /\ spi.Count \in Nat /\ spi.Count + 1 < L
    BY <1>1, <1>2, <2>4, <2>5
  <2>12. Odd(spi'.Count) <=> ~Odd(spi.Count)
    BY <1>1, <2>4, OddNext
  <2>13. spi'.Byte_flag /\ Odd(spi'.Count)
    BY <2>4, <2>5, <2>12
  <2>3. spi'.write_line = NoWrite
    BY <2>4 DEF Drives
  <2>6. Begins(m, t)'
    BY <1>2, <2>4, <2>20, <2>5, <2>11, <2>12, <2>13 DEF Begins, FrameStates, ConfigStates,
       CmdStates
  <2>7. Leads(m, t)'
    BY <1>2, <2>4, <2>20, <2>5, <2>11, <2>12, <2>13 DEF Leads
  <2>8. Body(m, t)'
    BY <1>1, <1>2, <2>4, <2>20, <2>5, <2>11, <2>12, <2>13, OddZero DEF Body
  <2>9. Drives' /\ spi'.state \in {0, 3} \cup FrameStates \cup ConfigStates \cup CmdStates
    BY <2>4, <2>3 DEF Drives, NoWrite, TxWrite, CfgWrite, SingleWrite,
       FrameStates, ConfigStates, CmdStates
  <2>10. QED
    BY <1>2, <2>6, <2>7, <2>8, <2>9 DEF SpiAt
<1>14. QED
  BY <1>1, FirstHalfMoreSets, AfterWordIs, <1>11, <1>12, <1>13

(* the second byte of a word,                                               *)
LEMMA SecondHalfAt ==
  ASSUME SpiType, NEW m, IsMessage(m), NEW t, SpiAt(m, t), Drives, SecondHalf
  PROVE  SpiAt(m, t)' /\ Drives'
<1>1. SpiShape /\ spi.state \in Nat /\ spi.Count \in Nat /\ spi.Len \in Nat
  BY DEF SpiType, SpiPlain
<1> DEFINE L == Len(m.body)
<1>2. /\ L \in Nat /\ L > 0 /\ Lead(m) \in Nat /\ WireLen(m) = L + Lead(m) /\ t \in Nat
      /\ t <= WireLen(m) /\ Lead(m) \in {2, 3}
      /\ Lead(m) = IF m.msg = "config" THEN 3 ELSE 2
  BY MessageFacts, LeadFacts DEF SpiAt
<1>3. Begins(m, t) /\ Leads(m, t) /\ Body(m, t)
  BY DEF SpiAt
<1>11. CASE spi.state = 13
  <2>1. /\ spi'.state = AfterWord[spi.state] /\ spi.Byte_flag /\ spi'.Byte_flag = FALSE
        /\ spi'.Count = spi.Count + 1 /\ spi'.Len = spi.Len
        /\ spi'.write_line = spi.write_line
    BY <1>1, SecondHalfSets
  <2>4. /\ spi.state = 13 /\ spi'.state = 14 /\ spi.Byte_flag /\ spi'.Byte_flag = FALSE
        /\ spi'.Count = spi.Count + 1 /\ spi'.Len = spi.Len
        /\ spi'.write_line = spi.write_line
    BY <1>1, <1>11, <2>1, AfterWordIs
  <2>5. /\ m.msg = "frame"
        /\ t = spi.Count + Lead(m) + 1
        /\ spi.Len = L
        /\ spi.Count < L
        /\ (~Odd(spi.Count) <=> spi.Byte_flag)
    BY <1>1, <1>2, <1>3, <2>4 DEF Begins, Leads, Body, FrameStates, ConfigStates, CmdStates
  <2>20. t # 0
    BY <1>1, <1>2, <2>5
  <2>11. spi.Len = L /\ spi.Count \in Nat /\ spi.Count + 1 <= L
    BY <1>1, <1>2, <2>4, <2>5
  <2>12. Odd(spi'.Count) <=> ~Odd(spi.Count)
    BY <1>1, <2>4, OddNext
  <2>13. Odd(spi'.Count) /\ spi'.Count > 0 /\ spi'.Count <= L
    BY <1>1, <2>4, <2>5, <2>11, <2>12
  <2>3. spi'.write_line = NoWrite
    BY <2>4 DEF Drives
  <2>6. Begins(m, t)'
    BY <1>2, <2>4, <2>20, <2>5, <2>11, <2>12, <2>13 DEF Begins, FrameStates, ConfigStates,
       CmdStates
  <2>7. Leads(m, t)'
    BY <1>2, <2>4, <2>20, <2>5, <2>11, <2>12, <2>13 DEF Leads
  <2>8. Body(m, t)'
    BY <1>1, <1>2, <2>4, <2>20, <2>5, <2>11, <2>12, <2>13, OddZero DEF Body
  <2>9. Drives' /\ spi'.state \in {0, 3} \cup FrameStates \cup ConfigStates \cup CmdStates
    BY <2>4, <2>3 DEF Drives, NoWrite, TxWrite, CfgWrite, SingleWrite,
       FrameStates, ConfigStates, CmdStates
  <2>10. QED
    BY <1>2, <2>6, <2>7, <2>8, <2>9 DEF SpiAt
<1>12. CASE spi.state = 35
  <2>1. /\ spi'.state = AfterWord[spi.state] /\ spi.Byte_flag /\ spi'.Byte_flag = FALSE
        /\ spi'.Count = spi.Count + 1 /\ spi'.Len = spi.Len
        /\ spi'.write_line = spi.write_line
    BY <1>1, SecondHalfSets
  <2>4. /\ spi.state = 35 /\ spi'.state = 36 /\ spi.Byte_flag /\ spi'.Byte_flag = FALSE
        /\ spi'.Count = spi.Count + 1 /\ spi'.Len = spi.Len
        /\ spi'.write_line = spi.write_line
    BY <1>1, <1>12, <2>1, AfterWordIs
  <2>5. /\ m.msg = "config"
        /\ t = spi.Count + Lead(m) + 1
        /\ spi.Len = L
        /\ spi.Count < L
        /\ (Odd(spi.Count) <=> spi.Byte_flag)
    BY <1>1, <1>2, <1>3, <2>4 DEF Begins, Leads, Body, FrameStates, ConfigStates, CmdStates
  <2>20. t # 0
    BY <1>1, <1>2, <2>5
  <2>11. spi.Len = L /\ spi.Count \in Nat /\ spi.Count + 1 <= L
    BY <1>1, <1>2, <2>4, <2>5
  <2>12. Odd(spi'.Count) <=> ~Odd(spi.Count)
    BY <1>1, <2>4, OddNext
  <2>13. ~Odd(spi'.Count) /\ spi'.Count > 0 /\ spi'.Count <= L
    BY <1>1, <2>4, <2>5, <2>11, <2>12
  <2>3. spi'.write_line = NoWrite
    BY <2>4 DEF Drives
  <2>6. Begins(m, t)'
    BY <1>2, <2>4, <2>20, <2>5, <2>11, <2>12, <2>13 DEF Begins, FrameStates, ConfigStates,
       CmdStates
  <2>7. Leads(m, t)'
    BY <1>2, <2>4, <2>20, <2>5, <2>11, <2>12, <2>13 DEF Leads
  <2>8. Body(m, t)'
    BY <1>1, <1>2, <2>4, <2>20, <2>5, <2>11, <2>12, <2>13, OddZero DEF Body
  <2>9. Drives' /\ spi'.state \in {0, 3} \cup FrameStates \cup ConfigStates \cup CmdStates
    BY <2>4, <2>3 DEF Drives, NoWrite, TxWrite, CfgWrite, SingleWrite,
       FrameStates, ConfigStates, CmdStates
  <2>10. QED
    BY <1>2, <2>6, <2>7, <2>8, <2>9 DEF SpiAt
<1>13. CASE spi.state = 49
  <2>1. /\ spi'.state = AfterWord[spi.state] /\ spi.Byte_flag /\ spi'.Byte_flag = FALSE
        /\ spi'.Count = spi.Count + 1 /\ spi'.Len = spi.Len
        /\ spi'.write_line = spi.write_line
    BY <1>1, SecondHalfSets
  <2>4. /\ spi.state = 49 /\ spi'.state = 50 /\ spi.Byte_flag /\ spi'.Byte_flag = FALSE
        /\ spi'.Count = spi.Count + 1 /\ spi'.Len = spi.Len
        /\ spi'.write_line = spi.write_line
    BY <1>1, <1>13, <2>1, AfterWordIs
  <2>5. /\ m.msg = "cmd"
        /\ t = spi.Count + Lead(m) + 1
        /\ spi.Len = L
        /\ spi.Count < L
        /\ (Odd(spi.Count) <=> spi.Byte_flag)
    BY <1>1, <1>2, <1>3, <2>4 DEF Begins, Leads, Body, FrameStates, ConfigStates, CmdStates
  <2>20. t # 0
    BY <1>1, <1>2, <2>5
  <2>11. spi.Len = L /\ spi.Count \in Nat /\ spi.Count + 1 <= L
    BY <1>1, <1>2, <2>4, <2>5
  <2>12. Odd(spi'.Count) <=> ~Odd(spi.Count)
    BY <1>1, <2>4, OddNext
  <2>13. ~Odd(spi'.Count) /\ spi'.Count > 0 /\ spi'.Count <= L
    BY <1>1, <2>4, <2>5, <2>11, <2>12
  <2>3. spi'.write_line = NoWrite
    BY <2>4 DEF Drives
  <2>6. Begins(m, t)'
    BY <1>2, <2>4, <2>20, <2>5, <2>11, <2>12, <2>13 DEF Begins, FrameStates, ConfigStates,
       CmdStates
  <2>7. Leads(m, t)'
    BY <1>2, <2>4, <2>20, <2>5, <2>11, <2>12, <2>13 DEF Leads
  <2>8. Body(m, t)'
    BY <1>1, <1>2, <2>4, <2>20, <2>5, <2>11, <2>12, <2>13, OddZero DEF Body
  <2>9. Drives' /\ spi'.state \in {0, 3} \cup FrameStates \cup ConfigStates \cup CmdStates
    BY <2>4, <2>3 DEF Drives, NoWrite, TxWrite, CfgWrite, SingleWrite,
       FrameStates, ConfigStates, CmdStates
  <2>10. QED
    BY <1>2, <2>6, <2>7, <2>8, <2>9 DEF SpiAt
<1>14. QED
  BY <1>1, SecondHalfSets, AfterWordIs, <1>11, <1>12, <1>13

(* the words of a frame raised: its length                                  *)
LEMMA RaiseSendLengthAt ==
  ASSUME SpiType, NEW m, IsMessage(m), NEW t, SpiAt(m, t), Drives, NEW full,
         RaiseSend(full), spi.state = 9
  PROVE  SpiAt(m, t)' /\ Drives'
<1>1. SpiShape /\ spi.state \in Nat /\ spi.Count \in Nat /\ spi.Len \in Nat
  BY DEF SpiType, SpiPlain
<1> DEFINE L == Len(m.body)
<1>2. /\ L \in Nat /\ L > 0 /\ Lead(m) \in Nat /\ WireLen(m) = L + Lead(m) /\ t \in Nat
      /\ t <= WireLen(m) /\ Lead(m) \in {2, 3}
      /\ Lead(m) = IF m.msg = "config" THEN 3 ELSE 2
  BY MessageFacts, LeadFacts DEF SpiAt
<1>3. Begins(m, t) /\ Leads(m, t) /\ Body(m, t)
  BY DEF SpiAt
<1>4. /\ spi.state = 9 /\ spi'.state = 10 /\ spi'.write_line = TxWrite
      /\ spi'.Count = spi.Count /\ spi'.Byte_flag = spi.Byte_flag /\ spi'.Len = spi.Len
  BY <1>1, RaiseSendLengthSets
<1>5. m.msg = "frame" /\ t = Lead(m) /\ spi.Len = L /\ spi.Count = 0 /\ ~spi.Byte_flag
  BY <1>1, <1>2, <1>3, <1>4 DEF Begins, Leads, Body, FrameStates, ConfigStates, CmdStates
<1>20. t # 0
  BY <1>1, <1>2, <1>5
<1>6. Begins(m, t)'
  BY <1>2, <1>4, <1>20, <1>5 DEF Begins, FrameStates, ConfigStates, CmdStates
<1>7. Leads(m, t)'
  BY <1>2, <1>4, <1>20, <1>5 DEF Leads
<1>8. Body(m, t)'
  BY <1>1, <1>2, <1>4, <1>20, <1>5, OddZero DEF Body
<1>9. Drives' /\ spi'.state \in {0, 3} \cup FrameStates \cup ConfigStates \cup CmdStates
  BY <1>4 DEF Drives, NoWrite, TxWrite, CfgWrite, SingleWrite,
     FrameStates, ConfigStates, CmdStates
<1>10. QED
  BY <1>2, <1>6, <1>7, <1>8, <1>9 DEF SpiAt

(* and the others,                                                          *)
LEMMA RaiseSendWordAt ==
  ASSUME SpiType, NEW m, IsMessage(m), NEW t, SpiAt(m, t), Drives, NEW full,
         RaiseSend(full), spi.state # 9
  PROVE  SpiAt(m, t)' /\ Drives'
<1>1. SpiShape /\ spi.state \in Nat /\ spi.Count \in Nat /\ spi.Len \in Nat
  BY DEF SpiType, SpiPlain
<1> DEFINE L == Len(m.body)
<1>2. /\ L \in Nat /\ L > 0 /\ Lead(m) \in Nat /\ WireLen(m) = L + Lead(m) /\ t \in Nat
      /\ t <= WireLen(m) /\ Lead(m) \in {2, 3}
      /\ Lead(m) = IF m.msg = "config" THEN 3 ELSE 2
  BY MessageFacts, LeadFacts DEF SpiAt
<1>3. Begins(m, t) /\ Leads(m, t) /\ Body(m, t)
  BY DEF SpiAt
<1>10. spi.state \in {7, 14}
  BY DEF RaiseSend
<1>11. CASE spi.state = 7
  <2>4. /\ spi.state = 7 /\ spi'.state = 8 /\ spi'.write_line = TxWrite
        /\ spi'.Count = spi.Count /\ spi'.Byte_flag = spi.Byte_flag /\ spi'.Len = spi.Len
    BY <1>1, <1>11, RaiseSendWordSets
  <2>5. m.msg = "frame" /\ t = Lead(m) /\ spi.Len = L /\ spi.Count = 0 /\ ~spi.Byte_flag
    BY <1>1, <1>2, <1>3, <2>4 DEF Begins, Leads, Body, FrameStates, ConfigStates, CmdStates
  <2>20. t # 0
    BY <1>1, <1>2, <2>5
  <2>6. Begins(m, t)'
    BY <1>2, <2>4, <2>20, <2>5 DEF Begins, FrameStates, ConfigStates, CmdStates
  <2>7. Leads(m, t)'
    BY <1>2, <2>4, <2>20, <2>5 DEF Leads
  <2>8. Body(m, t)'
    BY <1>1, <1>2, <2>4, <2>20, <2>5, OddZero DEF Body
  <2>9. Drives' /\ spi'.state \in {0, 3} \cup FrameStates \cup ConfigStates \cup CmdStates
    BY <2>4 DEF Drives, NoWrite, TxWrite, CfgWrite, SingleWrite,
       FrameStates, ConfigStates, CmdStates
  <2>10. QED
    BY <1>2, <2>6, <2>7, <2>8, <2>9 DEF SpiAt
<1>12. CASE spi.state = 14
  <2>4. /\ spi.state = 14 /\ spi'.state = 15 /\ spi'.write_line = TxWrite
        /\ spi'.Count = spi.Count /\ spi'.Byte_flag = spi.Byte_flag /\ spi'.Len = spi.Len
    BY <1>1, <1>12, RaiseSendWordSets
  <2>5. /\ m.msg = "frame"
        /\ spi.Len = L
        /\ t = spi.Count + Lead(m)
        /\ ~spi.Byte_flag
        /\ spi.Count <= L
        /\ spi.Count > 0
        /\ (Odd(spi.Count) \/ spi.Count = L)
    BY <1>1, <1>2, <1>3, <2>4 DEF Begins, Leads, Body, FrameStates, ConfigStates, CmdStates
  <2>20. t # 0
    BY <1>1, <1>2, <2>5
  <2>6. Begins(m, t)'
    BY <1>2, <2>4, <2>20, <2>5 DEF Begins, FrameStates, ConfigStates, CmdStates
  <2>7. Leads(m, t)'
    BY <1>2, <2>4, <2>20, <2>5 DEF Leads
  <2>8. Body(m, t)'
    BY <1>1, <1>2, <2>4, <2>20, <2>5, OddZero DEF Body
  <2>9. Drives' /\ spi'.state \in {0, 3} \cup FrameStates \cup ConfigStates \cup CmdStates
    BY <2>4 DEF Drives, NoWrite, TxWrite, CfgWrite, SingleWrite,
       FrameStates, ConfigStates, CmdStates
  <2>10. QED
    BY <1>2, <2>6, <2>7, <2>8, <2>9 DEF SpiAt
<1>13. QED
  BY <1>10, <1>11, <1>12

(* those of a configuration: its length,                                    *)
LEMMA RaiseStoreCfgLenAt ==
  ASSUME SpiType, NEW m, IsMessage(m), NEW t, SpiAt(m, t), Drives, RaiseStore,
             spi.state = 32
  PROVE  SpiAt(m, t)' /\ Drives'
<1>1. SpiShape /\ spi.state \in Nat /\ spi.Count \in Nat /\ spi.Len \in Nat
  BY DEF SpiType, SpiPlain
<1> DEFINE L == Len(m.body)
<1>2. /\ L \in Nat /\ L > 0 /\ Lead(m) \in Nat /\ WireLen(m) = L + Lead(m) /\ t \in Nat
      /\ t <= WireLen(m) /\ Lead(m) \in {2, 3}
      /\ Lead(m) = IF m.msg = "config" THEN 3 ELSE 2
  BY MessageFacts, LeadFacts DEF SpiAt
<1>3. Begins(m, t) /\ Leads(m, t) /\ Body(m, t)
  BY DEF SpiAt
<1>4. /\ spi.state = 32 /\ spi'.state = 33 /\ spi'.write_line = CfgWrite
      /\ spi'.Count = spi.Count /\ spi'.Byte_flag = spi.Byte_flag /\ spi'.Len = spi.Len
  BY <1>1, RaiseStoreCfgLenSets
<1>5. m.msg = "config" /\ t = Lead(m) /\ spi.Len = L /\ spi.Count = 0 /\ ~spi.Byte_flag
  BY <1>1, <1>2, <1>3, <1>4 DEF Begins, Leads, Body, FrameStates, ConfigStates, CmdStates
<1>20. t # 0
  BY <1>1, <1>2, <1>5
<1>6. Begins(m, t)'
  BY <1>2, <1>4, <1>20, <1>5 DEF Begins, FrameStates, ConfigStates, CmdStates
<1>7. Leads(m, t)'
  BY <1>2, <1>4, <1>20, <1>5 DEF Leads
<1>8. Body(m, t)'
  BY <1>1, <1>2, <1>4, <1>20, <1>5, OddZero DEF Body
<1>9. Drives' /\ spi'.state \in {0, 3} \cup FrameStates \cup ConfigStates \cup CmdStates
  BY <1>4 DEF Drives, NoWrite, TxWrite, CfgWrite, SingleWrite,
     FrameStates, ConfigStates, CmdStates
<1>10. QED
  BY <1>2, <1>6, <1>7, <1>8, <1>9 DEF SpiAt

(* the length of a command,                                                 *)
LEMMA RaiseStoreCmdLenAt ==
  ASSUME SpiType, NEW m, IsMessage(m), NEW t, SpiAt(m, t), Drives, RaiseStore,
             spi.state = 46
  PROVE  SpiAt(m, t)' /\ Drives'
<1>1. SpiShape /\ spi.state \in Nat /\ spi.Count \in Nat /\ spi.Len \in Nat
  BY DEF SpiType, SpiPlain
<1> DEFINE L == Len(m.body)
<1>2. /\ L \in Nat /\ L > 0 /\ Lead(m) \in Nat /\ WireLen(m) = L + Lead(m) /\ t \in Nat
      /\ t <= WireLen(m) /\ Lead(m) \in {2, 3}
      /\ Lead(m) = IF m.msg = "config" THEN 3 ELSE 2
  BY MessageFacts, LeadFacts DEF SpiAt
<1>3. Begins(m, t) /\ Leads(m, t) /\ Body(m, t)
  BY DEF SpiAt
<1>4. /\ spi.state = 46 /\ spi'.state = 47 /\ spi'.write_line = SingleWrite
      /\ spi'.Count = spi.Count /\ spi'.Byte_flag = spi.Byte_flag /\ spi'.Len = spi.Len
  BY <1>1, RaiseStoreCmdLenSets
<1>5. m.msg = "cmd" /\ t = Lead(m) /\ spi.Len = L /\ spi.Count = 0 /\ ~spi.Byte_flag
  BY <1>1, <1>2, <1>3, <1>4 DEF Begins, Leads, Body, FrameStates, ConfigStates, CmdStates
<1>20. t # 0
  BY <1>1, <1>2, <1>5
<1>6. Begins(m, t)'
  BY <1>2, <1>4, <1>20, <1>5 DEF Begins, FrameStates, ConfigStates, CmdStates
<1>7. Leads(m, t)'
  BY <1>2, <1>4, <1>20, <1>5 DEF Leads
<1>8. Body(m, t)'
  BY <1>1, <1>2, <1>4, <1>20, <1>5, OddZero DEF Body
<1>9. Drives' /\ spi'.state \in {0, 3} \cup FrameStates \cup ConfigStates \cup CmdStates
  BY <1>4 DEF Drives, NoWrite, TxWrite, CfgWrite, SingleWrite,
     FrameStates, ConfigStates, CmdStates
<1>10. QED
  BY <1>2, <1>6, <1>7, <1>8, <1>9 DEF SpiAt

(* the others of a configuration                                            *)
LEMMA RaiseStoreCfgAt ==
  ASSUME SpiType, NEW m, IsMessage(m), NEW t, SpiAt(m, t), Drives, RaiseStore,
             spi.state = 36
  PROVE  SpiAt(m, t)' /\ Drives'
<1>1. SpiShape /\ spi.state \in Nat /\ spi.Count \in Nat /\ spi.Len \in Nat
  BY DEF SpiType, SpiPlain
<1> DEFINE L == Len(m.body)
<1>2. /\ L \in Nat /\ L > 0 /\ Lead(m) \in Nat /\ WireLen(m) = L + Lead(m) /\ t \in Nat
      /\ t <= WireLen(m) /\ Lead(m) \in {2, 3}
      /\ Lead(m) = IF m.msg = "config" THEN 3 ELSE 2
  BY MessageFacts, LeadFacts DEF SpiAt
<1>3. Begins(m, t) /\ Leads(m, t) /\ Body(m, t)
  BY DEF SpiAt
<1>4. /\ spi.state = 36 /\ spi'.state = 37 /\ spi'.write_line = CfgWrite
      /\ spi'.Count = spi.Count /\ spi'.Byte_flag = spi.Byte_flag /\ spi'.Len = spi.Len
  BY <1>1, RaiseStoreCfgSets
<1>5. /\ m.msg = "config"
      /\ spi.Len = L
      /\ t = spi.Count + Lead(m)
      /\ ~spi.Byte_flag
      /\ spi.Count <= L
      /\ spi.Count > 0
      /\ (~Odd(spi.Count) \/ spi.Count = L)
  BY <1>1, <1>2, <1>3, <1>4 DEF Begins, Leads, Body, FrameStates, ConfigStates, CmdStates
<1>20. t # 0
  BY <1>1, <1>2, <1>5
<1>6. Begins(m, t)'
  BY <1>2, <1>4, <1>20, <1>5 DEF Begins, FrameStates, ConfigStates, CmdStates
<1>7. Leads(m, t)'
  BY <1>2, <1>4, <1>20, <1>5 DEF Leads
<1>8. Body(m, t)'
  BY <1>1, <1>2, <1>4, <1>20, <1>5, OddZero DEF Body
<1>9. Drives' /\ spi'.state \in {0, 3} \cup FrameStates \cup ConfigStates \cup CmdStates
  BY <1>4 DEF Drives, NoWrite, TxWrite, CfgWrite, SingleWrite,
     FrameStates, ConfigStates, CmdStates
<1>10. QED
  BY <1>2, <1>6, <1>7, <1>8, <1>9 DEF SpiAt

(* and of a command,                                                        *)
LEMMA RaiseStoreCmdAt ==
  ASSUME SpiType, NEW m, IsMessage(m), NEW t, SpiAt(m, t), Drives, RaiseStore,
             spi.state = 50
  PROVE  SpiAt(m, t)' /\ Drives'
<1>1. SpiShape /\ spi.state \in Nat /\ spi.Count \in Nat /\ spi.Len \in Nat
  BY DEF SpiType, SpiPlain
<1> DEFINE L == Len(m.body)
<1>2. /\ L \in Nat /\ L > 0 /\ Lead(m) \in Nat /\ WireLen(m) = L + Lead(m) /\ t \in Nat
      /\ t <= WireLen(m) /\ Lead(m) \in {2, 3}
      /\ Lead(m) = IF m.msg = "config" THEN 3 ELSE 2
  BY MessageFacts, LeadFacts DEF SpiAt
<1>3. Begins(m, t) /\ Leads(m, t) /\ Body(m, t)
  BY DEF SpiAt
<1>4. /\ spi.state = 50 /\ spi'.state = 51 /\ spi'.write_line = SingleWrite
      /\ spi'.Count = spi.Count /\ spi'.Byte_flag = spi.Byte_flag /\ spi'.Len = spi.Len
  BY <1>1, RaiseStoreCmdSets
<1>5. /\ m.msg = "cmd"
      /\ spi.Len = L
      /\ t = spi.Count + Lead(m)
      /\ ~spi.Byte_flag
      /\ spi.Count <= L
      /\ spi.Count > 0
      /\ (~Odd(spi.Count) \/ spi.Count = L)
  BY <1>1, <1>2, <1>3, <1>4 DEF Begins, Leads, Body, FrameStates, ConfigStates, CmdStates
<1>20. t # 0
  BY <1>1, <1>2, <1>5
<1>6. Begins(m, t)'
  BY <1>2, <1>4, <1>20, <1>5 DEF Begins, FrameStates, ConfigStates, CmdStates
<1>7. Leads(m, t)'
  BY <1>2, <1>4, <1>20, <1>5 DEF Leads
<1>8. Body(m, t)'
  BY <1>1, <1>2, <1>4, <1>20, <1>5, OddZero DEF Body
<1>9. Drives' /\ spi'.state \in {0, 3} \cup FrameStates \cup ConfigStates \cup CmdStates
  BY <1>4 DEF Drives, NoWrite, TxWrite, CfgWrite, SingleWrite,
     FrameStates, ConfigStates, CmdStates
<1>10. QED
  BY <1>2, <1>6, <1>7, <1>8, <1>9 DEF SpiAt

(* the hint for the length of a frame                                       *)
LEMMA LowerLengthAt ==
  ASSUME SpiType, NEW m, IsMessage(m), NEW t, SpiAt(m, t), Drives, NEW hint,
         LowerWrite(hint), spi.state = 10
  PROVE  SpiAt(m, t)' /\ Drives'
<1>1. SpiShape /\ spi.state \in Nat /\ spi.Count \in Nat /\ spi.Len \in Nat
  BY DEF SpiType, SpiPlain
<1> DEFINE L == Len(m.body)
<1>2. /\ L \in Nat /\ L > 0 /\ Lead(m) \in Nat /\ WireLen(m) = L + Lead(m) /\ t \in Nat
      /\ t <= WireLen(m) /\ Lead(m) \in {2, 3}
      /\ Lead(m) = IF m.msg = "config" THEN 3 ELSE 2
  BY MessageFacts, LeadFacts DEF SpiAt
<1>3. Begins(m, t) /\ Leads(m, t) /\ Body(m, t)
  BY DEF SpiAt
<1>4. /\ spi.state = 10 /\ spi'.state = 11 /\ spi'.write_line = NoWrite
      /\ spi'.Count = spi.Count /\ spi'.Byte_flag = ~spi.Byte_flag /\ spi'.Len = spi.Len
  BY <1>1, LowerLengthSets
<1>5. m.msg = "frame" /\ t = Lead(m) /\ spi.Len = L /\ spi.Count = 0 /\ ~spi.Byte_flag
  BY <1>1, <1>2, <1>3, <1>4 DEF Begins, Leads, Body, FrameStates, ConfigStates, CmdStates
<1>20. t # 0
  BY <1>1, <1>2, <1>5
<1>11. spi'.Count = 0 /\ spi'.Byte_flag = TRUE
  BY <1>4, <1>5
<1>6. Begins(m, t)'
  BY <1>2, <1>4, <1>20, <1>5, <1>11 DEF Begins, FrameStates, ConfigStates, CmdStates
<1>7. Leads(m, t)'
  BY <1>2, <1>4, <1>20, <1>5, <1>11 DEF Leads
<1>8. Body(m, t)'
  BY <1>1, <1>2, <1>4, <1>20, <1>5, <1>11, OddZero DEF Body
<1>9. Drives' /\ spi'.state \in {0, 3} \cup FrameStates \cup ConfigStates \cup CmdStates
  BY <1>4 DEF Drives, NoWrite, TxWrite, CfgWrite, SingleWrite,
     FrameStates, ConfigStates, CmdStates
<1>10. QED
  BY <1>2, <1>6, <1>7, <1>8, <1>9 DEF SpiAt

(* and for any other word,                                                  *)
LEMMA LowerWordAt ==
  ASSUME SpiType, NEW m, IsMessage(m), NEW t, SpiAt(m, t), Drives, NEW hint,
         LowerWrite(hint), spi.state # 10
  PROVE  SpiAt(m, t)' /\ Drives'
<1>1. SpiShape /\ spi.state \in Nat /\ spi.Count \in Nat /\ spi.Len \in Nat
  BY DEF SpiType, SpiPlain
<1> DEFINE L == Len(m.body)
<1>2. /\ L \in Nat /\ L > 0 /\ Lead(m) \in Nat /\ WireLen(m) = L + Lead(m) /\ t \in Nat
      /\ t <= WireLen(m) /\ Lead(m) \in {2, 3}
      /\ Lead(m) = IF m.msg = "config" THEN 3 ELSE 2
  BY MessageFacts, LeadFacts DEF SpiAt
<1>3. Begins(m, t) /\ Leads(m, t) /\ Body(m, t)
  BY DEF SpiAt
<1>10. spi.state \in {8, 15, 33, 37, 47, 51}
  BY DEF LowerWrite
<1>11. CASE spi.state = 8
  <2>4. /\ spi.state = 8 /\ spi'.state = 9 /\ spi'.write_line = NoWrite
        /\ spi'.Count = spi.Count /\ spi'.Byte_flag = spi.Byte_flag /\ spi'.Len = spi.Len
    BY <1>1, <1>11, LowerWordSets, AfterHintSays
  <2>5. m.msg = "frame" /\ t = Lead(m) /\ spi.Len = L /\ spi.Count = 0 /\ ~spi.Byte_flag
    BY <1>1, <1>2, <1>3, <2>4 DEF Begins, Leads, Body, FrameStates, ConfigStates, CmdStates
  <2>20. t # 0
    BY <1>1, <1>2, <2>5
  <2>6. Begins(m, t)'
    BY <1>2, <2>4, <2>20, <2>5 DEF Begins, FrameStates, ConfigStates, CmdStates
  <2>7. Leads(m, t)'
    BY <1>2, <2>4, <2>20, <2>5 DEF Leads
  <2>8. Body(m, t)'
    BY <1>1, <1>2, <2>4, <2>20, <2>5, OddZero DEF Body
  <2>9. Drives' /\ spi'.state \in {0, 3} \cup FrameStates \cup ConfigStates \cup CmdStates
    BY <2>4 DEF Drives, NoWrite, TxWrite, CfgWrite, SingleWrite,
       FrameStates, ConfigStates, CmdStates
  <2>10. QED
    BY <1>2, <2>6, <2>7, <2>8, <2>9 DEF SpiAt
<1>12. CASE spi.state = 33
  <2>4. /\ spi.state = 33 /\ spi'.state = 34 /\ spi'.write_line = NoWrite
        /\ spi'.Count = spi.Count /\ spi'.Byte_flag = spi.Byte_flag /\ spi'.Len = spi.Len
    BY <1>1, <1>12, LowerWordSets, AfterHintSays
  <2>5. m.msg = "config" /\ t = Lead(m) /\ spi.Len = L /\ spi.Count = 0 /\ ~spi.Byte_flag
    BY <1>1, <1>2, <1>3, <2>4 DEF Begins, Leads, Body, FrameStates, ConfigStates, CmdStates
  <2>20. t # 0
    BY <1>1, <1>2, <2>5
  <2>6. Begins(m, t)'
    BY <1>2, <2>4, <2>20, <2>5 DEF Begins, FrameStates, ConfigStates, CmdStates
  <2>7. Leads(m, t)'
    BY <1>2, <2>4, <2>20, <2>5 DEF Leads
  <2>8. Body(m, t)'
    BY <1>1, <1>2, <2>4, <2>20, <2>5, OddZero DEF Body
  <2>9. Drives' /\ spi'.state \in {0, 3} \cup FrameStates \cup ConfigStates \cup CmdStates
    BY <2>4 DEF Drives, NoWrite, TxWrite, CfgWrite, SingleWrite,
       FrameStates, ConfigStates, CmdStates
  <2>10. QED
    BY <1>2, <2>6, <2>7, <2>8, <2>9 DEF SpiAt
<1>13. CASE spi.state = 47
  <2>4. /\ spi.state = 47 /\ spi'.state = 48 /\ spi'.write_line = NoWrite
        /\ spi'.Count = spi.Count /\ spi'.Byte_flag = spi.Byte_flag /\ spi'.Len = spi.Len
    BY <1>1, <1>13, LowerWordSets, AfterHintSays
  <2>5. m.msg = "cmd" /\ t = Lead(m) /\ spi.Len = L /\ spi.Count = 0 /\ ~spi.Byte_flag
    BY <1>1, <1>2, <1>3, <2>4 DEF Begins, Leads, Body, FrameStates, ConfigStates, CmdStates
  <2>20. t # 0
    BY <1>1, <1>2, <2>5
  <2>6. Begins(m, t)'
    BY <1>2, <2>4, <2>20, <2>5 DEF Begins, FrameStates, ConfigStates, CmdStates
  <2>7. Leads(m, t)'
    BY <1>2, <2>4, <2>20, <2>5 DEF Leads
  <2>8. Body(m, t)'
    BY <1>1, <1>2, <2>4, <2>20, <2>5, OddZero DEF Body
  <2>9. Drives' /\ spi'.state \in {0, 3} \cup FrameStates \cup ConfigStates \cup CmdStates
    BY <2>4 DEF Drives, NoWrite, TxWrite, CfgWrite, SingleWrite,
       FrameStates, ConfigStates, CmdStates
  <2>10. QED
    BY <1>2, <2>6, <2>7, <2>8, <2>9 DEF SpiAt
<1>14. CASE spi.state = 15 /\ spi.Count < spi.Len
  <2>4. /\ spi.state = 15 /\ spi'.state = 11 /\ spi'.write_line = NoWrite
        /\ spi'.Count = spi.Count /\ spi'.Byte_flag = spi.Byte_flag
        /\ spi'.Len = spi.Len /\ spi.Count < spi.Len
    BY <1>1, <1>14, LowerWordSets, AfterHintSays
  <2>5. /\ m.msg = "frame"
        /\ spi.Len = L
        /\ t = spi.Count + Lead(m)
        /\ ~spi.Byte_flag
        /\ spi.Count <= L
        /\ spi.Count > 0
        /\ (Odd(spi.Count) \/ spi.Count = L)
    BY <1>1, <1>2, <1>3, <2>4 DEF Begins, Leads, Body, FrameStates, ConfigStates, CmdStates
  <2>20. t # 0
    BY <1>1, <1>2, <2>5
  <2>6. Begins(m, t)'
    BY <1>2, <2>4, <2>20, <2>5 DEF Begins, FrameStates, ConfigStates, CmdStates
  <2>7. Leads(m, t)'
    BY <1>2, <2>4, <2>20, <2>5 DEF Leads
  <2>8. Body(m, t)'
    BY <1>1, <1>2, <2>4, <2>20, <2>5, OddZero DEF Body
  <2>9. Drives' /\ spi'.state \in {0, 3} \cup FrameStates \cup ConfigStates \cup CmdStates
    BY <2>4 DEF Drives, NoWrite, TxWrite, CfgWrite, SingleWrite,
       FrameStates, ConfigStates, CmdStates
  <2>10. QED
    BY <1>2, <2>6, <2>7, <2>8, <2>9 DEF SpiAt
<1>15. CASE spi.state = 15 /\ ~(spi.Count < spi.Len)
  <2>4. /\ spi.state = 15 /\ spi'.state = 0 /\ spi'.write_line = NoWrite
        /\ spi'.Count = spi.Count /\ spi'.Byte_flag = spi.Byte_flag
        /\ spi'.Len = spi.Len /\ ~(spi.Count < spi.Len)
    BY <1>1, <1>15, LowerWordSets, AfterHintSays
  <2>5. /\ m.msg = "frame"
        /\ spi.Len = L
        /\ t = spi.Count + Lead(m)
        /\ ~spi.Byte_flag
        /\ spi.Count <= L
        /\ spi.Count > 0
        /\ (Odd(spi.Count) \/ spi.Count = L)
    BY <1>1, <1>2, <1>3, <2>4 DEF Begins, Leads, Body, FrameStates, ConfigStates, CmdStates
  <2>20. t # 0
    BY <1>1, <1>2, <2>5
  <2>11. spi.Count = L
    BY <1>1, <1>2, <2>4, <2>5
  <2>12. t = WireLen(m)
    BY <1>2, <2>5, <2>11
  <2>13. spi'.state = 0 /\ m.msg = "frame"
    BY <2>4, <2>5
  <2>6. Begins(m, t)'
    BY <2>12, <2>13, <2>20 DEF Begins, FrameStates, ConfigStates, CmdStates
  <2>7. Leads(m, t)'
    BY <1>2, <2>4, <2>20, <2>5, <2>11, <2>12 DEF Leads
  <2>8. Body(m, t)'
    BY <2>12, <2>13 DEF Body
  <2>9. Drives' /\ spi'.state \in {0, 3} \cup FrameStates \cup ConfigStates \cup CmdStates
    BY <2>4 DEF Drives, NoWrite, TxWrite, CfgWrite, SingleWrite,
       FrameStates, ConfigStates, CmdStates
  <2>10. QED
    BY <1>2, <2>6, <2>7, <2>8, <2>9 DEF SpiAt
<1>16. CASE spi.state = 37 /\ spi.Count < spi.Len
  <2>4. /\ spi.state = 37 /\ spi'.state = 34 /\ spi'.write_line = NoWrite
        /\ spi'.Count = spi.Count /\ spi'.Byte_flag = spi.Byte_flag
        /\ spi'.Len = spi.Len /\ spi.Count < spi.Len
    BY <1>1, <1>16, LowerWordSets, AfterHintSays
  <2>5. /\ m.msg = "config"
        /\ spi.Len = L
        /\ t = spi.Count + Lead(m)
        /\ ~spi.Byte_flag
        /\ spi.Count <= L
        /\ spi.Count > 0
        /\ (~Odd(spi.Count) \/ spi.Count = L)
    BY <1>1, <1>2, <1>3, <2>4 DEF Begins, Leads, Body, FrameStates, ConfigStates, CmdStates
  <2>20. t # 0
    BY <1>1, <1>2, <2>5
  <2>6. Begins(m, t)'
    BY <1>2, <2>4, <2>20, <2>5 DEF Begins, FrameStates, ConfigStates, CmdStates
  <2>7. Leads(m, t)'
    BY <1>2, <2>4, <2>20, <2>5 DEF Leads
  <2>8. Body(m, t)'
    BY <1>1, <1>2, <2>4, <2>20, <2>5, OddZero DEF Body
  <2>9. Drives' /\ spi'.state \in {0, 3} \cup FrameStates \cup ConfigStates \cup CmdStates
    BY <2>4 DEF Drives, NoWrite, TxWrite, CfgWrite, SingleWrite,
       FrameStates, ConfigStates, CmdStates
  <2>10. QED
    BY <1>2, <2>6, <2>7, <2>8, <2>9 DEF SpiAt
<1>17. CASE spi.state = 37 /\ ~(spi.Count < spi.Len)
  <2>4. /\ spi.state = 37 /\ spi'.state = 38 /\ spi'.write_line = NoWrite
        /\ spi'.Count = spi.Count /\ spi'.Byte_flag = spi.Byte_flag
        /\ spi'.Len = spi.Len /\ ~(spi.Count < spi.Len)
    BY <1>1, <1>17, LowerWordSets, AfterHintSays
  <2>5. /\ m.msg = "config"
        /\ spi.Len = L
        /\ t = spi.Count + Lead(m)
        /\ ~spi.Byte_flag
        /\ spi.Count <= L
        /\ spi.Count > 0
        /\ (~Odd(spi.Count) \/ spi.Count = L)
    BY <1>1, <1>2, <1>3, <2>4 DEF Begins, Leads, Body, FrameStates, ConfigStates, CmdStates
  <2>20. t # 0
    BY <1>1, <1>2, <2>5
  <2>11. spi.Count = L
    BY <1>1, <1>2, <2>4, <2>5
  <2>12. t = WireLen(m)
    BY <1>2, <2>5, <2>11
  <2>13. spi'.state = 38 /\ m.msg = "config"
    BY <2>4, <2>5
  <2>6. Begins(m, t)'
    BY <2>12, <2>13, <2>20 DEF Begins, FrameStates, ConfigStates, CmdStates
  <2>7. Leads(m, t)'
    BY <1>2, <2>4, <2>20, <2>5, <2>11, <2>12 DEF Leads
  <2>8. Body(m, t)'
    BY <2>12, <2>13 DEF Body
  <2>9. Drives' /\ spi'.state \in {0, 3} \cup FrameStates \cup ConfigStates \cup CmdStates
    BY <2>4 DEF Drives, NoWrite, TxWrite, CfgWrite, SingleWrite,
       FrameStates, ConfigStates, CmdStates
  <2>10. QED
    BY <1>2, <2>6, <2>7, <2>8, <2>9 DEF SpiAt
<1>18. CASE spi.state = 51 /\ spi.Count < spi.Len
  <2>4. /\ spi.state = 51 /\ spi'.state = 48 /\ spi'.write_line = NoWrite
        /\ spi'.Count = spi.Count /\ spi'.Byte_flag = spi.Byte_flag
        /\ spi'.Len = spi.Len /\ spi.Count < spi.Len
    BY <1>1, <1>18, LowerWordSets, AfterHintSays
  <2>5. /\ m.msg = "cmd"
        /\ spi.Len = L
        /\ t = spi.Count + Lead(m)
        /\ ~spi.Byte_flag
        /\ spi.Count <= L
        /\ spi.Count > 0
        /\ (~Odd(spi.Count) \/ spi.Count = L)
    BY <1>1, <1>2, <1>3, <2>4 DEF Begins, Leads, Body, FrameStates, ConfigStates, CmdStates
  <2>20. t # 0
    BY <1>1, <1>2, <2>5
  <2>6. Begins(m, t)'
    BY <1>2, <2>4, <2>20, <2>5 DEF Begins, FrameStates, ConfigStates, CmdStates
  <2>7. Leads(m, t)'
    BY <1>2, <2>4, <2>20, <2>5 DEF Leads
  <2>8. Body(m, t)'
    BY <1>1, <1>2, <2>4, <2>20, <2>5, OddZero DEF Body
  <2>9. Drives' /\ spi'.state \in {0, 3} \cup FrameStates \cup ConfigStates \cup CmdStates
    BY <2>4 DEF Drives, NoWrite, TxWrite, CfgWrite, SingleWrite,
       FrameStates, ConfigStates, CmdStates
  <2>10. QED
    BY <1>2, <2>6, <2>7, <2>8, <2>9 DEF SpiAt
<1>19. CASE spi.state = 51 /\ ~(spi.Count < spi.Len)
  <2>4. /\ spi.state = 51 /\ spi'.state = 52 /\ spi'.write_line = NoWrite
        /\ spi'.Count = spi.Count /\ spi'.Byte_flag = spi.Byte_flag
        /\ spi'.Len = spi.Len /\ ~(spi.Count < spi.Len)
    BY <1>1, <1>19, LowerWordSets, AfterHintSays
  <2>5. /\ m.msg = "cmd"
        /\ spi.Len = L
        /\ t = spi.Count + Lead(m)
        /\ ~spi.Byte_flag
        /\ spi.Count <= L
        /\ spi.Count > 0
        /\ (~Odd(spi.Count) \/ spi.Count = L)
    BY <1>1, <1>2, <1>3, <2>4 DEF Begins, Leads, Body, FrameStates, ConfigStates, CmdStates
  <2>20. t # 0
    BY <1>1, <1>2, <2>5
  <2>11. spi.Count = L
    BY <1>1, <1>2, <2>4, <2>5
  <2>12. t = WireLen(m)
    BY <1>2, <2>5, <2>11
  <2>13. spi'.state = 52 /\ m.msg = "cmd"
    BY <2>4, <2>5
  <2>6. Begins(m, t)'
    BY <2>12, <2>13, <2>20 DEF Begins, FrameStates, ConfigStates, CmdStates
  <2>7. Leads(m, t)'
    BY <1>2, <2>4, <2>20, <2>5, <2>11, <2>12 DEF Leads
  <2>8. Body(m, t)'
    BY <2>12, <2>13 DEF Body
  <2>9. Drives' /\ spi'.state \in {0, 3} \cup FrameStates \cup ConfigStates \cup CmdStates
    BY <2>4 DEF Drives, NoWrite, TxWrite, CfgWrite, SingleWrite,
       FrameStates, ConfigStates, CmdStates
  <2>10. QED
    BY <1>2, <2>6, <2>7, <2>8, <2>9 DEF SpiAt
<1>20. QED
  BY <1>10, <1>11, <1>12, <1>13, <1>14, <1>15, <1>16, <1>17, <1>18, <1>19

(* and the pulses at the end of a configuration                             *)
LEMMA EndConfigAt ==
  ASSUME SpiType, NEW m, IsMessage(m), NEW t, SpiAt(m, t), Drives, EndConfig
  PROVE  SpiAt(m, t)' /\ Drives'
<1>1. SpiShape /\ spi.state \in Nat /\ spi.Count \in Nat /\ spi.Len \in Nat
  BY DEF SpiType, SpiPlain
<1> DEFINE L == Len(m.body)
<1>2. /\ L \in Nat /\ L > 0 /\ Lead(m) \in Nat /\ WireLen(m) = L + Lead(m) /\ t \in Nat
      /\ t <= WireLen(m) /\ Lead(m) \in {2, 3}
      /\ Lead(m) = IF m.msg = "config" THEN 3 ELSE 2
  BY MessageFacts, LeadFacts DEF SpiAt
<1>3. Begins(m, t) /\ Leads(m, t) /\ Body(m, t)
  BY DEF SpiAt
<1>10. spi.state \in {38, 39, 40, 41, 42}
  BY DEF EndConfig
<1>11. CASE spi.state = 38
  <2>4. /\ spi.state = 38 /\ spi'.state = 39
        /\ spi'.write_line = spi.write_line
        /\ spi'.Count = spi.Count /\ spi'.Byte_flag = spi.Byte_flag /\ spi'.Len = spi.Len
    BY <1>1, <1>11, EndConfigSets
  <2>5. m.msg = "config" /\ t = WireLen(m)
    BY <1>1, <1>2, <1>3, <2>4 DEF Begins, Leads, Body, FrameStates, ConfigStates, CmdStates
  <2>20. t # 0
    BY <1>1, <1>2, <2>5
  <2>3. spi'.write_line = NoWrite
    BY <2>4 DEF Drives
  <2>6. Begins(m, t)'
    BY <1>2, <2>4, <2>20, <2>5 DEF Begins, FrameStates, ConfigStates, CmdStates
  <2>7. Leads(m, t)'
    BY <1>2, <2>4, <2>20, <2>5 DEF Leads
  <2>8. Body(m, t)'
    BY <1>1, <1>2, <2>4, <2>20, <2>5, OddZero DEF Body
  <2>9. Drives' /\ spi'.state \in {0, 3} \cup FrameStates \cup ConfigStates \cup CmdStates
    BY <2>4, <2>3 DEF Drives, NoWrite, TxWrite, CfgWrite, SingleWrite,
       FrameStates, ConfigStates, CmdStates
  <2>10. QED
    BY <1>2, <2>6, <2>7, <2>8, <2>9 DEF SpiAt
<1>12. CASE spi.state = 39
  <2>4. /\ spi.state = 39 /\ spi'.state = 40
        /\ spi'.write_line = spi.write_line
        /\ spi'.Count = spi.Count /\ spi'.Byte_flag = spi.Byte_flag /\ spi'.Len = spi.Len
    BY <1>1, <1>12, EndConfigSets
  <2>5. m.msg = "config" /\ t = WireLen(m)
    BY <1>1, <1>2, <1>3, <2>4 DEF Begins, Leads, Body, FrameStates, ConfigStates, CmdStates
  <2>20. t # 0
    BY <1>1, <1>2, <2>5
  <2>3. spi'.write_line = NoWrite
    BY <2>4 DEF Drives
  <2>6. Begins(m, t)'
    BY <1>2, <2>4, <2>20, <2>5 DEF Begins, FrameStates, ConfigStates, CmdStates
  <2>7. Leads(m, t)'
    BY <1>2, <2>4, <2>20, <2>5 DEF Leads
  <2>8. Body(m, t)'
    BY <1>1, <1>2, <2>4, <2>20, <2>5, OddZero DEF Body
  <2>9. Drives' /\ spi'.state \in {0, 3} \cup FrameStates \cup ConfigStates \cup CmdStates
    BY <2>4, <2>3 DEF Drives, NoWrite, TxWrite, CfgWrite, SingleWrite,
       FrameStates, ConfigStates, CmdStates
  <2>10. QED
    BY <1>2, <2>6, <2>7, <2>8, <2>9 DEF SpiAt
<1>13. CASE spi.state = 40
  <2>4. /\ spi.state = 40 /\ spi'.state = 41
        /\ spi'.write_line = spi.write_line
        /\ spi'.Count = spi.Count /\ spi'.Byte_flag = spi.Byte_flag /\ spi'.Len = spi.Len
    BY <1>1, <1>13, EndConfigSets
  <2>5. m.msg = "config" /\ t = WireLen(m)
    BY <1>1, <1>2, <1>3, <2>4 DEF Begins, Leads, Body, FrameStates, ConfigStates, CmdStates
  <2>20. t # 0
    BY <1>1, <1>2, <2>5
  <2>3. spi'.write_line = NoWrite
    BY <2>4 DEF Drives
  <2>6. Begins(m, t)'
    BY <1>2, <2>4, <2>20, <2>5 DEF Begins, FrameStates, ConfigStates, CmdStates
  <2>7. Leads(m, t)'
    BY <1>2, <2>4, <2>20, <2>5 DEF Leads
  <2>8. Body(m, t)'
    BY <1>1, <1>2, <2>4, <2>20, <2>5, OddZero DEF Body
  <2>9. Drives' /\ spi'.state \in {0, 3} \cup FrameStates \cup ConfigStates \cup CmdStates
    BY <2>4, <2>3 DEF Drives, NoWrite, TxWrite, CfgWrite, SingleWrite,
       FrameStates, ConfigStates, CmdStates
  <2>10. QED
    BY <1>2, <2>6, <2>7, <2>8, <2>9 DEF SpiAt
<1>14. CASE spi.state = 41
  <2>4. /\ spi.state = 41 /\ spi'.state = 42
        /\ spi'.write_line = spi.write_line
        /\ spi'.Count = spi.Count /\ spi'.Byte_flag = spi.Byte_flag /\ spi'.Len = spi.Len
    BY <1>1, <1>14, EndConfigSets
  <2>5. m.msg = "config" /\ t = WireLen(m)
    BY <1>1, <1>2, <1>3, <2>4 DEF Begins, Leads, Body, FrameStates, ConfigStates, CmdStates
  <2>20. t # 0
    BY <1>1, <1>2, <2>5
  <2>3. spi'.write_line = NoWrite
    BY <2>4 DEF Drives
  <2>6. Begins(m, t)'
    BY <1>2, <2>4, <2>20, <2>5 DEF Begins, FrameStates, ConfigStates, CmdStates
  <2>7. Leads(m, t)'
    BY <1>2, <2>4, <2>20, <2>5 DEF Leads
  <2>8. Body(m, t)'
    BY <1>1, <1>2, <2>4, <2>20, <2>5, OddZero DEF Body
  <2>9. Drives' /\ spi'.state \in {0, 3} \cup FrameStates \cup ConfigStates \cup CmdStates
    BY <2>4, <2>3 DEF Drives, NoWrite, TxWrite, CfgWrite, SingleWrite,
       FrameStates, ConfigStates, CmdStates
  <2>10. QED
    BY <1>2, <2>6, <2>7, <2>8, <2>9 DEF SpiAt
<1>15. CASE spi.state = 42
  <2>4. /\ spi.state = 42 /\ spi'.state = 0
        /\ spi'.write_line = spi.write_line
        /\ spi'.Count = spi.Count /\ spi'.Byte_flag = spi.Byte_flag /\ spi'.Len = spi.Len
    BY <1>1, <1>15, EndConfigSets
  <2>5. m.msg = "config" /\ t = WireLen(m)
    BY <1>1, <1>2, <1>3, <2>4 DEF Begins, Leads, Body, FrameStates, ConfigStates, CmdStates
  <2>20. t # 0
    BY <1>1, <1>2, <2>5
  <2>3. spi'.write_line = NoWrite
    BY <2>4 DEF Drives
  <2>6. Begins(m, t)'
    BY <1>2, <2>4, <2>20, <2>5 DEF Begins, FrameStates, ConfigStates, CmdStates
  <2>7. Leads(m, t)'
    BY <1>2, <2>4, <2>20, <2>5 DEF Leads
  <2>8. Body(m, t)'
    BY <1>1, <1>2, <2>4, <2>20, <2>5, OddZero DEF Body
  <2>9. Drives' /\ spi'.state \in {0, 3} \cup FrameStates \cup ConfigStates \cup CmdStates
    BY <2>4, <2>3 DEF Drives, NoWrite, TxWrite, CfgWrite, SingleWrite,
       FrameStates, ConfigStates, CmdStates
  <2>10. QED
    BY <1>2, <2>6, <2>7, <2>8, <2>9 DEF SpiAt
<1>16. QED
  BY <1>10, <1>11, <1>12, <1>13, <1>14, <1>15

(* and of a command.                                                        *)
LEMMA EndCmdAt ==
  ASSUME SpiType, NEW m, IsMessage(m), NEW t, SpiAt(m, t), Drives, EndCmd
  PROVE  SpiAt(m, t)' /\ Drives'
<1>1. SpiShape /\ spi.state \in Nat /\ spi.Count \in Nat /\ spi.Len \in Nat
  BY DEF SpiType, SpiPlain
<1> DEFINE L == Len(m.body)
<1>2. /\ L \in Nat /\ L > 0 /\ Lead(m) \in Nat /\ WireLen(m) = L + Lead(m) /\ t \in Nat
      /\ t <= WireLen(m) /\ Lead(m) \in {2, 3}
      /\ Lead(m) = IF m.msg = "config" THEN 3 ELSE 2
  BY MessageFacts, LeadFacts DEF SpiAt
<1>3. Begins(m, t) /\ Leads(m, t) /\ Body(m, t)
  BY DEF SpiAt
<1>10. spi.state \in {52, 53}
  BY DEF EndCmd
<1>11. CASE spi.state = 52
  <2>4. /\ spi.state = 52 /\ spi'.state = 53
        /\ spi'.write_line = spi.write_line
        /\ spi'.Count = spi.Count /\ spi'.Byte_flag = spi.Byte_flag /\ spi'.Len = spi.Len
    BY <1>1, <1>11, EndCmdSets
  <2>5. m.msg = "cmd" /\ t = WireLen(m)
    BY <1>1, <1>2, <1>3, <2>4 DEF Begins, Leads, Body, FrameStates, ConfigStates, CmdStates
  <2>20. t # 0
    BY <1>1, <1>2, <2>5
  <2>3. spi'.write_line = NoWrite
    BY <2>4 DEF Drives
  <2>6. Begins(m, t)'
    BY <1>2, <2>4, <2>20, <2>5 DEF Begins, FrameStates, ConfigStates, CmdStates
  <2>7. Leads(m, t)'
    BY <1>2, <2>4, <2>20, <2>5 DEF Leads
  <2>8. Body(m, t)'
    BY <1>1, <1>2, <2>4, <2>20, <2>5, OddZero DEF Body
  <2>9. Drives' /\ spi'.state \in {0, 3} \cup FrameStates \cup ConfigStates \cup CmdStates
    BY <2>4, <2>3 DEF Drives, NoWrite, TxWrite, CfgWrite, SingleWrite,
       FrameStates, ConfigStates, CmdStates
  <2>10. QED
    BY <1>2, <2>6, <2>7, <2>8, <2>9 DEF SpiAt
<1>12. CASE spi.state = 53
  <2>4. /\ spi.state = 53 /\ spi'.state = 0
        /\ spi'.write_line = spi.write_line
        /\ spi'.Count = spi.Count /\ spi'.Byte_flag = spi.Byte_flag /\ spi'.Len = spi.Len
    BY <1>1, <1>12, EndCmdSets
  <2>5. m.msg = "cmd" /\ t = WireLen(m)
    BY <1>1, <1>2, <1>3, <2>4 DEF Begins, Leads, Body, FrameStates, ConfigStates, CmdStates
  <2>20. t # 0
    BY <1>1, <1>2, <2>5
  <2>3. spi'.write_line = NoWrite
    BY <2>4 DEF Drives
  <2>6. Begins(m, t)'
    BY <1>2, <2>4, <2>20, <2>5 DEF Begins, FrameStates, ConfigStates, CmdStates
  <2>7. Leads(m, t)'
    BY <1>2, <2>4, <2>20, <2>5 DEF Leads
  <2>8. Body(m, t)'
    BY <1>1, <1>2, <2>4, <2>20, <2>5, OddZero DEF Body
  <2>9. Drives' /\ spi'.state \in {0, 3} \cup FrameStates \cup ConfigStates \cup CmdStates
    BY <2>4, <2>3 DEF Drives, NoWrite, TxWrite, CfgWrite, SingleWrite,
       FrameStates, ConfigStates, CmdStates
  <2>10. QED
    BY <1>2, <2>6, <2>7, <2>8, <2>9 DEF SpiAt
<1>13. QED
  BY <1>10, <1>11, <1>12

(* The first bytes of a message.                                            *)
LEMMA WireBytes ==
  ASSUME NEW m, IsMessage(m)
  PROVE  /\ WireByte(m, 1) = IF m.msg = "frame" THEN 102 ELSE IF m.msg = "cmd" THEN 18 ELSE 17
         /\ m.msg # "config" => WireByte(m, 2) = Len(m.body)
         /\ \A c \in Nat : WireByte(m, c + Lead(m) + 1) = m.body[c + 1]
<1>1. Lead(m) \in {2, 3} /\ Lead(m) = IF m.msg = "config" THEN 3 ELSE 2
  BY DEF Lead
<1>2. WireByte(m, 1) = IF m.msg = "frame" THEN 102 ELSE IF m.msg = "cmd" THEN 18 ELSE 17
  BY DEF WireByte, SendCmd, SingleCmd, ConfigCmd, IsMessage
<1>3. m.msg # "config" => WireByte(m, 2) = Len(m.body)
  BY <1>1 DEF WireByte
<1>4. ASSUME NEW c \in Nat
      PROVE  WireByte(m, c + Lead(m) + 1) = m.body[c + 1]
  <2> DEFINE k == c + Lead(m) + 1
  <2>1. k > Lead(m) /\ k # 1 /\ k - Lead(m) = c + 1
    BY <1>1
  <2> HIDE DEF k
  <2>2. WireByte(m, k) = m.body[k - Lead(m)]
    BY <2>1 DEF WireByte
  <2>3. QED
    BY <2>1, <2>2 DEF k
<1>5. QED
  BY <1>2, <1>3, <1>4

(* A byte taken is the next of the message,                                 *)
LEMMA TakeByteAt ==
  ASSUME SpiType, NEW m, IsMessage(m), NEW t, SpiAt(m, t), Drives, t < WireLen(m),
         NEW done, TakeByte(done, WireByte(m, t + 1)), NEW u, u = t + 1
  PROVE  SpiAt(m, u)' /\ Drives'
<1>1. SpiShape /\ spi.state \in Nat /\ spi.Count \in Nat /\ spi.Len \in Nat
  BY DEF SpiType, SpiPlain
<1> DEFINE L == Len(m.body)
<1>2. /\ L \in Nat /\ L > 0 /\ Lead(m) \in Nat /\ WireLen(m) = L + Lead(m) /\ t \in Nat
      /\ t <= WireLen(m) /\ Lead(m) \in {2, 3}
      /\ Lead(m) = IF m.msg = "config" THEN 3 ELSE 2
  BY MessageFacts, LeadFacts DEF SpiAt
<1>3. Begins(m, t) /\ Leads(m, t) /\ Body(m, t)
  BY DEF SpiAt
<1> DEFINE b == WireByte(m, t + 1)
<1>4. /\ spi.state \in {0, 4, 11, 30, 34, 45, 48}
      /\ spi'.state = AfterByte[spi.state] /\ spi'.byte = b
      /\ spi'.Byte_flag = spi.Byte_flag
      /\ spi'.Len = (IF spi.state = 45 THEN b ELSE spi.Len)
      /\ spi'.Count = spi.Count /\ spi'.write_line = spi.write_line
  BY TakeByteSets, AfterByteIs DEF SpiType
<1> HIDE DEF b
<1>5. u \in Nat /\ u <= WireLen(m) /\ u # 0 /\ t # WireLen(m)
  <2> DEFINE w == WireLen(m)
  <2>1. w \in Nat /\ t < w
    BY LeadFacts
  <2> HIDE DEF w
  <2>2. u \in Nat /\ u <= w /\ u # 0 /\ t # w
    BY <1>2, <2>1
  <2>3. QED
    BY <2>2 DEF w
<1>11. CASE spi.state = 0
  <2>1. /\ spi.state = 0 /\ spi'.state = 3 /\ spi'.byte = b /\ spi'.Count = spi.Count
        /\ spi'.Byte_flag = spi.Byte_flag /\ spi'.Len = spi.Len
    BY <1>4, <1>11, AfterByteIs
  <2>2. t = 0
    BY <1>5, <1>3, <1>11 DEF Begins, Leads, Body, FrameStates, ConfigStates, CmdStates
  <2>3. u = 1 /\ b = WireByte(m, 1)
    BY <2>2 DEF b
  <2>4. Begins(m, u)'
    BY <1>2, <1>5, <2>1, <2>2, <2>3 DEF Begins, FrameStates, ConfigStates, CmdStates
  <2>5. Leads(m, u)'
    BY <1>2, <2>1, <2>2, <2>3 DEF Leads
  <2>6. Body(m, u)'
    BY <1>1, <1>2, <2>1, <2>2, <2>3 DEF Body
  <2>7. spi.write_line = NoWrite
    BY <1>11 DEF Drives
  <2>8. Drives' /\ spi'.state \in {0, 3} \cup FrameStates \cup ConfigStates \cup CmdStates
    BY <1>4, <2>1, <2>7 DEF Drives, FrameStates, ConfigStates, CmdStates
  <2>9. QED
    BY <1>5, <2>4, <2>5, <2>6, <2>8 DEF SpiAt
<1>12. CASE spi.state = 4
  <2>1. /\ spi.state = 4 /\ spi'.state = 6 /\ spi'.byte = b /\ spi'.Count = spi.Count
        /\ spi'.Byte_flag = spi.Byte_flag /\ spi'.Len = spi.Len
    BY <1>4, <1>12, AfterByteIs
  <2>2. m.msg = "frame" /\ t = 1 /\ spi.Count = 0 /\ ~spi.Byte_flag
    BY <1>1, <1>2, <1>3, <1>12 DEF Begins, Leads, Body, FrameStates, ConfigStates, CmdStates
  <2>3. u = 2 /\ b = L /\ Lead(m) = 2
    BY <1>2, <2>2, WireBytes DEF b
  <2>4. Begins(m, u)'
    BY <1>2, <1>5, <2>1, <2>2, <2>3 DEF Begins, FrameStates, ConfigStates, CmdStates
  <2>5. Leads(m, u)'
    BY <1>2, <2>1, <2>2, <2>3 DEF Leads
  <2>6. Body(m, u)'
    BY <1>1, <1>2, <2>1, <2>2, <2>3 DEF Body
  <2>7. spi.write_line = NoWrite
    BY <1>12 DEF Drives
  <2>8. Drives' /\ spi'.state \in {0, 3} \cup FrameStates \cup ConfigStates \cup CmdStates
    BY <1>4, <2>1, <2>7 DEF Drives, FrameStates, ConfigStates, CmdStates
  <2>9. QED
    BY <1>5, <2>4, <2>5, <2>6, <2>8 DEF SpiAt
<1>13. CASE spi.state = 11
  <2>1. /\ spi.state = 11 /\ spi'.state = 13 /\ spi'.byte = b /\ spi'.Count = spi.Count
        /\ spi'.Byte_flag = spi.Byte_flag /\ spi'.Len = spi.Len
    BY <1>4, <1>13, AfterByteIs
  <2>2. m.msg = "frame" /\ t = spi.Count + Lead(m) /\ spi.Len = L /\ spi.Count < L
        /\ (spi.Byte_flag <=> ~Odd(spi.Count))
    BY <1>1, <1>2, <1>3, <1>13 DEF Begins, Leads, Body, FrameStates, ConfigStates, CmdStates
  <2>3. u = spi.Count + Lead(m) + 1 /\ b = m.body[spi.Count + 1]
    BY <1>1, <1>2, <2>2, WireBytes DEF b
  <2>4. Begins(m, u)'
    BY <1>2, <1>5, <2>1, <2>2, <2>3 DEF Begins, FrameStates, ConfigStates, CmdStates
  <2>5. Leads(m, u)'
    BY <1>2, <2>1, <2>2, <2>3 DEF Leads
  <2>6. Body(m, u)'
    BY <1>1, <1>2, <2>1, <2>2, <2>3 DEF Body
  <2>7. spi.write_line = NoWrite
    BY <1>13 DEF Drives
  <2>8. Drives' /\ spi'.state \in {0, 3} \cup FrameStates \cup ConfigStates \cup CmdStates
    BY <1>4, <2>1, <2>7 DEF Drives, FrameStates, ConfigStates, CmdStates
  <2>9. QED
    BY <1>5, <2>4, <2>5, <2>6, <2>8 DEF SpiAt
<1>14. CASE spi.state = 30
  <2>1. /\ spi.state = 30 /\ spi'.state = 31 /\ spi'.byte = b /\ spi'.Count = spi.Count
        /\ spi'.Byte_flag = spi.Byte_flag /\ spi'.Len = spi.Len
    BY <1>4, <1>14, AfterByteIs
  <2>2. m.msg = "config" /\ spi.Count = 0 /\ t = (IF spi.Byte_flag THEN 2 ELSE 1)
        /\ spi.Len = IF spi.Byte_flag THEN 256 * Hi(L) ELSE 0
    BY <1>1, <1>2, <1>3, <1>14 DEF Begins, Leads, Body, FrameStates, ConfigStates, CmdStates
  <2>3. u = (IF spi.Byte_flag THEN 3 ELSE 2) /\ b = WireByte(m, u)
    BY <2>2 DEF b
  <2>4. Begins(m, u)'
    BY <1>2, <1>5, <2>1, <2>2, <2>3 DEF Begins, FrameStates, ConfigStates, CmdStates
  <2>5. Leads(m, u)'
    BY <1>2, <2>1, <2>2, <2>3 DEF Leads
  <2>6. Body(m, u)'
    BY <1>1, <1>2, <2>1, <2>2, <2>3 DEF Body
  <2>7. spi.write_line = NoWrite
    BY <1>14 DEF Drives
  <2>8. Drives' /\ spi'.state \in {0, 3} \cup FrameStates \cup ConfigStates \cup CmdStates
    BY <1>4, <2>1, <2>7 DEF Drives, FrameStates, ConfigStates, CmdStates
  <2>9. QED
    BY <1>5, <2>4, <2>5, <2>6, <2>8 DEF SpiAt
<1>15. CASE spi.state = 34
  <2>1. /\ spi.state = 34 /\ spi'.state = 35 /\ spi'.byte = b /\ spi'.Count = spi.Count
        /\ spi'.Byte_flag = spi.Byte_flag /\ spi'.Len = spi.Len
    BY <1>4, <1>15, AfterByteIs
  <2>2. m.msg = "config" /\ t = spi.Count + Lead(m) /\ spi.Len = L /\ spi.Count < L
        /\ (spi.Byte_flag <=> Odd(spi.Count))
    BY <1>1, <1>2, <1>3, <1>15 DEF Begins, Leads, Body, FrameStates, ConfigStates, CmdStates
  <2>3. u = spi.Count + Lead(m) + 1 /\ b = m.body[spi.Count + 1]
    BY <1>1, <1>2, <2>2, WireBytes DEF b
  <2>4. Begins(m, u)'
    BY <1>2, <1>5, <2>1, <2>2, <2>3 DEF Begins, FrameStates, ConfigStates, CmdStates
  <2>5. Leads(m, u)'
    BY <1>2, <2>1, <2>2, <2>3 DEF Leads
  <2>6. Body(m, u)'
    BY <1>1, <1>2, <2>1, <2>2, <2>3 DEF Body
  <2>7. spi.write_line = NoWrite
    BY <1>15 DEF Drives
  <2>8. Drives' /\ spi'.state \in {0, 3} \cup FrameStates \cup ConfigStates \cup CmdStates
    BY <1>4, <2>1, <2>7 DEF Drives, FrameStates, ConfigStates, CmdStates
  <2>9. QED
    BY <1>5, <2>4, <2>5, <2>6, <2>8 DEF SpiAt
<1>16. CASE spi.state = 45
  <2>1. /\ spi.state = 45 /\ spi'.state = 46 /\ spi'.byte = b /\ spi'.Count = spi.Count
        /\ spi'.Byte_flag = spi.Byte_flag /\ spi'.Len = b
    BY <1>4, <1>16, AfterByteIs
  <2>2. m.msg = "cmd" /\ t = 1 /\ spi.Count = 0 /\ ~spi.Byte_flag
    BY <1>1, <1>2, <1>3, <1>16 DEF Begins, Leads, Body, FrameStates, ConfigStates, CmdStates
  <2>3. u = 2 /\ b = L /\ Lead(m) = 2
    BY <1>2, <2>2, WireBytes DEF b
  <2>4. Begins(m, u)'
    BY <1>2, <1>5, <2>1, <2>2, <2>3 DEF Begins, FrameStates, ConfigStates, CmdStates
  <2>5. Leads(m, u)'
    BY <1>2, <2>1, <2>2, <2>3 DEF Leads
  <2>6. Body(m, u)'
    BY <1>1, <1>2, <2>1, <2>2, <2>3 DEF Body
  <2>7. spi.write_line = NoWrite
    BY <1>16 DEF Drives
  <2>8. Drives' /\ spi'.state \in {0, 3} \cup FrameStates \cup ConfigStates \cup CmdStates
    BY <1>4, <2>1, <2>7 DEF Drives, FrameStates, ConfigStates, CmdStates
  <2>9. QED
    BY <1>5, <2>4, <2>5, <2>6, <2>8 DEF SpiAt
<1>17. CASE spi.state = 48
  <2>1. /\ spi.state = 48 /\ spi'.state = 49 /\ spi'.byte = b /\ spi'.Count = spi.Count
        /\ spi'.Byte_flag = spi.Byte_flag /\ spi'.Len = spi.Len
    BY <1>4, <1>17, AfterByteIs
  <2>2. m.msg = "cmd" /\ t = spi.Count + Lead(m) /\ spi.Len = L /\ spi.Count < L
        /\ (spi.Byte_flag <=> Odd(spi.Count))
    BY <1>1, <1>2, <1>3, <1>17 DEF Begins, Leads, Body, FrameStates, ConfigStates, CmdStates
  <2>3. u = spi.Count + Lead(m) + 1 /\ b = m.body[spi.Count + 1]
    BY <1>1, <1>2, <2>2, WireBytes DEF b
  <2>4. Begins(m, u)'
    BY <1>2, <1>5, <2>1, <2>2, <2>3 DEF Begins, FrameStates, ConfigStates, CmdStates
  <2>5. Leads(m, u)'
    BY <1>2, <2>1, <2>2, <2>3 DEF Leads
  <2>6. Body(m, u)'
    BY <1>1, <1>2, <2>1, <2>2, <2>3 DEF Body
  <2>7. spi.write_line = NoWrite
    BY <1>17 DEF Drives
  <2>8. Drives' /\ spi'.state \in {0, 3} \cup FrameStates \cup ConfigStates \cup CmdStates
    BY <1>4, <2>1, <2>7 DEF Drives, FrameStates, ConfigStates, CmdStates
  <2>9. QED
    BY <1>5, <2>4, <2>5, <2>6, <2>8 DEF SpiAt
<1>20. QED
  BY <1>4, <1>11, <1>12, <1>13, <1>14, <1>15, <1>16, <1>17

(* and no other action takes one.                                           *)
LEMMA OthersAt ==
  ASSUME SpiType, NEW m, IsMessage(m), NEW t, SpiAt(m, t), Drives,
         NEW hint, NEW full, NEW done, NEW byte, WriteMessage(hint, full, done, byte)
  PROVE  TakeByte(done, byte) \/ (SpiAt(m, t)' /\ Drives')
<1>1. spi.state = 3 => spi.byte \in {102, 18, 17}
  BY WireBytes DEF SpiAt, Begins
<1>2. ~BeginRecv /\ ~IgnoreByte
  BY <1>1 DEF BeginRecv, IgnoreByte, RecvCmd, ConfigCmd, SingleCmd, SendCmd
<1>3. CASE BeginWrite \/ BeginSend
  BY <1>3, BeginWriteAt, BeginSendAt
<1>4. CASE TakeLen
  <2>1. spi.state = 31 \/ spi.state = 6
    BY <1>4 DEF TakeLen
  <2>2. CASE spi.state = 31 /\ spi.Byte_flag
    BY <1>4, <2>2, TakeLenLowAt
  <2>3. CASE spi.state = 31 /\ ~spi.Byte_flag
    BY <1>4, <2>3, TakeLenHighAt
  <2>4. CASE spi.state = 6
    BY <1>4, <2>4, TakeLenFrameAt
  <2>5. QED
    BY <2>1, <2>2, <2>3, <2>4
<1>5. CASE FirstHalf \/ SecondHalf
  BY <1>5, FirstHalfLastAt, FirstHalfMoreAt, SecondHalfAt
<1>6. CASE RaiseSend(full)
  BY <1>6, RaiseSendLengthAt, RaiseSendWordAt
<1>7. CASE RaiseStore
  <2>1. spi.state \in {32, 36, 46, 50}
    BY <1>7 DEF RaiseStore
  <2>2. QED
    BY <1>7, <2>1, RaiseStoreCfgLenAt, RaiseStoreCmdLenAt, RaiseStoreCfgAt, RaiseStoreCmdAt
<1>8. CASE LowerWrite(hint)
  BY <1>8, LowerLengthAt, LowerWordAt
<1>9. CASE EndConfig \/ EndCmd
  BY <1>9, EndConfigAt, EndCmdAt
<1>10. QED
  BY <1>2, <1>3, <1>4, <1>5, <1>6, <1>7, <1>8, <1>9 DEF WriteMessage

(* At rest: nothing received, nothing announced.                            *)
IrqAtRest ==
  irq = [state |-> 0, SRAM_read |-> FALSE, cpu_recv_int |-> TRUE, counted |-> FALSE,
         bufferd_pkt_count |-> 0, packet_len |-> 0, word |-> <<0, 0>>]

(* Lines with the same value.                                               *)
LEMMA SameValue ==
  ASSUME NEW S, NEW f, f = [x \in S |-> f[x]], NEW a, NEW v, f[a] = v
  PROVE  [f EXCEPT ![a] = v] = f
<1>1. DOMAIN f = S
  BY Zenon
<1>2. [f EXCEPT ![a] = v] = [x \in S |-> IF x = a THEN v ELSE f[x]]
  BY <1>1
<1>3. QED
  BY <1>1, <1>2

(* The Irq machine stays at rest,                                           *)
LEMMA RestStays ==
  ASSUME IrqAtRest, NEW hint, NEW data, NEW empty
  PROVE  AfterIrq(AfterCounter(FALSE), hint, data, empty) = irq
<1> DEFINE S == DOMAIN irq
<1>5. irq = [x \in S |-> irq[x]]
  BY DEF IrqAtRest
<1>6. irq.state = 0 /\ irq.bufferd_pkt_count = 0
  BY DEF IrqAtRest
<1>7. irq.counted = FALSE /\ irq.SRAM_read = FALSE /\ irq.cpu_recv_int = TRUE
  BY DEF IrqAtRest
<1> HIDE DEF S
<1>8. [irq EXCEPT !.counted = FALSE] = irq /\ [irq EXCEPT !.state = 0] = irq
  BY <1>5, <1>6, <1>7, SameValue
<1>9. [irq EXCEPT !.SRAM_read = FALSE] = irq /\ [irq EXCEPT !.cpu_recv_int = TRUE] = irq
  BY <1>5, <1>7, SameValue
<1>10. [irq EXCEPT !.bufferd_pkt_count = 0] = irq
  BY <1>5, <1>6, SameValue
<1>1. IrqReset(irq) = irq
  <2>1. IrqReset(irq) = [[[[[irq EXCEPT !.state = 0] EXCEPT !.SRAM_read = FALSE]
                            EXCEPT !.cpu_recv_int = TRUE] EXCEPT !.counted = FALSE]
                            EXCEPT !.bufferd_pkt_count = 0]
    BY Zenon DEF IrqReset
  <2>2. QED
    BY <1>8, <1>9, <1>10, <2>1
<1>2. irq.counted = FALSE /\ irq.state = 0 /\ irq.bufferd_pkt_count = 0
      /\ [irq EXCEPT !.counted = FALSE] = irq
  BY <1>6, <1>7, <1>8
<1>3. AfterCounter(FALSE) = irq
  BY <1>1, <1>2 DEF AfterCounter
<1>4. AfterIrq(irq, hint, data, empty) = irq
  BY <1>2 DEF AfterIrq
<1>11. QED
  BY <1>3, <1>4

(* so that an edge of Slave_Ctrl is one of the Spi machine.                 *)
LEMMA SlaveAtRest ==
  ASSUME IrqAtRest, NEW m, NEW t, SpiAt(m, t), NEW hint, NEW data, NEW full, NEW empty,
         NEW done, NEW byte, NEW trdy,
         SlaveStep(FALSE, hint, data, full, empty, done, byte, trdy)
  PROVE  /\ irq' = irq
         /\ \/ WriteMessage(hint, full, done, byte)
            \/ SpiWaits(hint, full, done, trdy) /\ spi' = spi
<1>1. spi.state \notin {16, 17, 18, 19, 20, 21, 22, 23, 24, 25}
  BY DEF SpiAt, FrameStates, ConfigStates, CmdStates
<1> DEFINE q == AfterIrq(AfterCounter(FALSE), hint, data, empty)
<1>2. q = irq
  BY RestStays
<1>3. \/ /\ \/ WriteMessage(hint, full, done, byte)
            \/ LoadByte(q, data, trdy) \/ LoadedLen \/ LoadedByte(q)
            \/ SpiWaits(hint, full, done, trdy) /\ UNCHANGED spi
         /\ irq' = q
      \/ RaiseRead(q) \/ LowerRead(q, hint)
  BY DEF SlaveStep
<1> HIDE DEF q
<1>4. ~LoadByte(q, data, trdy) /\ ~LoadedLen /\ ~LoadedByte(q)
  BY <1>1 DEF LoadByte, LoadedLen, LoadedByte
<1>5. ~RaiseRead(q) /\ ~LowerRead(q, hint)
  BY <1>1 DEF RaiseRead, LowerRead
<1>6. QED
  BY <1>2, <1>3, <1>4, <1>5

(* The states in which the Spi machine does not wait for a byte of a message*)
(* it takes, and those that may follow each.                                *)
Raising  == {7, 9, 14, 32, 36, 46, 50}
Raised   == {8, 10, 15, 33, 37, 47, 51}
Thinking == {3, 6, 13, 31, 35, 38, 39, 40, 41, 42, 49, 52, 53}
Follows(s) ==
  CASE s = 3 -> {4, 30, 45}
    [] s = 6 -> {7}        [] s = 31 -> {30, 32}
    [] s = 13 -> {11, 14}  [] s = 35 -> {34, 36}   [] s = 49 -> {48, 50}
    [] s = 15 -> {0, 11}   [] s = 37 -> {34, 38}   [] s = 51 -> {48, 52}
    [] s = 42 -> {0}       [] s = 53 -> {0}
    [] OTHER -> {s + 1}

(* What an edge of it does to its state and its pulses.                     *)
LEMMA SpiMoves ==
  ASSUME SpiType, Pulsing, spi.state = 3 => spi.byte \in {102, 18, 17},
         NEW hint, NEW full, NEW done, NEW byte,
         WriteMessage(hint, full, done, byte), ~TakeByte(done, byte)
  PROVE  /\ spi.state \in Raising \cup Raised \cup Thinking
         /\ spi'.state \in Follows(spi.state)
         /\ spi.state \in Raised => hint
         /\ spi.state \in {7, 9, 14} => ~full
         /\ Pulsing'
<1>1. SpiShape
  BY DEF SpiType
<1>2. (spi.config_done <=> spi.state = 39) /\ (spi.cmd_done <=> spi.state = 53)
  BY DEF Pulsing
<1>3. ~BeginRecv /\ ~IgnoreByte
  BY DEF BeginRecv, IgnoreByte, RecvCmd, ConfigCmd, SingleCmd, SendCmd
<1>11. CASE BeginWrite
  <2>1. spi.state \in {3}
    BY <1>1, <1>11 DEF BeginWrite
  <2>2. spi'.state = (IF spi.byte = ConfigCmd THEN 30 ELSE 45)
    BY <1>1, <1>11, BeginWriteSets
  <2>3. (spi'.config_done <=> spi.config_done) /\ (spi'.cmd_done <=> spi.cmd_done)
    BY <1>1, <1>11, BeginWriteSets
  <2>4. spi'.state \in {30, 45}
    BY <2>1, <2>2
  <2>5. spi'.state \in Follows(spi.state)
    BY <2>1, <2>4 DEF Follows
  <2>6. (spi'.config_done <=> spi'.state = 39) /\ (spi'.cmd_done <=> spi'.state = 53)
    BY <1>2, <2>1, <2>3, <2>4
  <2>7. QED
    BY <2>1, <2>5, <2>6 DEF Pulsing, Raising, Raised, Thinking
<1>12. CASE BeginSend
  <2>1. spi.state \in {3}
    BY <1>1, <1>12 DEF BeginSend
  <2>2. spi'.state = 4
    BY <1>1, <1>12, BeginSendSets
  <2>3. (spi'.config_done <=> spi.config_done) /\ (spi'.cmd_done <=> spi.cmd_done)
    BY <1>1, <1>12, BeginSendSets
  <2>4. spi'.state \in {4}
    BY <2>1, <2>2
  <2>5. spi'.state \in Follows(spi.state)
    BY <2>1, <2>4 DEF Follows
  <2>6. (spi'.config_done <=> spi'.state = 39) /\ (spi'.cmd_done <=> spi'.state = 53)
    BY <1>2, <2>1, <2>3, <2>4
  <2>7. QED
    BY <2>1, <2>5, <2>6 DEF Pulsing, Raising, Raised, Thinking
<1>13. CASE TakeLen /\ spi.state = 31 /\ ~spi.Byte_flag
  <2>1. spi.state \in {31}
    BY <1>1, <1>13 DEF TakeLen
  <2>2. spi'.state = 30
    BY <1>1, <1>13, TakeLenHighSets
  <2>3. (spi'.config_done <=> spi.config_done) /\ (spi'.cmd_done <=> spi.cmd_done)
    BY <1>1, <1>13, TakeLenHighSets
  <2>4. spi'.state \in {30}
    BY <2>1, <2>2
  <2>5. spi'.state \in Follows(spi.state)
    BY <2>1, <2>4 DEF Follows
  <2>6. (spi'.config_done <=> spi'.state = 39) /\ (spi'.cmd_done <=> spi'.state = 53)
    BY <1>2, <2>1, <2>3, <2>4
  <2>7. QED
    BY <2>1, <2>5, <2>6 DEF Pulsing, Raising, Raised, Thinking
<1>14. CASE TakeLen /\ spi.state = 31 /\ spi.Byte_flag
  <2>1. spi.state \in {31}
    BY <1>1, <1>14 DEF TakeLen
  <2>2. spi'.state = 32
    BY <1>1, <1>14, TakeLenLowSets
  <2>3. (spi'.config_done <=> spi.config_done) /\ (spi'.cmd_done <=> spi.cmd_done)
    BY <1>1, <1>14, TakeLenLowSets
  <2>4. spi'.state \in {32}
    BY <2>1, <2>2
  <2>5. spi'.state \in Follows(spi.state)
    BY <2>1, <2>4 DEF Follows
  <2>6. (spi'.config_done <=> spi'.state = 39) /\ (spi'.cmd_done <=> spi'.state = 53)
    BY <1>2, <2>1, <2>3, <2>4
  <2>7. QED
    BY <2>1, <2>5, <2>6 DEF Pulsing, Raising, Raised, Thinking
<1>15. CASE TakeLen /\ spi.state = 6
  <2>1. spi.state \in {6}
    BY <1>1, <1>15 DEF TakeLen
  <2>2. spi'.state = 7
    BY <1>1, <1>15, TakeLenFrameSets
  <2>3. (spi'.config_done <=> spi.config_done) /\ (spi'.cmd_done <=> spi.cmd_done)
    BY <1>1, <1>15, TakeLenFrameSets
  <2>4. spi'.state \in {7}
    BY <2>1, <2>2
  <2>5. spi'.state \in Follows(spi.state)
    BY <2>1, <2>4 DEF Follows
  <2>6. (spi'.config_done <=> spi'.state = 39) /\ (spi'.cmd_done <=> spi'.state = 53)
    BY <1>2, <2>1, <2>3, <2>4
  <2>7. QED
    BY <2>1, <2>5, <2>6 DEF Pulsing, Raising, Raised, Thinking
<1>16. CASE FirstHalf /\ spi.Count + 1 >= spi.Len
  <2>1. spi.state \in {13, 35, 49}
    BY <1>1, <1>16, AfterWordIs DEF FirstHalf
  <2>2. spi'.state = AfterWord[spi.state]
    BY <1>1, <1>16, FirstHalfLastSets
  <2>3. (spi'.config_done <=> spi.config_done) /\ (spi'.cmd_done <=> spi.cmd_done)
    BY <1>1, <1>16, FirstHalfLastSets
  <2>4. /\ spi.state = 13 => spi'.state \in {14}
        /\ spi.state = 35 => spi'.state \in {36}
        /\ spi.state = 49 => spi'.state \in {50}
    <3>1. CASE spi.state = 13
      BY <2>2, <3>1, AfterWordIs
    <3>2. CASE spi.state = 35
      BY <2>2, <3>2, AfterWordIs
    <3>3. CASE spi.state = 49
      BY <2>2, <3>3, AfterWordIs
    <3>4. QED
      BY <2>1, <3>1, <3>2, <3>3
  <2>5. spi'.state \in Follows(spi.state)
    BY <2>1, <2>4 DEF Follows
  <2>6. (spi'.config_done <=> spi'.state = 39) /\ (spi'.cmd_done <=> spi'.state = 53)
    BY <1>2, <2>1, <2>3, <2>4
  <2>7. QED
    BY <2>1, <2>5, <2>6 DEF Pulsing, Raising, Raised, Thinking
<1>17. CASE FirstHalf /\ ~(spi.Count + 1 >= spi.Len)
  <2>1. spi.state \in {13, 35, 49}
    BY <1>1, <1>17, AfterWordIs DEF FirstHalf
  <2>2. spi'.state = NextByte[spi.state]
    BY <1>1, <1>17, FirstHalfMoreSets
  <2>3. (spi'.config_done <=> spi.config_done) /\ (spi'.cmd_done <=> spi.cmd_done)
    BY <1>1, <1>17, FirstHalfMoreSets
  <2>4. /\ spi.state = 13 => spi'.state \in {11}
        /\ spi.state = 35 => spi'.state \in {34}
        /\ spi.state = 49 => spi'.state \in {48}
    <3>1. CASE spi.state = 13
      BY <2>2, <3>1, AfterWordIs
    <3>2. CASE spi.state = 35
      BY <2>2, <3>2, AfterWordIs
    <3>3. CASE spi.state = 49
      BY <2>2, <3>3, AfterWordIs
    <3>4. QED
      BY <2>1, <3>1, <3>2, <3>3
  <2>5. spi'.state \in Follows(spi.state)
    BY <2>1, <2>4 DEF Follows
  <2>6. (spi'.config_done <=> spi'.state = 39) /\ (spi'.cmd_done <=> spi'.state = 53)
    BY <1>2, <2>1, <2>3, <2>4
  <2>7. QED
    BY <2>1, <2>5, <2>6 DEF Pulsing, Raising, Raised, Thinking
<1>18. CASE SecondHalf
  <2>1. spi.state \in {13, 35, 49}
    BY <1>1, <1>18, AfterWordIs DEF SecondHalf
  <2>2. spi'.state = AfterWord[spi.state]
    BY <1>1, <1>18, SecondHalfSets
  <2>3. (spi'.config_done <=> spi.config_done) /\ (spi'.cmd_done <=> spi.cmd_done)
    BY <1>1, <1>18, SecondHalfSets
  <2>4. /\ spi.state = 13 => spi'.state \in {14}
        /\ spi.state = 35 => spi'.state \in {36}
        /\ spi.state = 49 => spi'.state \in {50}
    <3>1. CASE spi.state = 13
      BY <2>2, <3>1, AfterWordIs
    <3>2. CASE spi.state = 35
      BY <2>2, <3>2, AfterWordIs
    <3>3. CASE spi.state = 49
      BY <2>2, <3>3, AfterWordIs
    <3>4. QED
      BY <2>1, <3>1, <3>2, <3>3
  <2>5. spi'.state \in Follows(spi.state)
    BY <2>1, <2>4 DEF Follows
  <2>6. (spi'.config_done <=> spi'.state = 39) /\ (spi'.cmd_done <=> spi'.state = 53)
    BY <1>2, <2>1, <2>3, <2>4
  <2>7. QED
    BY <2>1, <2>5, <2>6 DEF Pulsing, Raising, Raised, Thinking
<1>19. CASE RaiseSend(full) /\ spi.state = 9
  <2>1. spi.state \in {9} /\ ~full
    BY <1>1, <1>19 DEF RaiseSend
  <2>2. spi'.state = 10
    BY <1>1, <1>19, RaiseSendLengthSets
  <2>3. (spi'.config_done <=> spi.config_done) /\ (spi'.cmd_done <=> spi.cmd_done)
    BY <1>1, <1>19, RaiseSendLengthSets
  <2>4. spi'.state \in {10}
    BY <2>1, <2>2
  <2>5. spi'.state \in Follows(spi.state)
    BY <2>1, <2>4 DEF Follows
  <2>6. (spi'.config_done <=> spi'.state = 39) /\ (spi'.cmd_done <=> spi'.state = 53)
    BY <1>2, <2>1, <2>3, <2>4
  <2>7. QED
    BY <2>1, <2>5, <2>6 DEF Pulsing, Raising, Raised, Thinking
<1>20. CASE RaiseSend(full) /\ spi.state # 9
  <2>1. spi.state \in {7, 14} /\ ~full
    BY <1>1, <1>20 DEF RaiseSend
  <2>2. spi'.state = spi.state + 1
    BY <1>1, <1>20, RaiseSendWordSets
  <2>3. (spi'.config_done <=> spi.config_done) /\ (spi'.cmd_done <=> spi.cmd_done)
    BY <1>1, <1>20, RaiseSendWordSets
  <2>4. /\ spi.state = 7 => spi'.state \in {8}
        /\ spi.state = 14 => spi'.state \in {15}
    <3>1. CASE spi.state = 7
      BY <2>2, <3>1
    <3>2. CASE spi.state = 14
      BY <2>2, <3>2
    <3>3. QED
      BY <2>1, <3>1, <3>2
  <2>5. spi'.state \in Follows(spi.state)
    BY <2>1, <2>4 DEF Follows
  <2>6. (spi'.config_done <=> spi'.state = 39) /\ (spi'.cmd_done <=> spi'.state = 53)
    BY <1>2, <2>1, <2>3, <2>4
  <2>7. QED
    BY <2>1, <2>5, <2>6 DEF Pulsing, Raising, Raised, Thinking
<1>21. CASE RaiseStore /\ spi.state = 32
  <2>1. spi.state \in {32}
    BY <1>1, <1>21 DEF RaiseStore
  <2>2. spi'.state = 33
    BY <1>1, <1>21, RaiseStoreCfgLenSets
  <2>3. (spi'.config_done <=> spi.config_done) /\ (spi'.cmd_done <=> spi.cmd_done)
    BY <1>1, <1>21, RaiseStoreCfgLenSets
  <2>4. spi'.state \in {33}
    BY <2>1, <2>2
  <2>5. spi'.state \in Follows(spi.state)
    BY <2>1, <2>4 DEF Follows
  <2>6. (spi'.config_done <=> spi'.state = 39) /\ (spi'.cmd_done <=> spi'.state = 53)
    BY <1>2, <2>1, <2>3, <2>4
  <2>7. QED
    BY <2>1, <2>5, <2>6 DEF Pulsing, Raising, Raised, Thinking
<1>22. CASE RaiseStore /\ spi.state = 46
  <2>1. spi.state \in {46}
    BY <1>1, <1>22 DEF RaiseStore
  <2>2. spi'.state = 47
    BY <1>1, <1>22, RaiseStoreCmdLenSets
  <2>3. (spi'.config_done <=> spi.config_done) /\ (spi'.cmd_done <=> spi.cmd_done)
    BY <1>1, <1>22, RaiseStoreCmdLenSets
  <2>4. spi'.state \in {47}
    BY <2>1, <2>2
  <2>5. spi'.state \in Follows(spi.state)
    BY <2>1, <2>4 DEF Follows
  <2>6. (spi'.config_done <=> spi'.state = 39) /\ (spi'.cmd_done <=> spi'.state = 53)
    BY <1>2, <2>1, <2>3, <2>4
  <2>7. QED
    BY <2>1, <2>5, <2>6 DEF Pulsing, Raising, Raised, Thinking
<1>23. CASE RaiseStore /\ spi.state = 36
  <2>1. spi.state \in {36}
    BY <1>1, <1>23 DEF RaiseStore
  <2>2. spi'.state = 37
    BY <1>1, <1>23, RaiseStoreCfgSets
  <2>3. (spi'.config_done <=> spi.config_done) /\ (spi'.cmd_done <=> spi.cmd_done)
    BY <1>1, <1>23, RaiseStoreCfgSets
  <2>4. spi'.state \in {37}
    BY <2>1, <2>2
  <2>5. spi'.state \in Follows(spi.state)
    BY <2>1, <2>4 DEF Follows
  <2>6. (spi'.config_done <=> spi'.state = 39) /\ (spi'.cmd_done <=> spi'.state = 53)
    BY <1>2, <2>1, <2>3, <2>4
  <2>7. QED
    BY <2>1, <2>5, <2>6 DEF Pulsing, Raising, Raised, Thinking
<1>24. CASE RaiseStore /\ spi.state = 50
  <2>1. spi.state \in {50}
    BY <1>1, <1>24 DEF RaiseStore
  <2>2. spi'.state = 51
    BY <1>1, <1>24, RaiseStoreCmdSets
  <2>3. (spi'.config_done <=> spi.config_done) /\ (spi'.cmd_done <=> spi.cmd_done)
    BY <1>1, <1>24, RaiseStoreCmdSets
  <2>4. spi'.state \in {51}
    BY <2>1, <2>2
  <2>5. spi'.state \in Follows(spi.state)
    BY <2>1, <2>4 DEF Follows
  <2>6. (spi'.config_done <=> spi'.state = 39) /\ (spi'.cmd_done <=> spi'.state = 53)
    BY <1>2, <2>1, <2>3, <2>4
  <2>7. QED
    BY <2>1, <2>5, <2>6 DEF Pulsing, Raising, Raised, Thinking
<1>25. CASE LowerWrite(hint) /\ spi.state = 10
  <2>1. spi.state \in {10} /\ hint
    BY <1>1, <1>25 DEF LowerWrite
  <2>2. spi'.state = 11
    BY <1>1, <1>25, LowerLengthSets
  <2>3. (spi'.config_done <=> spi.config_done) /\ (spi'.cmd_done <=> spi.cmd_done)
    BY <1>1, <1>25, LowerLengthSets
  <2>4. spi'.state \in {11}
    BY <2>1, <2>2
  <2>5. spi'.state \in Follows(spi.state)
    BY <2>1, <2>4 DEF Follows
  <2>6. (spi'.config_done <=> spi'.state = 39) /\ (spi'.cmd_done <=> spi'.state = 53)
    BY <1>2, <2>1, <2>3, <2>4
  <2>7. QED
    BY <2>1, <2>5, <2>6 DEF Pulsing, Raising, Raised, Thinking
<1>26. CASE LowerWrite(hint) /\ spi.state # 10
  <2>1. spi.state \in {8, 15, 33, 37, 47, 51} /\ hint
    BY <1>1, <1>26 DEF LowerWrite
  <2>2. spi'.state = AfterHint
    BY <1>1, <1>26, LowerWordSets
  <2>3. (spi'.config_done <=> spi.config_done) /\ (spi'.cmd_done <=> spi.cmd_done)
    BY <1>1, <1>26, LowerWordSets
  <2>4. /\ spi.state = 8 => spi'.state \in {9}
        /\ spi.state = 15 => spi'.state \in {0, 11}
        /\ spi.state = 33 => spi'.state \in {34}
        /\ spi.state = 37 => spi'.state \in {34, 38}
        /\ spi.state = 47 => spi'.state \in {48}
        /\ spi.state = 51 => spi'.state \in {48, 52}
    <3>1. CASE spi.state = 8
      BY <2>2, <3>1, AfterHintSays
    <3>2. CASE spi.state = 15
      BY <2>2, <3>2, AfterHintSays
    <3>3. CASE spi.state = 33
      BY <2>2, <3>3, AfterHintSays
    <3>4. CASE spi.state = 37
      BY <2>2, <3>4, AfterHintSays
    <3>5. CASE spi.state = 47
      BY <2>2, <3>5, AfterHintSays
    <3>6. CASE spi.state = 51
      BY <2>2, <3>6, AfterHintSays
    <3>7. QED
      BY <2>1, <3>1, <3>2, <3>3, <3>4, <3>5, <3>6
  <2>5. spi'.state \in Follows(spi.state)
    BY <2>1, <2>4 DEF Follows
  <2>6. (spi'.config_done <=> spi'.state = 39) /\ (spi'.cmd_done <=> spi'.state = 53)
    BY <1>2, <2>1, <2>3, <2>4
  <2>7. QED
    BY <2>1, <2>5, <2>6 DEF Pulsing, Raising, Raised, Thinking
<1>27. CASE EndConfig
  <2>1. spi.state \in {38, 39, 40, 41, 42}
    BY <1>1, <1>27 DEF EndConfig
  <2>2. spi'.state = IF spi.state = 42 THEN 0 ELSE spi.state + 1
    BY <1>1, <1>27, EndConfigSets
  <2>3. (spi'.config_done <=> spi.state = 38) /\ (spi'.cmd_done <=> spi.cmd_done)
    BY <1>1, <1>27, EndConfigSets
  <2>4. /\ spi.state = 38 => spi'.state \in {39}
        /\ spi.state = 39 => spi'.state \in {40}
        /\ spi.state = 40 => spi'.state \in {41}
        /\ spi.state = 41 => spi'.state \in {42}
        /\ spi.state = 42 => spi'.state \in {0}
    <3>1. CASE spi.state = 38
      BY <2>2, <3>1
    <3>2. CASE spi.state = 39
      BY <2>2, <3>2
    <3>3. CASE spi.state = 40
      BY <2>2, <3>3
    <3>4. CASE spi.state = 41
      BY <2>2, <3>4
    <3>5. CASE spi.state = 42
      BY <2>2, <3>5
    <3>6. QED
      BY <2>1, <3>1, <3>2, <3>3, <3>4, <3>5
  <2>5. spi'.state \in Follows(spi.state)
    BY <2>1, <2>4 DEF Follows
  <2>6. (spi'.config_done <=> spi'.state = 39) /\ (spi'.cmd_done <=> spi'.state = 53)
    BY <1>2, <2>1, <2>3, <2>4
  <2>7. QED
    BY <2>1, <2>5, <2>6 DEF Pulsing, Raising, Raised, Thinking
<1>28. CASE EndCmd
  <2>1. spi.state \in {52, 53}
    BY <1>1, <1>28 DEF EndCmd
  <2>2. spi'.state = IF spi.state = 52 THEN 53 ELSE 0
    BY <1>1, <1>28, EndCmdSets
  <2>3. (spi'.config_done <=> spi.config_done) /\ (spi'.cmd_done <=> spi.state = 52)
    BY <1>1, <1>28, EndCmdSets
  <2>4. /\ spi.state = 52 => spi'.state \in {53}
        /\ spi.state = 53 => spi'.state \in {0}
    <3>1. CASE spi.state = 52
      BY <2>2, <3>1
    <3>2. CASE spi.state = 53
      BY <2>2, <3>2
    <3>3. QED
      BY <2>1, <3>1, <3>2
  <2>5. spi'.state \in Follows(spi.state)
    BY <2>1, <2>4 DEF Follows
  <2>6. (spi'.config_done <=> spi'.state = 39) /\ (spi'.cmd_done <=> spi'.state = 53)
    BY <1>2, <2>1, <2>3, <2>4
  <2>7. QED
    BY <2>1, <2>5, <2>6 DEF Pulsing, Raising, Raised, Thinking
<1>51. CASE TakeLen
  BY <1>13, <1>14, <1>15, <1>51 DEF TakeLen
<1>52. CASE FirstHalf
  BY <1>16, <1>17, <1>52
<1>53. CASE RaiseSend(full)
  BY <1>19, <1>20, <1>53
<1>54. CASE RaiseStore
  BY <1>21, <1>22, <1>23, <1>24, <1>54 DEF RaiseStore
<1>55. CASE LowerWrite(hint)
  BY <1>25, <1>26, <1>55
<1>56. QED
  BY <1>3, <1>11, <1>12, <1>18, <1>27, <1>28, <1>51, <1>52, <1>53, <1>54, <1>55
     DEF WriteMessage

(* The radio with nothing on the air fetches frames and does nothing else.  *)
RadioAtRest ==
  /\ radio.rx = "idle" /\ radio.packets = 0
  /\ radio.start = FALSE /\ radio.rollback = FALSE
  /\ radio.received = FALSE /\ radio.write = FALSE

(* It stays so, and what becomes of the line of its fetch.                  *)
LEMMA RadioRests ==
  ASSUME RadioType, RadioAtRest, MaxPackets = 0, NEW hint, NEW data, NEW empty, NEW full,
         NEW almost,
         \/ Answer(hint, data) \/ RadioMay(hint, empty, full, almost) \/ RadioIdles(hint)
  PROVE  /\ RadioAtRest'
         /\ radio.read /\ hint => ~radio'.read
         /\ radio.read /\ ~hint => radio'.read
         /\ ~radio.read /\ radio'.read => ~empty /\ TRUE \in Fetches
<1>1. RadioShape
  BY DEF RadioType
<1>2. ~Stored(hint) /\ ~EndAnnounce
  BY DEF RadioAtRest, Stored, EndAnnounce
<1>3. ~Mark(almost) /\ ~EndMark /\ ~Store(full) /\ ~Announce /\ ~RollBack /\ ~EndRollBack
  BY DEF RadioAtRest, Mark, EndMark, Store, Announce, RollBack, EndRollBack
<1>4. CASE Fetched(hint, data)
  <2>1. /\ radio.read /\ hint /\ radio'.read = FALSE
        /\ radio'.rx = radio.rx /\ radio'.packets = radio.packets
        /\ radio'.start = radio.start /\ radio'.rollback = radio.rollback
        /\ radio'.received = radio.received /\ radio'.write = radio.write
    BY <1>1, <1>4 DEF Fetched, RadioShape
  <2>2. QED
    BY <2>1 DEF RadioAtRest
<1>5. CASE Fetch(empty) /\ ~RadioMust(hint)
  <2>1. /\ ~radio.read /\ ~empty /\ TRUE \in Fetches /\ radio'.read = TRUE
        /\ radio'.rx = radio.rx /\ radio'.packets = radio.packets
        /\ radio'.start = radio.start /\ radio'.rollback = radio.rollback
        /\ radio'.received = radio.received /\ radio'.write = radio.write
    BY <1>1, <1>5 DEF Fetch, EngineFree, RadioShape
  <2>2. QED
    BY <2>1 DEF RadioAtRest
<1>6. CASE RadioIdles(hint)
  <2>1. radio' = radio /\ ~(radio.read /\ hint)
    BY <1>6 DEF RadioIdles, RadioMust, EngineFree
  <2>2. QED
    BY <2>1 DEF RadioAtRest
<1>7. QED
  BY <1>2, <1>3, <1>4, <1>5, <1>6 DEF Answer, RadioMay

(* What SRAM_ctrl does at an edge, state by state.                          *)
LEMMA StepActs ==
  ASSUME NEW req, NEW start, NEW rollback, NEW d, NEW e,
         Step(req, start, rollback, d, e),
         Current_State \notin {2, 3, 6, 8, 10, 27}
  PROVE  \E wr :
           /\ Current_State = 0 => Arbitrate(req, wr)
           /\ Current_State = 1 => SlaveWrite(d, wr)
           /\ Current_State = 5 => ConfigWrite(d, wr)
           /\ Current_State = 9 => CmdWrite(d, wr)
           /\ Current_State = 4 => MasterRead(wr)
           /\ Current_State = 7 => ConfigWriteDone
           /\ Current_State = 20 => DriveWrite(wr)
           /\ Current_State \in {21, 19} => AccessTime(wr)
           /\ Current_State = 22 => Latch(wr)
           /\ Current_State = 23 => Hint(wr)
           /\ Current_State = 24 => Release(wr)
           /\ Current_State \in {25, 26} => ResetPulse(wr)
           /\ Current_State \in {0, 1, 4, 5, 7, 9, 19, 20, 21, 22, 23, 24, 25, 26}
<1> DEFINE wr == FifoOWrPtr(start, rollback)
<1>1. \/ Arbitrate(req, wr)
      \/ SlaveWrite(d, wr) \/ ConfigWrite(d, wr)
      \/ CmdWrite(d, wr) \/ MasterWrite(e, wr)
      \/ Serve(wr)
  BY DEF Step
<1> HIDE DEF wr
<1>2. ~MasterWrite(e, wr) /\ ~SlaveRead(wr) /\ ~ConfigRead(wr) /\ ~ConfigReadDone(wr)
      /\ ~CmdRead(wr)
  BY DEF MasterWrite, SlaveRead, ConfigRead, ConfigReadDone, CmdRead
<1>3. /\ Arbitrate(req, wr) => Current_State = 0
      /\ SlaveWrite(d, wr) => Current_State = 1
      /\ ConfigWrite(d, wr) => Current_State = 5
      /\ CmdWrite(d, wr) => Current_State = 9
      /\ MasterRead(wr) => Current_State = 4
      /\ ConfigWriteDone => Current_State = 7
  BY DEF Arbitrate, SlaveWrite, ConfigWrite, CmdWrite, MasterRead, ConfigWriteDone
<1>4. /\ DriveWrite(wr) => Current_State = 20
      /\ AccessTime(wr) => Current_State \in {21, 19}
      /\ Latch(wr) => Current_State = 22
      /\ Hint(wr) => Current_State = 23
      /\ Release(wr) => Current_State = 24
      /\ ResetPulse(wr) => Current_State \in {25, 26}
  BY DEF DriveWrite, AccessTime, Latch, Hint, Release, ResetPulse
<1>5. \/ Arbitrate(req, wr) \/ SlaveWrite(d, wr) \/ ConfigWrite(d, wr)
      \/ CmdWrite(d, wr) \/ MasterRead(wr) \/ ConfigWriteDone
      \/ DriveWrite(wr) \/ AccessTime(wr) \/ Latch(wr) \/ Hint(wr)
      \/ Release(wr) \/ ResetPulse(wr)
  BY <1>1, <1>2 DEF Serve, BusCycle
<1>6. QED
  BY <1>3, <1>4, <1>5

(* Its registers one by one: the flags,                                     *)
LEMMA FlagsMove ==
  ASSUME NEW req, NEW start, NEW rollback, NEW d, NEW e, Step(req, start, rollback, d, e)
  PROVE  /\ fifo_i_full' <=> fifo_i_count = FIFO_I_SIZE
         /\ fifo_i_empty' <=> fifo_i_count = 0
BY DEF Step, Edge, UpdateFlags

(* the request granted,                                                     *)
LEMMA GrantMoves ==
  ASSUME NEW req, NEW start, NEW rollback, NEW d, NEW e,
         Step(req, start, rollback, d, e), Current_State = 0
  PROVE  /\ \/ \E r \in req : Granted(r, req) /\ Current_State' = r /\ nUsing'
            \/ /\ \A r \in req : ~Granted(r, req)
               /\ Current_State' = 0 /\ nUsing' = nUsing
         /\ opcode' = opcode /\ slave_hint' = slave_hint /\ master_hint' = master_hint
         /\ fifo_i_count' = fifo_i_count
<1>1. PICK wr : Arbitrate(req, wr)
  BY StepActs
<1>2. QED
  BY <1>1 DEF Arbitrate, answerVars, fifoIVars

(* a word stored                                                            *)
LEMMA StoreMoves ==
  ASSUME NEW req, NEW start, NEW rollback, NEW d, NEW e,
         Step(req, start, rollback, d, e), Current_State \in {1, 5, 9}
  PROVE  /\ Current_State' = 20 /\ nUsing' = nUsing
         /\ opcode' = IF Current_State = 9 THEN 7 ELSE Current_State
         /\ slave_hint' = slave_hint /\ master_hint' = master_hint
         /\ fifo_i_count' = IF Current_State = 1 THEN Inc18(fifo_i_count) ELSE fifo_i_count
<1>1. PICK wr : /\ Current_State = 1 => SlaveWrite(d, wr)
                /\ Current_State = 5 => ConfigWrite(d, wr)
                /\ Current_State = 9 => CmdWrite(d, wr)
  BY StepActs
<1>2. CASE Current_State = 1
  BY <1>1, <1>2 DEF SlaveWrite, StartWrite, answerVars
<1>3. CASE Current_State = 5
  BY <1>1, <1>3 DEF ConfigWrite, StartWrite, answerVars, fifoIVars
<1>4. CASE Current_State = 9
  BY <1>1, <1>4 DEF CmdWrite, StartWrite, answerVars, fifoIVars
<1>5. QED
  BY <1>2, <1>3, <1>4

(* or fetched,                                                              *)
LEMMA FetchMoves ==
  ASSUME NEW req, NEW start, NEW rollback, NEW d, NEW e,
         Step(req, start, rollback, d, e), Current_State = 4
  PROVE  /\ Current_State' = 21 /\ nUsing' = nUsing /\ opcode' = 4
         /\ slave_hint' = slave_hint /\ master_hint' = master_hint
         /\ fifo_i_count' = Dec18(fifo_i_count)
<1>1. PICK wr : MasterRead(wr)
  BY StepActs
<1>2. QED
  BY <1>1 DEF MasterRead, StartRead, answerVars

(* the reset after a configuration,                                         *)
LEMMA ResetMoves ==
  ASSUME NEW req, NEW start, NEW rollback, NEW d, NEW e,
         Step(req, start, rollback, d, e), Current_State \in {7, 25, 26}
  PROVE  /\ Current_State' = CASE Current_State = 7 -> 25 [] Current_State = 25 -> 26
                               [] OTHER -> 0
         /\ nUsing' <=> Current_State # 26 /\ nUsing
         /\ opcode' = opcode /\ slave_hint' = slave_hint /\ master_hint' = master_hint
         /\ fifo_i_count' = IF Current_State = 7 THEN 0 ELSE fifo_i_count
<1>1. PICK wr : /\ Current_State = 7 => ConfigWriteDone
                /\ Current_State \in {25, 26} => ResetPulse(wr)
  BY StepActs
<1>2. CASE Current_State = 7
  BY <1>1, <1>2 DEF ConfigWriteDone, answerVars
<1>3. CASE Current_State \in {25, 26}
  <2>1. /\ Current_State' = (IF Current_State = 25 THEN 26 ELSE 0)
        /\ opcode' = opcode /\ slave_hint' = slave_hint /\ master_hint' = master_hint
        /\ fifo_i_count' = fifo_i_count
    BY <1>1, <1>3 DEF ResetPulse, answerVars, pointerVars, fifoIVars
  <2>2. nUsing' <=> Current_State = 25 /\ nUsing
    BY <1>1, <1>3 DEF ResetPulse
  <2>3. nUsing' <=> Current_State # 26 /\ nUsing
    BY <1>3, <2>2
  <2>4. QED
    BY <1>3, <2>1, <2>3
<1>4. QED
  BY <1>2, <1>3

(* the cycles of the chip,                                                  *)
LEMMA BusMoves ==
  ASSUME NEW req, NEW start, NEW rollback, NEW d, NEW e,
         Step(req, start, rollback, d, e), Current_State \in {19, 20, 21, 22}
  PROVE  /\ Current_State' = CASE Current_State = 19 -> 22 [] Current_State = 22 -> 23
                               [] OTHER -> 19
         /\ nUsing' = nUsing /\ opcode' = opcode
         /\ slave_hint' = slave_hint /\ master_hint' = master_hint
         /\ fifo_i_count' = fifo_i_count
<1>1. PICK wr : /\ Current_State = 20 => DriveWrite(wr)
                /\ Current_State \in {21, 19} => AccessTime(wr)
                /\ Current_State = 22 => Latch(wr)
  BY StepActs
<1>2. CASE Current_State = 20
  BY <1>1, <1>2 DEF DriveWrite, answerVars, pointerVars, fifoIVars
<1>3. CASE Current_State \in {19, 21}
  BY <1>1, <1>3 DEF AccessTime, answerVars, pointerVars, fifoIVars
<1>4. CASE Current_State = 22
  BY <1>1, <1>4 DEF Latch, answerVars, pointerVars, fifoIVars
<1>5. QED
  BY <1>2, <1>3, <1>4

(* the hint                                                                 *)
LEMMA HintMoves ==
  ASSUME NEW req, NEW start, NEW rollback, NEW d, NEW e,
         Step(req, start, rollback, d, e), Current_State = 23
  PROVE  /\ Current_State' = 24 /\ nUsing' = nUsing /\ opcode' = 0
         /\ slave_hint' <=> slave_hint \/ opcode \in SlaveOps
         /\ master_hint' <=> master_hint \/ opcode \in MasterOps
         /\ fifo_i_count' = fifo_i_count
<1>1. PICK wr : Hint(wr)
  BY StepActs
<1>2. QED
  BY <1>1 DEF Hint, pointerVars, fifoIVars

(* and its end.                                                             *)
LEMMA ReleaseMoves ==
  ASSUME NEW req, NEW start, NEW rollback, NEW d, NEW e,
         Step(req, start, rollback, d, e), Current_State = 24
  PROVE  /\ Current_State' = 0 /\ nUsing' = FALSE /\ opcode' = opcode
         /\ slave_hint' = FALSE /\ master_hint' = FALSE
         /\ fifo_i_count' = fifo_i_count
<1>1. PICK wr : Release(wr)
  BY StepActs
<1>2. QED
  BY <1>1 DEF Release, pointerVars, fifoIVars

(* The SRAM_ctrl of a link whose radio only fetches: which request is being *)
(* served, and how many edges a word of the Spi machine still takes.        *)
Ours   == Current_State \in {1, 5, 9} \/ opcode \in {1, 5, 7} \/ slave_hint
Theirs == Current_State = 4 \/ opcode = 4 \/ master_hint

Serving ==
  /\ Current_State \in {0, 1, 4, 5, 7, 9, 19, 20, 21, 22, 23, 24, 25, 26}
  /\ nUsing <=> Current_State # 0
  /\ opcode \in {0, 1, 4, 5, 7} /\ (opcode # 0 <=> Current_State \in {19, 20, 21, 22, 23})
  /\ slave_hint \/ master_hint => Current_State = 24
  /\ Current_State = 24 => (slave_hint <=> ~master_hint)
  /\ Current_State = 20 => opcode # 4
  /\ Current_State = 21 => opcode = 4
  /\ Current_State \in {7, 25, 26} => Configs # {}
  /\ Ours => spi.write_line # 0
  /\ Theirs => radio.read

(* A frame is fetched only when there is a word, and only where no          *)
(* configuration comes to throw it away.                                    *)
Fetching ==
  /\ radio.read => Configs = {} /\ (opcode = 4 \/ master_hint \/ fifo_i_count > 0)
  /\ Configs = {} /\ ~radio.read /\ ~fifo_i_empty => fifo_i_count > 0

(* The room a word was raised for is still there.                           *)
Room ==
  ~Ours => /\ ~fifo_i_full => fifo_i_count < FIFO_I_SIZE
           /\ spi.write_line = 1 => fifo_i_count < FIFO_I_SIZE

OurWait ==
  CASE Current_State = 20 -> 5 [] Current_State = 19 -> 4 [] Current_State = 22 -> 3
    [] Current_State = 23 -> 2 [] Current_State = 24 -> 1 [] OTHER -> 6
TheirWait ==
  CASE Current_State = 0 -> (IF radio.read THEN 14 ELSE 7)
    [] Current_State = 4 -> 13 [] Current_State = 21 -> 12 [] Current_State = 19 -> 11
    [] Current_State \in {7, 22} -> 10 [] Current_State \in {23, 25} -> 9 [] OTHER -> 8
Wait == IF Ours THEN OurWait ELSE TheirWait

(* A word takes at most two accesses of the chip.                           *)
LEMMA WaitRange ==
  Serving => Wait \in Nat /\ 1 <= Wait /\ Wait <= 14
<1>1. OurWait \in Nat /\ 1 <= OurWait /\ OurWait <= 6
  BY DEF OurWait
<1>2. TheirWait \in Nat /\ 7 <= TheirWait /\ TheirWait <= 14
  BY DEF TheirWait
<1>3. QED
  BY <1>1, <1>2 DEF Wait

(* What the neighbours do at an edge.                                       *)
Lines ==
  /\ spi.write_line \in {0, 1, 5, 9} /\ spi'.write_line \in {0, 1, 5, 9}
  /\ spi.write_line = 0 /\ spi'.write_line = 1 => ~fifo_i_full
  /\ spi.write_line # 0 /\ ~slave_hint => spi'.write_line = spi.write_line
  /\ spi.write_line # 0 /\ slave_hint => spi'.write_line = 0
  /\ spi.config_done => spi.write_line = 0 /\ Configs # {}
FetchLine ==
  /\ radio.read /\ master_hint => ~radio'.read
  /\ radio.read /\ ~master_hint => radio'.read
  /\ ~radio.read /\ radio'.read => ~fifo_i_empty /\ TRUE \in Fetches

Asked ==
  (IF spi.write_line = 0 THEN {} ELSE {spi.write_line})
  \cup (IF radio.read THEN {4} ELSE {}) \cup (IF spi.config_done THEN {7} ELSE {})

(* Which request is granted.                                                *)
LEMMA Arbitrated ==
  ASSUME TypeOK, FlagsTrueWhenArbitrating, Serving, Fetching, Room, Lines, FetchLine,
         NEW start, NEW rollback, NEW d, NEW e, Step(Asked, start, rollback, d, e),
         Current_State = 0
  PROVE  /\ opcode' = 0 /\ ~slave_hint' /\ ~master_hint' /\ fifo_i_count' = fifo_i_count
         /\ \/ Current_State' = 0 /\ ~nUsing' /\ spi.write_line = 0
            \/ Current_State' = spi.write_line /\ spi.write_line # 0 /\ nUsing'
            \/ Current_State' = 4 /\ radio.read /\ nUsing'
            \/ Current_State' = 7 /\ Configs # {} /\ spi.write_line = 0 /\ nUsing'
<1> DEFINE w == spi.write_line
<1>1. opcode = 0 /\ ~slave_hint /\ ~master_hint /\ ~nUsing /\ ~Ours
  BY DEF Serving, Ours
<1>2. /\ \/ \E r \in Asked : Granted(r, Asked) /\ Current_State' = r /\ nUsing'
         \/ /\ \A r \in Asked : ~Granted(r, Asked)
            /\ Current_State' = 0 /\ nUsing' = nUsing
      /\ opcode' = opcode /\ slave_hint' = slave_hint /\ master_hint' = master_hint
      /\ fifo_i_count' = fifo_i_count
  BY GrantMoves
<1>3. /\ w \in {0, 1, 5, 9} /\ (w = 1 => ~fifo_i_full)
      /\ radio.read => ~fifo_i_empty
      /\ spi.config_done => w = 0 /\ Configs # {} /\ ~radio.read
      /\ radio.read => Configs = {}
  <2>1. w = 1 => fifo_i_count < FIFO_I_SIZE
    BY <1>1 DEF Room
  <2>2. fifo_i_count \in Nat /\ FIFO_I_SIZE \in Nat
    BY LayoutAssumption DEF TypeOK, Addr, FIFO_I_SIZE
  <2>7. (fifo_i_full <=> fifo_i_count = FIFO_I_SIZE) /\ (fifo_i_empty <=> fifo_i_count = 0)
    BY DEF FlagsTrueWhenArbitrating
  <2>3. w = 1 => ~fifo_i_full
    BY <2>1, <2>2, <2>7
  <2>4. radio.read => fifo_i_count > 0 /\ Configs = {}
    BY <1>1 DEF Fetching
  <2>5. radio.read => ~fifo_i_empty
    BY <2>2, <2>4, <2>7
  <2>6. QED
    BY <2>3, <2>4, <2>5 DEF Lines
<1>4. \A r \in Asked : r \in {1, 4, 5, 7, 9} /\ (r = 4 => radio.read)
                       /\ (r = 7 => Configs # {} /\ w = 0) /\ (r \in {1, 5, 9} => r = w /\ w # 0)
  BY <1>3 DEF Asked
<1>5. CASE \E r \in Asked : Granted(r, Asked) /\ Current_State' = r /\ nUsing'
  <2>1. PICK r \in Asked : Current_State' = r /\ nUsing'
    BY <1>5
  <2>2. CASE r = 4
    BY <1>1, <1>2, <1>4, <2>1, <2>2
  <2>3. CASE r = 7
    BY <1>1, <1>2, <1>4, <2>1, <2>3
  <2>4. CASE r \in {1, 5, 9}
    BY <1>1, <1>2, <1>4, <2>1, <2>4
  <2>5. QED
    BY <1>4, <2>1, <2>2, <2>3, <2>4
<1>6. CASE \A r \in Asked : ~Granted(r, Asked)
  <2>1. w = 0
    <3>1. CASE w = 1
      <4>1. 1 \in Asked /\ \A q \in Asked : 1 <= q
        BY <1>4, <3>1 DEF Asked
      <4>2. ~Blocked(1)
        BY <1>3, <3>1 DEF Blocked, slave_write, slave_read, master_write, master_read
      <4>3. QED
        BY <1>1, <1>6, <4>1, <4>2 DEF Granted, First
    <3>2. CASE w # 0 /\ w # 1 /\ radio.read
      <4>1. 4 \in Asked /\ \A q \in Asked : 4 <= q
        BY <1>3, <1>4, <3>2 DEF Asked
      <4>2. ~Blocked(4)
        BY <1>3, <3>2 DEF Blocked, slave_write, slave_read, master_write, master_read
      <4>3. QED
        BY <1>1, <1>6, <4>1, <4>2 DEF Granted, First
    <3>3. CASE w # 0 /\ w # 1 /\ ~radio.read
      <4>1. w \in Asked /\ \A q \in Asked : q = w
        BY <1>3, <1>4, <3>3 DEF Asked
      <4>2. ~Blocked(w)
        BY <1>3, <3>3 DEF Blocked, slave_write, slave_read, master_write, master_read
      <4>3. First(w, Asked)
        BY <1>3, <3>3, <4>1 DEF First
      <4>4. QED
        BY <1>1, <1>6, <4>1, <4>2, <4>3 DEF Granted
    <3>4. QED
      BY <3>1, <3>2, <3>3
  <2>2. Current_State' = 0 /\ ~nUsing'
    <3>1. ~\E r \in Asked : Granted(r, Asked) /\ Current_State' = r /\ nUsing'
      BY <1>6
    <3>2. QED
      BY <1>1, <1>2, <3>1
  <2>3. QED
    BY <1>1, <1>2, <2>1, <2>2
<1>7. QED
  BY <1>2, <1>5, <1>6

(* An edge of it, with what is known before.                                *)
ArbiterEdge(start, rollback, d, e) ==
  /\ Configs = {} \/ TRUE \notin Fetches
  /\ CountsInBounds
  /\ TypeOK /\ FlagsTrueWhenArbitrating /\ Serving /\ Fetching /\ Room /\ Lines /\ FetchLine
  /\ Step(Asked, start, rollback, d, e)

(* The lines stay raised until the hint.                                    *)
LEMMA LinesKept ==
  ASSUME Serving, Lines, FetchLine
  PROVE  /\ Ours /\ ~slave_hint => spi.write_line # 0 /\ spi'.write_line # 0
         /\ Theirs /\ ~master_hint => radio.read /\ radio'.read
<1>1. Ours => spi.write_line # 0
  BY DEF Serving
<1>2. Theirs => radio.read
  BY DEF Serving
<1>3. QED
  BY <1>1, <1>2 DEF Lines, FetchLine

(* It serves one request at a time, and answers the one it serves.          *)
LEMMA ServingStep ==
  ASSUME NEW start, NEW rollback, NEW d, NEW e, ArbiterEdge(start, rollback, d, e)
  PROVE  Serving'
<1> USE DEF ArbiterEdge
<1>1. /\ Current_State \in {0, 1, 4, 5, 7, 9, 19, 20, 21, 22, 23, 24, 25, 26}
      /\ nUsing <=> Current_State # 0
      /\ opcode \in {0, 1, 4, 5, 7}
      /\ (opcode # 0 <=> Current_State \in {19, 20, 21, 22, 23})
      /\ slave_hint \/ master_hint => Current_State = 24
      /\ Current_State = 24 => (slave_hint <=> ~master_hint)
      /\ Current_State = 20 => opcode # 4
      /\ Current_State = 21 => opcode = 4
      /\ Current_State \in {7, 25, 26} => Configs # {}
  BY DEF Serving
<1>2. /\ Ours /\ ~slave_hint => spi'.write_line # 0
      /\ Theirs /\ ~master_hint => radio'.read
  BY LinesKept
<1>3. CASE Current_State = 0
  <2>1. opcode' = 0 /\ ~slave_hint' /\ ~master_hint' /\ ~slave_hint /\ ~master_hint
    BY <1>1, <1>3, Arbitrated
  <2>2. \/ Current_State' = 0 /\ ~nUsing' /\ spi.write_line = 0
        \/ Current_State' = spi.write_line /\ spi.write_line # 0 /\ nUsing'
        \/ Current_State' = 4 /\ radio.read /\ nUsing'
        \/ Current_State' = 7 /\ Configs # {} /\ spi.write_line = 0 /\ nUsing'
    BY <1>3, Arbitrated
  <2>3. CASE Current_State' = 0 /\ ~nUsing'
    BY <2>1, <2>3 DEF Serving, Ours, Theirs
  <2>4. CASE Current_State' = spi.write_line /\ spi.write_line # 0 /\ nUsing'
    <3>1. spi'.write_line # 0 /\ Current_State' \in {1, 5, 9}
      BY <2>1, <2>4 DEF Lines
    <3>2. QED
      BY <2>1, <2>4, <3>1 DEF Serving, Ours, Theirs
  <2>5. CASE Current_State' = 4 /\ radio.read /\ nUsing'
    <3>1. radio'.read
      BY <2>1, <2>5 DEF FetchLine
    <3>2. QED
      BY <2>1, <2>5, <3>1 DEF Serving, Ours, Theirs
  <2>6. CASE Current_State' = 7 /\ Configs # {} /\ nUsing'
    BY <2>1, <2>6 DEF Serving, Ours, Theirs
  <2>7. QED
    BY <2>2, <2>3, <2>4, <2>5, <2>6
<1>4. CASE Current_State \in {1, 5, 9}
  <2>1. /\ Current_State' = 20 /\ nUsing' = nUsing
        /\ opcode' = (IF Current_State = 9 THEN 7 ELSE Current_State)
        /\ slave_hint' = slave_hint /\ master_hint' = master_hint
    BY <1>4, StoreMoves
  <2>2. opcode' \in {1, 5, 7} /\ ~slave_hint' /\ ~master_hint' /\ nUsing'
    BY <1>1, <1>4, <2>1
  <2>3. spi'.write_line # 0
    BY <1>1, <1>2, <1>4 DEF Ours
  <2>4. QED
    BY <2>1, <2>2, <2>3 DEF Serving, Ours, Theirs
<1>5. CASE Current_State = 4
  <2>1. /\ Current_State' = 21 /\ nUsing' = nUsing /\ opcode' = 4
        /\ slave_hint' = slave_hint /\ master_hint' = master_hint
    BY <1>5, FetchMoves
  <2>2. ~slave_hint' /\ ~master_hint' /\ nUsing'
    BY <1>1, <1>5, <2>1
  <2>3. radio'.read
    BY <1>1, <1>2, <1>5 DEF Theirs
  <2>4. QED
    BY <2>1, <2>2, <2>3 DEF Serving, Ours, Theirs
<1>6. CASE Current_State \in {7, 25, 26}
  <2>1. /\ Current_State' = (CASE Current_State = 7 -> 25 [] Current_State = 25 -> 26
                               [] OTHER -> 0)
        /\ nUsing' <=> Current_State # 26 /\ nUsing
        /\ opcode' = opcode /\ slave_hint' = slave_hint /\ master_hint' = master_hint
    BY <1>6, ResetMoves
  <2>2. ~slave_hint' /\ ~master_hint' /\ opcode' = 0 /\ (nUsing' <=> Current_State' # 0)
        /\ Current_State' \in {25, 26, 0} /\ Configs # {}
    BY <1>1, <1>6, <2>1
  <2>3. QED
    BY <2>2 DEF Serving, Ours, Theirs
<1>7. CASE Current_State \in {19, 20, 21, 22}
  <2>1. /\ Current_State' = (CASE Current_State = 19 -> 22 [] Current_State = 22 -> 23
                               [] OTHER -> 19)
        /\ nUsing' = nUsing /\ opcode' = opcode
        /\ slave_hint' = slave_hint /\ master_hint' = master_hint
    BY <1>7, BusMoves
  <2>2. ~slave_hint' /\ ~master_hint' /\ opcode' \in {1, 4, 5, 7} /\ nUsing'
        /\ Current_State' \in {19, 22, 23} /\ opcode' = opcode /\ ~slave_hint
        /\ ~master_hint
    BY <1>1, <1>7, <2>1
  <2>3. /\ opcode' \in {1, 5, 7} => spi'.write_line # 0
        /\ opcode' = 4 => radio'.read
    BY <1>2, <2>2 DEF Ours, Theirs
  <2>4. QED
    BY <2>2, <2>3 DEF Serving, Ours, Theirs
<1>8. CASE Current_State = 23
  <2>1. /\ Current_State' = 24 /\ nUsing' = nUsing /\ opcode' = 0
        /\ slave_hint' <=> slave_hint \/ opcode \in SlaveOps
        /\ master_hint' <=> master_hint \/ opcode \in MasterOps
    BY <1>8, HintMoves
  <2>2. /\ ~slave_hint /\ ~master_hint /\ nUsing' /\ opcode \in {1, 4, 5, 7}
        /\ (slave_hint' <=> opcode \in {1, 5, 7}) /\ (master_hint' <=> opcode = 4)
    BY <1>1, <1>8, <2>1 DEF SlaveOps, MasterOps
  <2>3. /\ slave_hint' => spi'.write_line # 0
        /\ master_hint' => radio'.read
    BY <1>2, <2>2 DEF Ours, Theirs
  <2>4. slave_hint' <=> ~master_hint'
    BY <2>2
  <2>5. QED
    BY <2>1, <2>2, <2>3, <2>4 DEF Serving, Ours, Theirs
<1>9. CASE Current_State = 24
  <2>1. /\ Current_State' = 0 /\ nUsing' = FALSE /\ opcode' = opcode
        /\ slave_hint' = FALSE /\ master_hint' = FALSE
    BY <1>9, ReleaseMoves
  <2>2. opcode' = 0 /\ ~nUsing' /\ ~slave_hint' /\ ~master_hint'
    BY <1>1, <1>9, <2>1
  <2>3. QED
    BY <2>1, <2>2 DEF Serving, Ours, Theirs
<1>10. QED
  BY <1>1, <1>3, <1>4, <1>5, <1>6, <1>7, <1>8, <1>9

(* A word is answered within so many edges.                                 *)
LEMMA WaitStep ==
  ASSUME NEW start, NEW rollback, NEW d, NEW e, ArbiterEdge(start, rollback, d, e),
         spi.write_line # 0, ~slave_hint
  PROVE  Wait' < Wait
<1> USE DEF ArbiterEdge
<1>1. /\ Current_State \in {0, 1, 4, 5, 7, 9, 19, 20, 21, 22, 23, 24, 25, 26}
      /\ opcode \in {0, 1, 4, 5, 7}
      /\ (opcode # 0 <=> Current_State \in {19, 20, 21, 22, 23})
      /\ master_hint => Current_State = 24
      /\ Current_State = 24 => (slave_hint <=> ~master_hint)
      /\ Current_State = 20 => opcode # 4
      /\ Current_State = 21 => opcode = 4
      /\ Current_State \in {7, 25, 26} => Configs # {}
  BY DEF Serving
<1>2. spi'.write_line = spi.write_line
  BY DEF Lines
<1>3. CASE Current_State = 0
  <2>1. opcode' = 0 /\ ~slave_hint' /\ ~Ours /\ Wait = (IF radio.read THEN 14 ELSE 7)
    BY <1>1, <1>3, Arbitrated DEF Ours, Wait, TheirWait
  <2>2. \/ Current_State' \in {1, 5, 9}
        \/ Current_State' = 4 /\ radio.read
    BY <1>3, Arbitrated DEF Lines
  <2>3. CASE Current_State' \in {1, 5, 9}
    <3>1. Wait' = 6
      BY <2>3 DEF Wait, Ours, OurWait
    <3>2. QED
      BY <2>1, <3>1
  <2>4. CASE Current_State' = 4 /\ radio.read
    <3>1. Wait' = 13
      BY <2>1, <2>4 DEF Wait, Ours, TheirWait
    <3>2. QED
      BY <2>1, <2>4, <3>1
  <2>5. QED
    BY <2>2, <2>3, <2>4
<1>4. CASE Current_State \in {1, 5, 9}
  <2>1. /\ Current_State' = 20
        /\ opcode' = (IF Current_State = 9 THEN 7 ELSE Current_State)
    BY <1>4, StoreMoves
  <2>2. opcode' \in {1, 5, 7}
    BY <1>4, <2>1
  <2>3. Wait = 6 /\ Wait' = 5
    BY <1>4, <2>1, <2>2 DEF Wait, Ours, OurWait
  <2>4. QED
    BY <2>3
<1>5. CASE Current_State = 4
  <2>1. Current_State' = 21 /\ opcode' = 4 /\ ~slave_hint'
    BY <1>1, <1>5, FetchMoves
  <2>2. Wait = 13 /\ Wait' = 12
    BY <1>1, <1>5, <2>1 DEF Wait, Ours, TheirWait
  <2>3. QED
    BY <2>2
<1>6. CASE Current_State \in {7, 25, 26}
  <2>1. /\ Current_State' = (CASE Current_State = 7 -> 25 [] Current_State = 25 -> 26
                               [] OTHER -> 0)
        /\ opcode' = 0 /\ ~slave_hint'
    BY <1>1, <1>6, ResetMoves
  <2>2. ~radio'.read
    BY <1>1, <1>6 DEF Fetching, FetchLine
  <2>3. CASE Current_State = 7
    <3>1. Wait = 10 /\ Wait' = 9
      BY <1>1, <2>1, <2>3 DEF Wait, Ours, TheirWait
    <3>2. QED
      BY <3>1
  <2>4. CASE Current_State = 25
    <3>1. Wait = 9 /\ Wait' = 8
      BY <1>1, <2>1, <2>4 DEF Wait, Ours, TheirWait
    <3>2. QED
      BY <3>1
  <2>5. CASE Current_State = 26
    <3>1. Wait = 8 /\ Wait' = 7
      BY <1>1, <2>1, <2>2, <2>5 DEF Wait, Ours, TheirWait
    <3>2. QED
      BY <3>1
  <2>6. QED
    BY <1>6, <2>3, <2>4, <2>5
<1>7. CASE Current_State \in {19, 20, 21, 22}
  <2>1. /\ Current_State' = (CASE Current_State = 19 -> 22 [] Current_State = 22 -> 23
                               [] OTHER -> 19)
        /\ opcode' = opcode /\ ~slave_hint'
    BY <1>7, BusMoves
  <2>2. opcode \in {1, 4, 5, 7}
    BY <1>1, <1>7
  <2>3. CASE opcode = 4
    <3>1. ~Ours /\ ~Ours' /\ Current_State # 20
      BY <1>1, <1>7, <2>1, <2>3 DEF Ours
    <3>2. Wait = TheirWait /\ Wait' = TheirWait'
      BY <3>1 DEF Wait
    <3>3. TheirWait' < TheirWait
      BY <1>7, <2>1, <3>1 DEF TheirWait
    <3>4. QED
      BY <3>2, <3>3
  <2>4. CASE opcode \in {1, 5, 7}
    <3>1. Ours /\ Ours' /\ Current_State # 21
      BY <1>1, <1>7, <2>1, <2>4 DEF Ours
    <3>2. Wait = OurWait /\ Wait' = OurWait'
      BY <3>1 DEF Wait
    <3>3. OurWait' < OurWait
      BY <1>7, <2>1, <3>1 DEF OurWait
    <3>4. QED
      BY <3>2, <3>3
  <2>5. QED
    BY <2>2, <2>3, <2>4
<1>8. CASE Current_State = 23
  <2>1. /\ Current_State' = 24 /\ opcode' = 0
        /\ slave_hint' <=> slave_hint \/ opcode \in SlaveOps
    BY <1>8, HintMoves
  <2>2. opcode \in {1, 4, 5, 7} /\ (slave_hint' <=> opcode \in {1, 5, 7})
    BY <1>1, <1>8, <2>1 DEF SlaveOps
  <2>3. CASE opcode = 4
    <3>1. Wait = 9 /\ Wait' = 8
      BY <1>8, <2>1, <2>2, <2>3 DEF Wait, Ours, TheirWait
    <3>2. QED
      BY <3>1
  <2>4. CASE opcode \in {1, 5, 7}
    <3>1. Wait = 2 /\ Wait' = 1
      BY <1>8, <2>1, <2>2, <2>4 DEF Wait, Ours, OurWait
    <3>2. QED
      BY <3>1
  <2>5. QED
    BY <2>2, <2>3, <2>4
<1>9. CASE Current_State = 24
  <2>4. Current_State' = 0 /\ opcode' = opcode /\ slave_hint' = FALSE
    BY <1>9, ReleaseMoves
  <2>1. Current_State' = 0 /\ opcode' = 0 /\ ~slave_hint' /\ master_hint
    BY <1>1, <1>9, <2>4
  <2>2. ~radio'.read
    BY <2>1 DEF Serving, Theirs, FetchLine
  <2>3. Wait = 8 /\ Wait' = 7
    BY <1>1, <1>9, <2>1, <2>2 DEF Wait, Ours, TheirWait
  <2>5. QED
    BY <2>3
<1>10. QED
  BY <1>1, <1>3, <1>4, <1>5, <1>6, <1>7, <1>8, <1>9

(* What becomes of the number of words in FIFO_I.                           *)
LEMMA CountMoves ==
  ASSUME NEW start, NEW rollback, NEW d, NEW e, ArbiterEdge(start, rollback, d, e)
  PROVE  /\ FIFO_I_SIZE \in Nat /\ fifo_i_count \in Nat /\ fifo_i_count <= FIFO_I_SIZE
         /\ Current_State = 1 => fifo_i_count' = fifo_i_count + 1
         /\ Current_State = 4 => fifo_i_count > 0 /\ fifo_i_count' = fifo_i_count - 1
         /\ Current_State = 7 => fifo_i_count' = 0
         /\ Current_State \notin {1, 4, 7} => fifo_i_count' = fifo_i_count
         /\ fifo_i_full' <=> fifo_i_count = FIFO_I_SIZE
         /\ fifo_i_empty' <=> fifo_i_count = 0
<1> USE DEF ArbiterEdge
<1>1. /\ FIFO_I_SIZE \in Nat /\ FIFO_I_SIZE < ADDR_SPACE - 1 /\ ADDR_SPACE \in Nat
  BY LayoutAssumption DEF FIFO_I_SIZE
<1>2. fifo_i_count \in Nat /\ fifo_i_count <= FIFO_I_SIZE
  BY <1>1 DEF CountsInBounds
<1>3. ASSUME Current_State = 1
      PROVE  fifo_i_count' = fifo_i_count + 1
  BY <1>1, <1>2, <1>3, StoreMoves DEF Inc18
<1>4. ASSUME Current_State = 4
      PROVE  fifo_i_count > 0 /\ fifo_i_count' = fifo_i_count - 1
  <2>1. opcode # 4 /\ ~master_hint /\ radio.read
    BY <1>4 DEF Serving, Theirs
  <2>2. fifo_i_count > 0
    BY <2>1 DEF Fetching
  <2>3. QED
    BY <1>2, <1>4, <2>2, FetchMoves DEF Dec18
<1>5. ASSUME Current_State = 7
      PROVE  fifo_i_count' = 0
  BY <1>5, ResetMoves
<1>6. ASSUME Current_State \notin {1, 4, 7}
      PROVE  fifo_i_count' = fifo_i_count
  <2>1. Current_State \in {0, 5, 9, 19, 20, 21, 22, 23, 24, 25, 26}
    BY <1>6 DEF Serving
  <2>2. CASE Current_State = 0
    BY <2>2, GrantMoves
  <2>3. CASE Current_State \in {5, 9}
    BY <2>3, StoreMoves
  <2>4. CASE Current_State \in {19, 20, 21, 22}
    BY <2>4, BusMoves
  <2>5. CASE Current_State = 23
    BY <2>5, HintMoves
  <2>6. CASE Current_State = 24
    BY <2>6, ReleaseMoves
  <2>7. CASE Current_State \in {25, 26}
    BY <2>7, ResetMoves
  <2>8. QED
    BY <2>1, <2>2, <2>3, <2>4, <2>5, <2>6, <2>7
<1>7. (fifo_i_full' <=> fifo_i_count = FIFO_I_SIZE) /\ (fifo_i_empty' <=> fifo_i_count = 0)
  BY FlagsMove
<1>8. QED
  BY <1>1, <1>2, <1>3, <1>4, <1>5, <1>6, <1>7

(* A frame fetched is there,                                                *)
LEMMA FetchingStep ==
  ASSUME NEW start, NEW rollback, NEW d, NEW e, ArbiterEdge(start, rollback, d, e)
  PROVE  Fetching'
<1>1. /\ fifo_i_count \in Nat
      /\ Current_State = 1 => fifo_i_count' = fifo_i_count + 1
      /\ Current_State \notin {1, 4, 7} => fifo_i_count' = fifo_i_count
      /\ fifo_i_empty' <=> fifo_i_count = 0
  BY CountMoves
<1>2. /\ radio.read => Configs = {} /\ (opcode = 4 \/ master_hint \/ fifo_i_count > 0)
      /\ Configs = {} /\ ~radio.read /\ ~fifo_i_empty => fifo_i_count > 0
      /\ Configs = {} \/ TRUE \notin Fetches
  BY DEF ArbiterEdge, Fetching
<1>3. /\ Current_State \in {7, 25, 26} => Configs # {}
      /\ Current_State = 4 => radio.read /\ ~master_hint
      /\ opcode = 4 => Current_State \in {19, 20, 21, 22, 23}
  BY DEF ArbiterEdge, Serving, Theirs
<1>4. /\ radio.read /\ master_hint => ~radio'.read
      /\ radio.read /\ ~master_hint => radio'.read
      /\ ~radio.read /\ radio'.read => ~fifo_i_empty /\ TRUE \in Fetches
  BY DEF ArbiterEdge, FetchLine
<1>5. ASSUME opcode = 4
      PROVE  opcode' = 4 \/ master_hint'
  <2>1. CASE Current_State \in {19, 20, 21, 22}
    BY <1>5, <2>1, BusMoves DEF ArbiterEdge
  <2>2. CASE Current_State = 23
    BY <1>5, <2>2, HintMoves DEF ArbiterEdge, MasterOps
  <2>3. QED
    BY <1>3, <1>5, <2>1, <2>2
<1>6. ASSUME fifo_i_count > 0, Configs = {}
      PROVE  opcode' = 4 \/ fifo_i_count' > 0
  <2>1. CASE Current_State = 4
    BY <2>1, FetchMoves DEF ArbiterEdge
  <2>2. CASE Current_State # 4
    BY <1>1, <1>3, <1>6, <2>2
  <2>3. QED
    BY <2>1, <2>2
<1>7. radio'.read => Configs = {} /\ (opcode' = 4 \/ master_hint' \/ fifo_i_count' > 0)
  <2>1. CASE ~radio.read
    BY <1>2, <1>4, <1>6, <2>1
  <2>2. CASE radio.read
    BY <1>2, <1>4, <1>5, <1>6, <2>2
  <2>3. QED
    BY <2>1, <2>2
<1>8. ASSUME Configs = {}, ~radio'.read, ~fifo_i_empty'
      PROVE  fifo_i_count' > 0
  <2>1. Current_State \notin {4, 7}
    BY <1>3, <1>4, <1>8
  <2>2. QED
    BY <1>1, <1>8, <2>1
<1>9. QED
  BY <1>7, <1>8 DEF Fetching

(* and so is the room of a word raised.                                     *)
LEMMA RoomStep ==
  ASSUME NEW start, NEW rollback, NEW d, NEW e, ArbiterEdge(start, rollback, d, e)
  PROVE  Room'
<1>1. /\ FIFO_I_SIZE \in Nat /\ fifo_i_count \in Nat /\ fifo_i_count <= FIFO_I_SIZE
      /\ Current_State = 4 => fifo_i_count > 0 /\ fifo_i_count' = fifo_i_count - 1
      /\ Current_State = 7 => fifo_i_count' = 0
      /\ Current_State \notin {1, 4, 7} => fifo_i_count' = fifo_i_count
      /\ fifo_i_full' <=> fifo_i_count = FIFO_I_SIZE
  BY CountMoves
<1>2. ~Ours => /\ ~fifo_i_full => fifo_i_count < FIFO_I_SIZE
               /\ spi.write_line = 1 => fifo_i_count < FIFO_I_SIZE
  BY DEF ArbiterEdge, Room
<1>3. /\ spi.write_line \in {0, 1, 5, 9}
      /\ spi.write_line = 0 /\ spi'.write_line = 1 => ~fifo_i_full
      /\ spi.write_line # 0 /\ ~slave_hint => spi'.write_line = spi.write_line
      /\ spi.write_line # 0 /\ slave_hint => spi'.write_line = 0
      /\ Ours => spi.write_line # 0
  BY DEF ArbiterEdge, Lines, Serving
<1>4. ASSUME Ours, ~slave_hint
      PROVE  Ours'
  <2>1. \/ Current_State \in {1, 5, 9}
        \/ opcode \in {1, 5, 7} /\ Current_State \in {19, 20, 21, 22, 23}
    BY <1>4 DEF Ours, ArbiterEdge, Serving
  <2>2. CASE Current_State \in {1, 5, 9}
    <3>1. opcode' = IF Current_State = 9 THEN 7 ELSE Current_State
      BY <2>2, StoreMoves DEF ArbiterEdge
    <3>2. opcode' \in {1, 5, 7}
      BY <2>2, <3>1
    <3>3. QED
      BY <3>2 DEF Ours
  <2>3. CASE opcode \in {1, 5, 7} /\ Current_State \in {19, 20, 21, 22}
    BY <2>3, BusMoves DEF Ours, ArbiterEdge
  <2>4. CASE opcode \in {1, 5, 7} /\ Current_State = 23
    BY <2>4, HintMoves DEF Ours, ArbiterEdge, SlaveOps
  <2>5. QED
    BY <2>1, <2>2, <2>3, <2>4
<1>5. ASSUME ~Ours'
      PROVE  Current_State # 1 /\ fifo_i_count' \in Nat /\ fifo_i_count' <= fifo_i_count
  <2>1. Current_State = 1 => Ours /\ ~slave_hint
    BY DEF Ours, ArbiterEdge, Serving
  <2>2. QED
    BY <1>1, <1>4, <1>5, <2>1
<1>6. ASSUME ~Ours', ~fifo_i_full'
      PROVE  fifo_i_count' < FIFO_I_SIZE
  BY <1>1, <1>5, <1>6
<1>7. ASSUME ~Ours', spi'.write_line = 1
      PROVE  fifo_i_count' < FIFO_I_SIZE
  <2>1. ~Ours
    BY <1>3, <1>4, <1>7
  <2>2. fifo_i_count < FIFO_I_SIZE
    BY <1>2, <1>3, <1>7, <2>1
  <2>3. QED
    BY <1>1, <1>5, <1>7, <2>2
<1>8. QED
  BY <1>6, <1>7 DEF Room

(* A word raised, but not yet in FIFO_I: writing is the word that is going  *)
(* there.                                                                   *)
Mine == Current_State = 1 => spi.write_line = 1
Due == IF spi.write_line = 1 /\ ~(opcode = 1 \/ slave_hint) THEN 1 ELSE 0
Rise == IF spi.write_line = 0 /\ spi'.write_line = 1 THEN 1 ELSE 0

(* An edge stores a word that was raised or leaves it due.                  *)
LEMMA DueStep ==
  ASSUME Mine, NEW start, NEW rollback, NEW d, NEW e, ArbiterEdge(start, rollback, d, e)
  PROVE  /\ Mine' /\ fifo_i_count' + Due' <= fifo_i_count + Due + Rise
         /\ FIFO_I_SIZE \in Nat /\ fifo_i_count \in Nat /\ fifo_i_count' \in Nat
         /\ fifo_i_full' <=> fifo_i_count = FIFO_I_SIZE
<1> USE DEF ArbiterEdge
<1>1. /\ FIFO_I_SIZE \in Nat /\ fifo_i_count \in Nat
      /\ Current_State = 1 => fifo_i_count' = fifo_i_count + 1
      /\ Current_State = 4 => fifo_i_count > 0 /\ fifo_i_count' = fifo_i_count - 1
      /\ Current_State = 7 => fifo_i_count' = 0
      /\ Current_State \notin {1, 4, 7} => fifo_i_count' = fifo_i_count
      /\ (fifo_i_full' <=> fifo_i_count = FIFO_I_SIZE)
  BY CountMoves
<1>2. /\ Current_State \in {0, 1, 4, 5, 7, 9, 19, 20, 21, 22, 23, 24, 25, 26}
      /\ opcode \in {0, 1, 4, 5, 7}
      /\ (opcode # 0 <=> Current_State \in {19, 20, 21, 22, 23})
      /\ slave_hint => Current_State = 24
      /\ Ours => spi.write_line # 0
  BY DEF Serving
<1>3. /\ spi.write_line # 0 /\ ~slave_hint => spi'.write_line = spi.write_line
      /\ spi.write_line # 0 /\ slave_hint => spi'.write_line = 0
  BY DEF Lines
<1>4. Due \in {0, 1} /\ Due' \in {0, 1} /\ Rise \in {0, 1}
  BY DEF Due, Rise
<1>5. fifo_i_count' \in Nat /\ (Current_State # 1 => fifo_i_count' <= fifo_i_count)
  BY <1>1
<1>6. Current_State' = 1 => Current_State = 0 /\ spi.write_line = 1 /\ ~slave_hint
  <2>1. CASE Current_State = 0
    BY <1>2, <2>1, Arbitrated
  <2>2. CASE Current_State \in {1, 5, 9}
    BY <2>2, StoreMoves
  <2>3. CASE Current_State = 4
    BY <2>3, FetchMoves
  <2>4. CASE Current_State \in {7, 25, 26}
    BY <2>4, ResetMoves
  <2>5. CASE Current_State \in {19, 20, 21, 22}
    BY <2>5, BusMoves
  <2>6. CASE Current_State = 23
    BY <2>6, HintMoves
  <2>7. CASE Current_State = 24
    BY <2>7, ReleaseMoves
  <2>8. QED
    BY <1>2, <2>1, <2>2, <2>3, <2>4, <2>5, <2>6, <2>7
<1>7. Mine'
  BY <1>3, <1>6 DEF Mine
<1>8. CASE Current_State = 1
  <2>1. spi.write_line = 1 /\ opcode = 0 /\ ~slave_hint
    BY <1>2, <1>8 DEF Mine
  <2>2. Due = 1
    BY <2>1 DEF Due
  <2>3. opcode' = 1
    BY <1>8, StoreMoves
  <2>4. Due' = 0
    BY <2>3 DEF Due
  <2>5. fifo_i_count' = fifo_i_count + 1
    BY <1>1, <1>8
  <2>6. QED
    BY <1>1, <1>4, <1>5, <1>7, <2>2, <2>4, <2>5
<1>9. CASE Current_State # 1
  <2>1. opcode = 1 => opcode' = 1 \/ slave_hint'
    <3> SUFFICES ASSUME opcode = 1
                 PROVE  opcode' = 1 \/ slave_hint'
      OBVIOUS
    <3>1. CASE Current_State \in {19, 20, 21, 22}
      BY <3>1, BusMoves
    <3>2. CASE Current_State = 23
      <4>1. slave_hint' <=> slave_hint \/ opcode \in SlaveOps
        BY <3>2, HintMoves
      <4>2. QED
        BY <4>1 DEF SlaveOps
    <3>3. QED
      BY <1>2, <3>1, <3>2
  <2>2. (spi.write_line = 1 /\ (opcode = 1 \/ slave_hint)) => Due' = 0
    BY <1>3, <2>1 DEF Due
  <2>3. Due' <= Due + Rise
    <3>1. CASE spi.write_line = 1 /\ (opcode = 1 \/ slave_hint)
      BY <1>4, <2>2, <3>1
    <3>2. CASE spi.write_line = 1 /\ ~(opcode = 1 \/ slave_hint)
      <4>1. Due = 1
        BY <3>2 DEF Due
      <4>2. QED
        BY <1>4, <4>1
    <3>3. CASE spi.write_line # 1
      <4>1. CASE spi'.write_line = 1
        <5>1. spi.write_line = 0
          BY <1>3, <3>3, <4>1
        <5>2. Rise = 1
          BY <4>1, <5>1 DEF Rise
        <5>3. QED
          BY <1>4, <5>2
      <4>2. CASE spi'.write_line # 1
        <5>1. Due' = 0
          BY <4>2 DEF Due
        <5>2. QED
          BY <1>4, <5>1
      <4>3. QED
        BY <4>1, <4>2
    <3>4. QED
      BY <3>1, <3>2, <3>3
  <2>4. fifo_i_count' + Due' <= fifo_i_count + Due + Rise
    <3>1. fifo_i_count' \in Nat /\ fifo_i_count \in Nat /\ fifo_i_count' <= fifo_i_count
      BY <1>1, <1>5, <1>9
    <3> DEFINE a == Due'
    <3> DEFINE b == Due
    <3> DEFINE r == Rise
    <3> DEFINE x == fifo_i_count'
    <3> DEFINE y == fifo_i_count
    <3>2. a \in {0, 1} /\ b \in {0, 1} /\ r \in {0, 1} /\ a <= b + r
          /\ x \in Nat /\ y \in Nat /\ x <= y
      BY <1>4, <2>3, <3>1
    <3> HIDE DEF a, b, r, x, y
    <3>3. x + a <= y + b + r
      BY <3>2
    <3>4. QED
      BY <3>3 DEF a, b, r, x, y
  <2>5. QED
    BY <1>1, <1>5, <1>7, <2>4
<1>10. QED
  BY <1>8, <1>9

(* The edges until the Spi machine waits for a byte again, but for those a  *)
(* word still takes.                                                        *)
Cost(s) ==
  CASE s = 6 -> 31 [] s = 7 -> 30 [] s = 35 -> 21 [] s = 36 -> 20 [] s = 49 -> 18
    [] s = 50 -> 17 [] s \in {13, 31} -> 16 [] s \in {8, 9, 14, 32, 46} -> 15
    [] s \in {37, 38} -> 5 [] s = 39 -> 4 [] s = 40 -> 3 [] s \in {41, 51, 52} -> 2
    [] s \in {10, 15, 33, 47} -> 0 [] OTHER -> 1
Left == Cost(spi.state) + (IF spi.write_line # 0 THEN Wait ELSE 0)
Waiting == spi.state \in {0, 4, 11, 30, 34, 45, 48}

(* What is left is counted from the state and, for a word, from SRAM_ctrl.  *)
LEMMA LeftIs ==
  Serving /\ Drives =>
    /\ spi.state \in Raised => spi.write_line # 0 /\ Left = Cost(spi.state) + Wait
    /\ spi.state \notin Raised => spi.write_line = 0 /\ Left = Cost(spi.state)
    /\ Left \in Nat /\ Wait \in Nat /\ 1 <= Wait /\ Wait <= 14
<1> SUFFICES ASSUME Serving, Drives
             PROVE  /\ spi.state \in Raised => spi.write_line # 0 /\ Left = Cost(spi.state) + Wait
                    /\ spi.state \notin Raised => spi.write_line = 0 /\ Left = Cost(spi.state)
                    /\ Left \in Nat /\ Wait \in Nat /\ 1 <= Wait /\ Wait <= 14
  OBVIOUS
<1>1. Cost(spi.state) \in Nat
  BY DEF Cost
<1>2. Wait \in Nat /\ 1 <= Wait /\ Wait <= 14
  BY WaitRange
<1>3. /\ spi.state \in Raised => spi.write_line # 0
      /\ spi.state \notin Raised => spi.write_line = 0
  BY DEF Drives, Raised, NoWrite, TxWrite, CfgWrite, SingleWrite
<1>4. /\ spi.state \in Raised => Left = Cost(spi.state) + Wait
      /\ spi.state \notin Raised => Left = Cost(spi.state) + 0
  BY <1>3 DEF Left
<1>5. QED
  BY <1>1, <1>2, <1>3, <1>4

(* Every edge brings the Spi machine nearer to the next byte.               *)
LEMMA LeftFalls ==
  ASSUME Serving, Drives, Serving', Drives',
         spi.state \in Raising \cup Raised \cup Thinking, spi'.state \in Follows(spi.state)
  PROVE  Waiting' \/ Left' < Left
<1> DEFINE s == spi.state
<1> DEFINE z == spi'.state
<1> DEFINE a == Wait
<1> DEFINE b == Wait'
<1>1. /\ s \in Raised => Left = Cost(s) + a
      /\ s \notin Raised => Left = Cost(s)
  BY LeftIs
<1>3. a \in Nat /\ 1 <= a /\ a <= 14
  BY LeftIs
<1>7. Serving' /\ Drives' =>
        (/\ spi.state \in Raised => spi.write_line # 0 /\ Left = Cost(spi.state) + Wait
         /\ spi.state \notin Raised => spi.write_line = 0 /\ Left = Cost(spi.state)
         /\ Left \in Nat /\ Wait \in Nat /\ 1 <= Wait /\ Wait <= 14)'
  BY LeftIs, PTL
<1>2. /\ z \in Raised => Left' = Cost(z) + b
      /\ z \notin Raised => Left' = Cost(z)
  BY <1>7
<1>4. b \in Nat /\ 1 <= b /\ b <= 14
  BY <1>7
<1>5. s \in Raising \cup Raised \cup Thinking /\ z \in Follows(s)
  OBVIOUS
<1>6. Waiting' <=> z \in {0, 4, 11, 30, 34, 45, 48}
  BY DEF Waiting
<1> HIDE DEF s, z, a, b
<1>11. CASE s = 3
  <2>1. z \in {4, 30, 45}
    BY <1>5, <1>11 DEF Follows
  <2>2. QED
    BY <1>6, <2>1
<1>12. CASE s = 6
  <2>1. z \in {7}
    BY <1>5, <1>12 DEF Follows
  <2>2. Left = 31
    BY <1>1, <1>12 DEF Cost, Raised
  <2>3. z = 7 => Left' = 30
    BY <1>2 DEF Cost, Raised
  <2>4. QED
    BY <1>3, <1>4, <1>6, <2>1, <2>2, <2>3
<1>13. CASE s = 7
  <2>1. z \in {8}
    BY <1>5, <1>13 DEF Follows
  <2>2. Left = 30
    BY <1>1, <1>13 DEF Cost, Raised
  <2>3. z = 8 => Left' = 15 + b
    BY <1>2 DEF Cost, Raised
  <2>4. QED
    BY <1>3, <1>4, <1>6, <2>1, <2>2, <2>3
<1>14. CASE s = 8
  <2>1. z \in {9}
    BY <1>5, <1>14 DEF Follows
  <2>2. Left = 15 + a
    BY <1>1, <1>14 DEF Cost, Raised
  <2>3. z = 9 => Left' = 15
    BY <1>2 DEF Cost, Raised
  <2>4. QED
    BY <1>3, <1>4, <1>6, <2>1, <2>2, <2>3
<1>15. CASE s = 9
  <2>1. z \in {10}
    BY <1>5, <1>15 DEF Follows
  <2>2. Left = 15
    BY <1>1, <1>15 DEF Cost, Raised
  <2>3. z = 10 => Left' = 0 + b
    BY <1>2 DEF Cost, Raised
  <2>4. QED
    BY <1>3, <1>4, <1>6, <2>1, <2>2, <2>3
<1>16. CASE s = 10
  <2>1. z \in {11}
    BY <1>5, <1>16 DEF Follows
  <2>2. QED
    BY <1>6, <2>1
<1>17. CASE s = 13
  <2>1. z \in {11, 14}
    BY <1>5, <1>17 DEF Follows
  <2>2. Left = 16
    BY <1>1, <1>17 DEF Cost, Raised
  <2>3. z = 14 => Left' = 15
    BY <1>2 DEF Cost, Raised
  <2>4. QED
    BY <1>3, <1>4, <1>6, <2>1, <2>2, <2>3
<1>18. CASE s = 14
  <2>1. z \in {15}
    BY <1>5, <1>18 DEF Follows
  <2>2. Left = 15
    BY <1>1, <1>18 DEF Cost, Raised
  <2>3. z = 15 => Left' = 0 + b
    BY <1>2 DEF Cost, Raised
  <2>4. QED
    BY <1>3, <1>4, <1>6, <2>1, <2>2, <2>3
<1>19. CASE s = 15
  <2>1. z \in {0, 11}
    BY <1>5, <1>19 DEF Follows
  <2>2. QED
    BY <1>6, <2>1
<1>20. CASE s = 31
  <2>1. z \in {30, 32}
    BY <1>5, <1>20 DEF Follows
  <2>2. Left = 16
    BY <1>1, <1>20 DEF Cost, Raised
  <2>3. z = 32 => Left' = 15
    BY <1>2 DEF Cost, Raised
  <2>4. QED
    BY <1>3, <1>4, <1>6, <2>1, <2>2, <2>3
<1>21. CASE s = 32
  <2>1. z \in {33}
    BY <1>5, <1>21 DEF Follows
  <2>2. Left = 15
    BY <1>1, <1>21 DEF Cost, Raised
  <2>3. z = 33 => Left' = 0 + b
    BY <1>2 DEF Cost, Raised
  <2>4. QED
    BY <1>3, <1>4, <1>6, <2>1, <2>2, <2>3
<1>22. CASE s = 33
  <2>1. z \in {34}
    BY <1>5, <1>22 DEF Follows
  <2>2. QED
    BY <1>6, <2>1
<1>23. CASE s = 35
  <2>1. z \in {34, 36}
    BY <1>5, <1>23 DEF Follows
  <2>2. Left = 21
    BY <1>1, <1>23 DEF Cost, Raised
  <2>3. z = 36 => Left' = 20
    BY <1>2 DEF Cost, Raised
  <2>4. QED
    BY <1>3, <1>4, <1>6, <2>1, <2>2, <2>3
<1>24. CASE s = 36
  <2>1. z \in {37}
    BY <1>5, <1>24 DEF Follows
  <2>2. Left = 20
    BY <1>1, <1>24 DEF Cost, Raised
  <2>3. z = 37 => Left' = 5 + b
    BY <1>2 DEF Cost, Raised
  <2>4. QED
    BY <1>3, <1>4, <1>6, <2>1, <2>2, <2>3
<1>25. CASE s = 37
  <2>1. z \in {34, 38}
    BY <1>5, <1>25 DEF Follows
  <2>2. Left = 5 + a
    BY <1>1, <1>25 DEF Cost, Raised
  <2>3. z = 38 => Left' = 5
    BY <1>2 DEF Cost, Raised
  <2>4. QED
    BY <1>3, <1>4, <1>6, <2>1, <2>2, <2>3
<1>26. CASE s = 38
  <2>1. z \in {39}
    BY <1>5, <1>26 DEF Follows
  <2>2. Left = 5
    BY <1>1, <1>26 DEF Cost, Raised
  <2>3. z = 39 => Left' = 4
    BY <1>2 DEF Cost, Raised
  <2>4. QED
    BY <1>3, <1>4, <1>6, <2>1, <2>2, <2>3
<1>27. CASE s = 39
  <2>1. z \in {40}
    BY <1>5, <1>27 DEF Follows
  <2>2. Left = 4
    BY <1>1, <1>27 DEF Cost, Raised
  <2>3. z = 40 => Left' = 3
    BY <1>2 DEF Cost, Raised
  <2>4. QED
    BY <1>3, <1>4, <1>6, <2>1, <2>2, <2>3
<1>28. CASE s = 40
  <2>1. z \in {41}
    BY <1>5, <1>28 DEF Follows
  <2>2. Left = 3
    BY <1>1, <1>28 DEF Cost, Raised
  <2>3. z = 41 => Left' = 2
    BY <1>2 DEF Cost, Raised
  <2>4. QED
    BY <1>3, <1>4, <1>6, <2>1, <2>2, <2>3
<1>29. CASE s = 41
  <2>1. z \in {42}
    BY <1>5, <1>29 DEF Follows
  <2>2. Left = 2
    BY <1>1, <1>29 DEF Cost, Raised
  <2>3. z = 42 => Left' = 1
    BY <1>2 DEF Cost, Raised
  <2>4. QED
    BY <1>3, <1>4, <1>6, <2>1, <2>2, <2>3
<1>30. CASE s = 42
  <2>1. z \in {0}
    BY <1>5, <1>30 DEF Follows
  <2>2. QED
    BY <1>6, <2>1
<1>31. CASE s = 46
  <2>1. z \in {47}
    BY <1>5, <1>31 DEF Follows
  <2>2. Left = 15
    BY <1>1, <1>31 DEF Cost, Raised
  <2>3. z = 47 => Left' = 0 + b
    BY <1>2 DEF Cost, Raised
  <2>4. QED
    BY <1>3, <1>4, <1>6, <2>1, <2>2, <2>3
<1>32. CASE s = 47
  <2>1. z \in {48}
    BY <1>5, <1>32 DEF Follows
  <2>2. QED
    BY <1>6, <2>1
<1>33. CASE s = 49
  <2>1. z \in {48, 50}
    BY <1>5, <1>33 DEF Follows
  <2>2. Left = 18
    BY <1>1, <1>33 DEF Cost, Raised
  <2>3. z = 50 => Left' = 17
    BY <1>2 DEF Cost, Raised
  <2>4. QED
    BY <1>3, <1>4, <1>6, <2>1, <2>2, <2>3
<1>34. CASE s = 50
  <2>1. z \in {51}
    BY <1>5, <1>34 DEF Follows
  <2>2. Left = 17
    BY <1>1, <1>34 DEF Cost, Raised
  <2>3. z = 51 => Left' = 2 + b
    BY <1>2 DEF Cost, Raised
  <2>4. QED
    BY <1>3, <1>4, <1>6, <2>1, <2>2, <2>3
<1>35. CASE s = 51
  <2>1. z \in {48, 52}
    BY <1>5, <1>35 DEF Follows
  <2>2. Left = 2 + a
    BY <1>1, <1>35 DEF Cost, Raised
  <2>3. z = 52 => Left' = 2
    BY <1>2 DEF Cost, Raised
  <2>4. QED
    BY <1>3, <1>4, <1>6, <2>1, <2>2, <2>3
<1>36. CASE s = 52
  <2>1. z \in {53}
    BY <1>5, <1>36 DEF Follows
  <2>2. Left = 2
    BY <1>1, <1>36 DEF Cost, Raised
  <2>3. z = 53 => Left' = 1
    BY <1>2 DEF Cost, Raised
  <2>4. QED
    BY <1>3, <1>4, <1>6, <2>1, <2>2, <2>3
<1>37. CASE s = 53
  <2>1. z \in {0}
    BY <1>5, <1>37 DEF Follows
  <2>2. QED
    BY <1>6, <2>1
<1>38. QED
  BY <1>5, <1>11, <1>12, <1>13, <1>14, <1>15, <1>16, <1>17, <1>18, <1>19,
     <1>20, <1>21, <1>22, <1>23, <1>24, <1>25, <1>26, <1>27, <1>28,
     <1>29, <1>30, <1>31, <1>32, <1>33, <1>34, <1>35, <1>36, <1>37 DEF Raising, Raised,
              Thinking

(* What a byte costs at most.                                               *)
LEMMA LeftBegins ==
  Serving /\ Drives /\ spi.state \in {3, 6, 13, 31, 35, 46, 49} => Left <= 31
<1> SUFFICES ASSUME Serving, Drives, spi.state \in {3, 6, 13, 31, 35, 46, 49}
             PROVE  Left <= 31
  OBVIOUS
<1>1. Left = Cost(spi.state)
  BY LeftIs DEF Raised
<1>2. Cost(spi.state) <= 31
  BY DEF Cost
<1>3. QED
  BY <1>1, <1>2

(* The message the Spi machine is in, or was in last, and how many of its   *)
(* bytes the driver has shifted.                                            *)
NoMessage == [msg |-> "cmd", body |-> <<0>>]
Message == [msg : {"frame", "cmd", "config"}, body : Seq(Byte)]
Sending == host.sent[Len(host.sent)]
Cur == IF host.msg # "none" /\ host.in = <<>> THEN Len(host.sent) - 1 ELSE Len(host.sent)
Current == IF Cur = 0 THEN NoMessage ELSE host.sent[Cur]
Shifted == IF host.msg = "none" \/ host.in = <<>> THEN WireLen(Current) ELSE Len(host.in)

HostAt ==
  /\ host.owed = <<>> /\ host.msg \in {"none", "frame", "cmd", "config"}
  /\ host.sent \in Seq(Message)
  /\ \A k \in 1 .. Len(host.sent) : IsMessage(host.sent[k])
  /\ host.msg = "none" => host.in = <<>> /\ host.out = <<>>
  /\ host.msg # "none" =>
       /\ Len(host.sent) > 0 /\ Len(host.in) + Len(host.out) = WireLen(Sending)
       /\ \A k \in 1 .. Len(host.out) : host.out[k] = WireByte(Sending, Len(host.in) + k)

(* The words a message brings to FIFO_I, and those of a message of which no *)
(* byte is shifted yet.                                                     *)
Half(n) == n \div 2
WordCount(n) == 3 + Half(n)
OwnWords(m) == IF m.msg = "frame" THEN WordCount(Len(m.body)) ELSE 0
Begun == IF host.msg # "none" /\ host.in = <<>> THEN OwnWords(Sending) ELSE 0

(* The bytes of a message as the driver sends them.                         *)
LEMMA SentBytes ==
  ASSUME NEW m, IsMessage(m), NEW head \in Seq(Byte), Len(head) = Lead(m),
         \A k \in 1 .. Lead(m) : head[k] = WireByte(m, k)
  PROVE  /\ Len(head \o m.body) = WireLen(m)
         /\ \A k \in 1 .. WireLen(m) : (head \o m.body)[k] = WireByte(m, k)
<1>1. m.body \in Seq(Byte) /\ Len(m.body) \in Nat /\ Len(head) \in Nat
  BY DEF IsMessage
<1>2. WireLen(m) = Len(head) + Len(m.body) /\ Lead(m) \in {2, 3}
  <2>1. Lead(m) \in {2, 3}
    BY DEF Lead
  <2>2. WireLen(m) = Len(m.body) + Lead(m)
    BY DEF WireLen
  <2> DEFINE b == Len(m.body)
  <2> DEFINE l == Lead(m)
  <2>3. b \in Nat /\ l \in {2, 3} /\ Len(head) = l
    BY <1>1, <2>1
  <2> HIDE DEF b, l
  <2>4. b + l = Len(head) + b
    BY <2>3
  <2>5. QED
    BY <2>1, <2>2, <2>4 DEF b, l
<1>3. Len(head \o m.body) = Len(head) + Len(m.body)
  BY <1>1
<1>4. ASSUME NEW k \in 1 .. WireLen(m)
      PROVE  (head \o m.body)[k] = WireByte(m, k)
  <2>1. k \in 1 .. (Len(head) + Len(m.body)) /\ k \in Nat
    BY <1>1, <1>2
  <2>2. (head \o m.body)[k] = IF k <= Len(head) THEN head[k] ELSE m.body[k - Len(head)]
    BY <1>1, <2>1
  <2>3. CASE k <= Lead(m)
    BY <1>1, <1>2, <2>1, <2>2, <2>3
  <2>4. CASE k > Lead(m)
    <3>1. k # 1 /\ WireByte(m, k) = m.body[k - Lead(m)]
      BY <1>2, <2>1, <2>4 DEF WireByte
    <3>2. QED
      BY <1>2, <2>1, <2>2, <2>4, <3>1
  <2>5. QED
    BY <1>2, <2>1, <2>3, <2>4
<1>5. QED
  BY <1>2, <1>3, <1>4

(* A message begun: the last one counts until a byte of it is shifted.      *)
LEMMA HostSends ==
  ASSUME HostType, HostAt, NEW msg, NEW head, NEW body, SendMessage(msg, head, body),
         NEW m, m = [msg |-> msg, body |-> body], IsMessage(m), m \in Message,
         head \in Seq(Byte), Len(head) = Lead(m),
         \A k \in 1 .. Lead(m) : head[k] = WireByte(m, k)
  PROVE  /\ HostAt' /\ Current' = Current /\ Shifted' = Shifted
         /\ host.msg = "none" /\ Begun = 0 /\ Begun' = OwnWords(m)
<1>1. /\ host.msg = "none" /\ host'.msg = msg /\ host'.out = head \o body /\ host'.in = <<>>
      /\ host'.sent = Append(host.sent, m) /\ host'.owed = host.owed
  BY DEF SendMessage, Begin, HostType, HostShape
<1>2. /\ host.sent \in Seq(Message)
      /\ \A k \in 1 .. Len(host.sent) : IsMessage(host.sent[k])
      /\ host.owed = <<>> /\ host.in = <<>>
  BY <1>1 DEF HostAt
<1>3. msg \in {"frame", "cmd", "config"} /\ m.body = body /\ m.msg = msg
  BY DEF IsMessage
<1>4. /\ host'.sent \in Seq(Message) /\ Len(host'.sent) = Len(host.sent) + 1
      /\ Len(host.sent) \in Nat /\ host'.sent[Len(host.sent) + 1] = m
      /\ \A k \in 1 .. Len(host.sent) : host'.sent[k] = host.sent[k]
  BY <1>1, <1>2
<1>5. /\ Len(head \o body) = WireLen(m)
      /\ \A k \in 1 .. WireLen(m) : (head \o body)[k] = WireByte(m, k)
  BY <1>3, SentBytes
<1>6. Sending' = m
  BY <1>4 DEF Sending
<1>7. Len(host'.in) = 0 /\ WireLen(m) \in Nat
  BY <1>1, LeadFacts
<1>8. \A k \in 1 .. Len(host'.sent) : IsMessage(host'.sent[k])
  <2> HIDE DEF IsMessage
  <2> SUFFICES ASSUME NEW k \in 1 .. Len(host'.sent)
               PROVE  IsMessage(host'.sent[k])
    OBVIOUS
  <2>1. k \in 1 .. Len(host.sent) \/ k = Len(host.sent) + 1
    BY <1>4
  <2>2. QED
    BY <1>2, <1>4, <2>1
<1>9. HostAt'
  <2> DEFINE w == WireLen(m)
  <2>1. Len(host'.in) + Len(host'.out) = w /\ Len(host'.out) = w
    <3> HIDE DEF w
    <3>1. Len(host'.out) = w
      BY <1>1, <1>5 DEF w
    <3>2. w \in Nat
      BY <1>7 DEF w
    <3>3. QED
      BY <1>7, <3>1, <3>2
  <2>2. \A k \in 1 .. Len(host'.out) : host'.out[k] = WireByte(m, Len(host'.in) + k)
    <3>1. \A k \in 1 .. w : host'.out[k] = WireByte(m, k) /\ 0 + k = k
      BY <1>1, <1>5
    <3>2. QED
      BY <1>7, <2>1, <3>1
  <2>3. Len(host'.sent) > 0
    BY <1>4
  <2> HIDE DEF w
  <2>4. /\ host'.owed = <<>>
        /\ host'.msg \in {"none", "frame", "cmd", "config"}
        /\ host'.msg # "none"
    BY <1>1, <1>2, <1>3
  <2>5. Len(host'.in) + Len(host'.out) = WireLen(Sending')
    BY <1>6, <2>1 DEF w
  <2>6. \A k \in 1 .. Len(host'.out) : host'.out[k] = WireByte(Sending', Len(host'.in) + k)
    BY <1>6, <2>2
  <2>7. QED
    BY <1>4, <1>8, <2>3, <2>4, <2>5, <2>6 DEF HostAt, WireLen, WireByte, Lead, Sending
<1>10. Cur = Len(host.sent) /\ Cur' = Len(host.sent)
  BY <1>1, <1>3, <1>4 DEF Cur
<1>11. Current' = Current
  BY <1>4, <1>10 DEF Current
<1>12. Shifted' = WireLen(Current') /\ Shifted = WireLen(Current)
  BY <1>1 DEF Shifted, WireLen, Lead
<1>13. Begun = 0
  BY <1>1 DEF Begun
<1>14. Begun' = OwnWords(m)
  <2>1. host'.msg # "none" /\ host'.in = <<>>
    BY <1>1, <1>3
  <2>2. QED
    BY <1>6, <2>1 DEF Begun, OwnWords, WordCount, Half, Sending
<1>15. QED
  BY <1>1, <1>9, <1>11, <1>12, <1>13, <1>14

(* A message over: it still counts.                                         *)
LEMMA HostEnds ==
  ASSUME HostType, HostAt, EndSent
  PROVE  /\ HostAt' /\ Current' = Current /\ Shifted' = Shifted
         /\ Begun' = Begun
<1>1. /\ host.msg # "none" /\ host.out = <<>>
      /\ host'.msg = "none" /\ host'.out = <<>> /\ host'.in = <<>>
      /\ host'.sent = host.sent /\ host'.owed = host.owed
  BY DEF EndSent, Done, Begin, HostType, HostShape
<1>2. HostAt'
  BY <1>1 DEF HostAt
<1>3. Len(host.sent) > 0 /\ Len(host.in) + Len(host.out) = WireLen(Sending)
  BY <1>1 DEF HostAt
<1>4. Len(host.out) = 0 /\ Len(host.in) \in Nat
  BY <1>1 DEF HostType
<1>5. Len(host.sent) \in Nat /\ IsMessage(Sending)
  BY <1>3 DEF HostAt, Sending
<1>6. WireLen(Sending) > 0
  BY <1>5, LeadFacts, MessageFacts
<1>7. Len(host.in) = WireLen(Sending) /\ host.in # <<>>
  <2> DEFINE w == WireLen(Sending)
  <2> DEFINE n == Len(host.in)
  <2>1. n + 0 = w /\ n \in Nat /\ w > 0
    BY <1>3, <1>4, <1>6
  <2> HIDE DEF w, n
  <2>2. n = w /\ n # 0
    BY <2>1
  <2>3. QED
    BY <2>2 DEF w, n
<1>8. Cur = Len(host.sent) /\ Cur' = Len(host.sent) /\ Len(host.sent) # 0
  BY <1>1, <1>3, <1>5, <1>7 DEF Cur
<1>9. Current = Sending /\ Current' = Sending
  BY <1>1, <1>8 DEF Current, Sending
<1>10. Shifted' = WireLen(Current') /\ Shifted = Len(host.in)
  BY <1>1, <1>7 DEF Shifted, WireLen, Lead
<1>11. Begun = 0 /\ Begun' = 0
  BY <1>1, <1>7 DEF Begun
<1>12. QED
  BY <1>2, <1>7, <1>9, <1>10, <1>11

(* A byte shifted: the next one of the message, or the first of a new one.  *)
LEMMA HostShifts ==
  ASSUME HostType, HostAt, NEW miso, ShiftByte(miso)
  PROVE  /\ HostAt' /\ IsMessage(Current') /\ Head(host.out) = WireByte(Current', Shifted')
         /\ \/ Current' = Current /\ Shifted' = Shifted + 1 /\ Begun' = Begun
            \/ /\ Shifted = WireLen(Current) /\ Shifted' = 1
               /\ Begun = OwnWords(Current') /\ Begun' = 0
<1>1. /\ host.out # <<>> /\ host'.out = Tail(host.out) /\ host'.in = Append(host.in, miso)
      /\ host'.sent = host.sent /\ host'.owed = host.owed /\ host'.msg = host.msg
  BY DEF ShiftByte, HostType, HostShape
<1>2. host.in \in Seq(Byte) /\ host.out \in Seq(Byte)
  BY DEF HostType
<1>3. /\ Len(host'.in) = Len(host.in) + 1 /\ Len(host.in) \in Nat /\ host'.in # <<>>
  <2>1. Len(host'.in) = Len(host.in) + 1 /\ Len(host.in) \in Nat
    BY <1>1, <1>2
  <2>2. QED
    BY <2>1
<1>4. /\ Len(host.out) \in Nat /\ Len(host.out) > 0 /\ Len(host'.out) = Len(host.out) - 1
      /\ Head(host.out) = host.out[1]
      /\ \A k \in 1 .. Len(host'.out) : host'.out[k] = host.out[k + 1]
  BY <1>1, <1>2
<1>5. host.msg # "none"
  BY <1>1 DEF HostAt
<1>6. /\ Len(host.sent) > 0 /\ Len(host.in) + Len(host.out) = WireLen(Sending)
      /\ \A k \in 1 .. Len(host.out) : host.out[k] = WireByte(Sending, Len(host.in) + k)
  BY <1>5 DEF HostAt
<1>7. Sending' = Sending /\ WireLen(Sending') = WireLen(Sending)
  BY <1>1 DEF Sending
<1>8. HostAt'
  <2> DEFINE w == WireLen(Sending)
  <2> DEFINE p == Len(host.in)
  <2> DEFINE q == Len(host.out)
  <2>1. p + q = w /\ p \in Nat /\ q \in Nat /\ q > 0
    BY <1>3, <1>4, <1>6
  <2>2. Len(host'.in) = p + 1 /\ Len(host'.out) = q - 1
    BY <1>3, <1>4
  <2>3. \A k \in 1 .. (q - 1) : host'.out[k] = WireByte(Sending, p + (k + 1))
    <3>1. \A k \in 1 .. (q - 1) : host'.out[k] = host.out[k + 1] /\ k + 1 \in 1 .. q
      BY <1>4, <2>1
    <3>2. QED
      BY <1>6, <3>1
  <2> HIDE DEF w, p, q
  <2>4. (p + 1) + (q - 1) = w /\ \A k \in 1 .. (q - 1) : p + (k + 1) = (p + 1) + k
    BY <2>1
  <2>5. Len(host'.in) + Len(host'.out) = WireLen(Sending)
    BY <2>2, <2>4 DEF w
  <2>6. \A k \in 1 .. Len(host'.out) : host'.out[k] = WireByte(Sending, Len(host'.in) + k)
    BY <2>2, <2>3, <2>4
  <2>7. /\ host.owed = <<>>
        /\ host.msg \in {"none", "frame", "cmd", "config"}
        /\ host.sent \in Seq(Message)
        /\ \A k \in 1 .. Len(host.sent) : IsMessage(host.sent[k])
    BY DEF HostAt
  <2>8. QED
    BY <1>1, <1>5, <1>6, <1>7, <2>5, <2>6, <2>7 DEF HostAt, WireLen, WireByte, Lead
<1>9. Len(host.sent) \in Nat /\ IsMessage(Sending)
  BY <1>6 DEF HostAt, Sending
<1>10. Cur' = Len(host.sent) /\ Cur' # 0
  BY <1>1, <1>3, <1>6, <1>9 DEF Cur
<1>11. Current' = Sending
  BY <1>1, <1>10 DEF Current, Sending
<1>12. Shifted' = Len(host.in) + 1
  BY <1>1, <1>3, <1>5 DEF Shifted
<1>13. Head(host.out) = WireByte(Sending, Len(host.in) + 1)
  BY <1>4, <1>6
<1>14. Begun' = 0
  BY <1>3 DEF Begun
<1>15. CASE host.in = <<>>
  <2>1. Begun = OwnWords(Current')
    BY <1>5, <1>11, <1>15 DEF Begun
  <2>2. Shifted = WireLen(Current) /\ Len(host.in) = 0
    BY <1>15 DEF Shifted
  <2>3. Shifted' = 1
    BY <1>12, <2>2
  <2>4. QED
    BY <1>8, <1>9, <1>11, <1>12, <1>13, <1>14, <2>2, <2>3, <2>1
<1>16. CASE host.in # <<>>
  <2>1. Shifted = Len(host.in) /\ Cur = Len(host.sent)
    BY <1>5, <1>16 DEF Shifted, Cur
  <2>2. Current = Sending
    BY <1>10, <2>1 DEF Current, Sending
  <2>3. Begun' = Begun
    BY <1>16, <1>14 DEF Begun
  <2>4. QED
    BY <1>8, <1>9, <1>11, <1>12, <1>13, <2>1, <2>2, <2>3
<1>17. QED
  BY <1>15, <1>16

(* The words of a frame of n bytes the Spi machine has still to raise in    *)
(* state s, when it has taken t bytes of the message.                       *)
Owes(s, n, t) ==
  CASE s = 0 -> (IF t = 0 THEN WordCount(n) ELSE 0)
    [] s \in {3, 4, 6, 7} -> WordCount(n)
    [] s \in {8, 9} -> WordCount(n) - 1
    [] s = 10 -> WordCount(n) - 2
    [] s = 11 -> WordCount(n) - 2 - Half(t - 1)
    [] s \in {13, 14} -> WordCount(n) - 2 - Half(t - 2)
    [] OTHER -> WordCount(n) - 3 - Half(t - 2)

(* Where it may be then.                                                    *)
Spot(s, n, t) ==
  /\ s \in {0, 3} \cup FrameStates /\ n \in Nat \ {0} /\ t \in Nat /\ t <= n + 2
  /\ s = 0 => t = 0 \/ t = n + 2
  /\ s \in {3, 4} => t = 1
  /\ s \in {6, 7, 8, 9, 10} => t = 2
  /\ s = 11 => t >= 2 /\ t - 1 <= n
  /\ s \in {13, 14, 15} => t >= 3
  /\ s \in {14, 15} => Odd(t - 2) \/ t - 2 = n

(* Halves of numbers.                                                       *)
LEMMA HalfFacts ==
  ASSUME NEW n \in Nat
  PROVE  /\ Half(n) \in Nat /\ Half(n + 2) = Half(n) + 1
         /\ Half(n) <= Half(n + 1) /\ Half(n + 1) <= Half(n) + 1
         /\ Odd(n) => Half(n + 1) = Half(n) + 1
         /\ \A k \in Nat : k <= n => Half(k) <= Half(n)
BY DEF Half, Odd

(* State by state.                                                          *)
LEMMA OwesIs ==
  ASSUME NEW s, NEW n, NEW t
  PROVE  /\ s = 0 => Owes(s, n, t) = IF t = 0 THEN WordCount(n) ELSE 0
         /\ s \in {3, 4, 6, 7} => Owes(s, n, t) = WordCount(n)
         /\ s \in {8, 9} => Owes(s, n, t) = WordCount(n) - 1
         /\ s = 10 => Owes(s, n, t) = WordCount(n) - 2
         /\ s = 11 => Owes(s, n, t) = WordCount(n) - 2 - Half(t - 1)
         /\ s \in {13, 14} => Owes(s, n, t) = WordCount(n) - 2 - Half(t - 2)
         /\ s = 15 => Owes(s, n, t) = WordCount(n) - 3 - Half(t - 2)
BY DEF Owes

(* There is one left wherever a word is about to be raised.                 *)
LEMMA OwesFacts ==
  ASSUME NEW s, NEW n, NEW t, Spot(s, n, t)
  PROVE  /\ Owes(s, n, t) \in Nat
         /\ s \in {6, 7, 8, 9, 13, 14} => Owes(s, n, t) >= 1
<1> DEFINE w == WordCount(n)
<1> DEFINE h == Half(n)
<1>1. /\ n \in Nat /\ t \in Nat /\ t <= n + 2 /\ s \in {0, 3} \cup FrameStates
      /\ s = 11 => t >= 2 /\ t - 1 <= n
      /\ s \in {13, 14, 15} => t >= 3
  BY DEF Spot
<1>2. w = 3 + h /\ h \in Nat /\ \A k \in Nat : k <= n => Half(k) <= h
  BY <1>1, HalfFacts DEF WordCount
<1> HIDE DEF w, h
<1>3. CASE s \in {0, 3, 4, 6, 7, 8, 9, 10}
  <2>1. /\ s = 0 => Owes(s, n, t) \in {0, w}
        /\ s \in {3, 4, 6, 7} => Owes(s, n, t) = w
        /\ s \in {8, 9} => Owes(s, n, t) = w - 1
        /\ s = 10 => Owes(s, n, t) = w - 2
    BY OwesIs DEF w
  <2>2. QED
    BY <1>2, <1>3, <2>1
<1>4. CASE s = 11
  <2>1. t - 1 \in Nat /\ t - 1 <= n
    BY <1>1, <1>4
  <2>2. Half(t - 1) \in Nat /\ Half(t - 1) <= h
    BY <1>2, <2>1, HalfFacts
  <2>3. Owes(s, n, t) = w - 2 - Half(t - 1)
    BY <1>4, OwesIs DEF w
  <2>4. QED
    BY <1>2, <1>4, <2>2, <2>3
<1>5. CASE s \in {13, 14, 15}
  <2>1. t - 2 \in Nat /\ t - 2 <= n
    BY <1>1, <1>5
  <2>2. Half(t - 2) \in Nat /\ Half(t - 2) <= h
    BY <1>2, <2>1, HalfFacts
  <2>3. /\ s \in {13, 14} => Owes(s, n, t) = w - 2 - Half(t - 2)
        /\ s = 15 => Owes(s, n, t) = w - 3 - Half(t - 2)
    BY OwesIs DEF w
  <2>4. QED
    BY <1>2, <1>5, <2>2, <2>3
<1>6. QED
  BY <1>1, <1>3, <1>4, <1>5 DEF FrameStates

(* A byte taken leaves them;                                                *)
LEMMA OwesTaken ==
  ASSUME NEW s, NEW z, NEW n, NEW t, Spot(s, n, t), t < n + 2,
         (s = 0 /\ z = 3) \/ (s = 4 /\ z = 6) \/ (s = 11 /\ z = 13)
  PROVE  Owes(z, n, t + 1) = Owes(s, n, t)
<1>1. n \in Nat /\ t \in Nat /\ (s = 0 => t = 0 \/ t = n + 2)
  BY DEF Spot
<1>2. CASE s = 0 /\ z = 3
  BY <1>1, <1>2, OwesIs
<1>3. CASE s = 4 /\ z = 6
  BY <1>3, OwesIs
<1>4. CASE s = 11 /\ z = 13
  <2>1. Owes(s, n, t) = WordCount(n) - 2 - Half(t - 1)
    BY <1>4, OwesIs
  <2>2. Owes(z, n, t + 1) = WordCount(n) - 2 - Half((t + 1) - 2)
    BY <1>4, OwesIs
  <2>3. (t + 1) - 2 = t - 1
    BY <1>1
  <2>4. QED
    BY <2>1, <2>2, <2>3
<1>5. QED
  BY <1>2, <1>3, <1>4

(* a word raised is one of them.                                            *)
LEMMA OwesMoves ==
  ASSUME NEW s, NEW z, NEW n, NEW t, Spot(s, n, t), Spot(z, n, t),
         s \in {3, 6, 7, 8, 9, 10, 13, 14, 15}, z \in Follows(s)
  PROVE  Owes(z, n, t) + (IF s \in {7, 9, 14} THEN 1 ELSE 0) <= Owes(s, n, t)
<1> DEFINE w == WordCount(n)
<1>1. /\ n \in Nat /\ t \in Nat /\ t <= n + 2
      /\ s \in {6, 7, 8, 9, 10} => t = 2
      /\ s \in {13, 14, 15} => t >= 3
      /\ s \in {14, 15} => Odd(t - 2) \/ t - 2 = n
      /\ z \in {0, 3} \cup FrameStates
      /\ z = 0 => t = 0 \/ t = n + 2
      /\ z = 11 => t - 1 <= n
  BY DEF Spot
<1>2. w \in Nat
  <2>1. Half(n) \in Nat
    BY <1>1, HalfFacts
  <2>2. QED
    BY <2>1 DEF WordCount
<1>3. Owes(s, n, t) \in Nat
  BY OwesFacts
<1> HIDE DEF w
<1>4. CASE s \in {3, 6, 7, 8, 9}
  <2>1. s = 3 => z = 4
    BY <1>1 DEF Follows, FrameStates
  <2>2. s \in {6, 7, 8, 9} => z = s + 1
    BY DEF Follows
  <2>3. /\ s \in {3, 6, 7} => Owes(s, n, t) = w
        /\ s \in {8, 9} => Owes(s, n, t) = w - 1
        /\ z \in {4, 7} => Owes(z, n, t) = w
        /\ z \in {8, 9} => Owes(z, n, t) = w - 1
        /\ z = 10 => Owes(z, n, t) = w - 2
    BY OwesIs DEF w
  <2>4. CASE s \in {3, 6}
    BY <1>2, <2>1, <2>2, <2>3, <2>4
  <2>5. CASE s \in {7, 8, 9}
    BY <1>2, <2>2, <2>3, <2>5
  <2>6. QED
    BY <1>4, <2>4, <2>5
<1>5. CASE s = 10
  <2>1. z = 11
    BY <1>5 DEF Follows
  <2>2. Owes(s, n, t) = w - 2 /\ Owes(z, n, t) = w - 2 - Half(t - 1)
    BY <1>5, <2>1, OwesIs DEF w
  <2>3. t - 1 = 1 /\ Half(1) = 0
    BY <1>1, <1>5 DEF Half
  <2>4. Half(t - 1) = 0
    BY <2>3
  <2>5. QED
    BY <1>2, <1>5, <2>2, <2>4
<1>6. CASE s \in {13, 14, 15}
  <2> DEFINE k == t - 2
  <2>1. k \in Nat /\ t - 1 = k + 1 /\ k <= n
    BY <1>1, <1>6
  <2>2. /\ Half(k) \in Nat /\ Half(k + 1) \in Nat /\ Half(k) <= Half(k + 1)
        /\ Odd(k) => Half(k + 1) = Half(k) + 1
    <3>1. k + 1 \in Nat
      BY <2>1
    <3>2. QED
      BY <2>1, <3>1, HalfFacts
  <2>3. /\ s \in {13, 14} => Owes(s, n, t) = w - 2 - Half(k)
        /\ s = 15 => Owes(s, n, t) = w - 3 - Half(k)
        /\ z = 14 => Owes(z, n, t) = w - 2 - Half(k)
        /\ z = 15 => Owes(z, n, t) = w - 3 - Half(k)
        /\ z = 11 => Owes(z, n, t) = w - 2 - Half(t - 1)
        /\ z = 0 /\ t # 0 => Owes(z, n, t) = 0
    BY OwesIs DEF w
  <2>4. z = 11 => Owes(z, n, t) = w - 2 - Half(k + 1)
    BY <2>1, <2>3
  <2>5. s = 15 /\ z = 11 => Odd(k)
    BY <1>1, <2>1
  <2>6. s \in {13, 14, 15} => t # 0
    BY <1>1
  <2>7. /\ s = 13 => z \in {11, 14}
        /\ s = 14 => z = 15
        /\ s = 15 => z \in {0, 11}
    BY DEF Follows
  <2> DEFINE a == Half(k)
  <2> DEFINE b == Half(k + 1)
  <2> HIDE DEF k, a, b
  <2>8. /\ a \in Nat /\ b \in Nat /\ a <= b /\ (s = 15 /\ z = 11 => b = a + 1)
        /\ s \in {13, 14} => Owes(s, n, t) = w - 2 - a
        /\ s = 15 => Owes(s, n, t) = w - 3 - a
        /\ z = 14 => Owes(z, n, t) = w - 2 - a
        /\ z = 15 => Owes(z, n, t) = w - 3 - a
        /\ z = 11 => Owes(z, n, t) = w - 2 - b
        /\ z = 0 => Owes(z, n, t) = 0
    BY <1>6, <2>2, <2>3, <2>4, <2>5, <2>6 DEF a, b
  <2>9. CASE s = 13
    BY <1>2, <2>7, <2>8, <2>9
  <2>10. CASE s = 14
    BY <1>2, <2>7, <2>8, <2>10
  <2>11. CASE s = 15
    BY <1>2, <1>3, <2>7, <2>8, <2>11
  <2>12. QED
    BY <1>6, <2>9, <2>10, <2>11
<1>7. QED
  BY <1>4, <1>5, <1>6

(* At the end of the frame there is at most one left, and none when a word  *)
(* is on its way.                                                           *)
LEMMA OwesAtEnd ==
  ASSUME NEW s, NEW n, NEW t, Spot(s, n, t),
         t = n + 2 \/ (t = n + 1 /\ s \in {0, 4, 11})
  PROVE  Owes(s, n, t) <= 1 /\ (s \in {8, 10, 15} => Owes(s, n, t) = 0)
<1>1. /\ n \in Nat \ {0} /\ t \in Nat /\ s \in {0, 3} \cup FrameStates
      /\ s = 0 => t = 0 \/ t = n + 2
      /\ s \in {3, 4} => t = 1
      /\ s \in {6, 7, 8, 9, 10} => t = 2
      /\ s = 11 => t - 1 <= n
  BY DEF Spot
<1>2. s \in {0, 11, 13, 14, 15}
  <2>1. t # 1
    BY <1>1
  <2>2. s \in {6, 7, 8, 9, 10} => FALSE
    BY <1>1
  <2>3. QED
    BY <1>1, <2>1, <2>2 DEF FrameStates
<1> DEFINE h == Half(n)
<1>3. h \in Nat /\ WordCount(n) = 3 + h
  BY <1>1, HalfFacts DEF WordCount
<1> HIDE DEF h
<1>4. CASE s = 0
  <2>1. t # 0
    BY <1>1
  <2>2. Owes(s, n, t) = 0
    BY <1>4, <2>1, OwesIs
  <2>3. QED
    BY <1>4, <2>2
<1>5. CASE s = 11
  <2>1. t - 1 = n
    BY <1>1, <1>5
  <2>2. Owes(s, n, t) = WordCount(n) - 2 - Half(n)
    BY <1>5, <2>1, OwesIs
  <2>3. QED
    BY <1>3, <1>5, <2>2 DEF h
<1>6. CASE s \in {13, 14, 15}
  <2>1. t - 2 = n
    BY <1>1, <1>6
  <2>2. /\ s \in {13, 14} => Owes(s, n, t) = WordCount(n) - 2 - Half(n)
        /\ s = 15 => Owes(s, n, t) = WordCount(n) - 3 - Half(n)
    BY <2>1, OwesIs
  <2>3. QED
    BY <1>3, <1>6, <2>2 DEF h
<1>7. QED
  BY <1>2, <1>4, <1>5, <1>6

(* Before and after an edge.                                                *)
LEMMA SpotHere ==
  ASSUME SpiType, NEW m, IsMessage(m), NEW t, SpiAt(m, t), m.msg = "frame"
  PROVE  Spot(spi.state, Len(m.body), t)
<1> DEFINE s == spi.state
<1> DEFINE c == spi.Count
<1> DEFINE n == Len(m.body)
<1>1. n \in Nat \ {0} /\ Lead(m) = 2 /\ WireLen(m) = n + 2
  BY MessageFacts DEF WireLen, Lead
<1>2. c \in Nat
  BY DEF SpiType, SpiPlain
<1>3. /\ s \in {0, 3} \cup FrameStates /\ t \in Nat /\ t <= n + 2
      /\ s = 0 => t = 0 \/ t = n + 2
      /\ s = 3 => t = 1
  <2>1. /\ s \in {0, 3} \cup FrameStates \cup ConfigStates \cup CmdStates
        /\ t \in Nat /\ t <= WireLen(m)
    BY DEF SpiAt
  <2>2. /\ s \notin ConfigStates /\ s \notin CmdStates
        /\ s = 0 => t = 0 \/ t = WireLen(m)
        /\ s = 3 => t = 1
    BY DEF SpiAt, Begins, WireLen
  <2>3. QED
    BY <1>1, <2>1, <2>2
<1>4. /\ s = 4 => t = 1
      /\ s = 6 => t = 2
      /\ s \in {7, 8, 9, 10} => t = 2
  <2>1. s \in {7, 8, 9, 10} => t = Lead(m)
    BY DEF SpiAt, Leads, Lead
  <2>2. /\ s = 4 => t = 1
        /\ s = 6 => t = 2
    BY DEF SpiAt, Leads
  <2>3. QED
    BY <1>1, <2>1, <2>2
<1>5. /\ s = 11 => c < n /\ t = c + Lead(m)
      /\ s = 13 => t = c + Lead(m) + 1
      /\ s \in {14, 15} => t = c + Lead(m) /\ c > 0 /\ (Odd(c) \/ c = n)
  <2>1. s \in {11, 13} => c < n
    BY DEF SpiAt, Body
  <2>2. s = 11 => t = c + Lead(m)
    BY DEF SpiAt, Body, Lead
  <2>3. s = 13 => t = c + Lead(m) + 1
    BY DEF SpiAt, Body, Lead
  <2>4. s \in {14, 15} => t = c + Lead(m) /\ c > 0 /\ (Odd(c) \/ c = n)
    BY DEF SpiAt, Body, Lead
  <2>5. QED
    BY <2>1, <2>2, <2>3, <2>4
<1> HIDE DEF s, c, n
<1>6. /\ s = 11 => t >= 2 /\ t - 1 <= n
      /\ s = 13 => t >= 3
      /\ s \in {14, 15} => t >= 3 /\ t - 2 = c
  BY <1>1, <1>2, <1>3, <1>5
<1>7. s \in {14, 15} => Odd(t - 2) \/ t - 2 = n
  BY <1>5, <1>6
<1>8. Spot(s, n, t)
  <2>1. s \in {13, 14, 15} => t >= 3
    BY <1>6
  <2>2. s \in {6, 7, 8, 9, 10} => t = 2
    BY <1>4
  <2>3. s \in {3, 4} => t = 1
    BY <1>3, <1>4
  <2>4. QED
    BY <1>1, <1>3, <1>6, <1>7, <2>1, <2>2, <2>3 DEF Spot
<1>9. QED
  BY <1>8 DEF s, n

LEMMA SpotNext ==
  ASSUME SpiType', NEW m, IsMessage(m), NEW t, SpiAt(m, t)', m.msg = "frame"
  PROVE  Spot(spi'.state, Len(m.body), t)
<1> DEFINE s == spi'.state
<1> DEFINE c == spi'.Count
<1> DEFINE n == Len(m.body)
<1>1. n \in Nat \ {0} /\ Lead(m) = 2 /\ WireLen(m) = n + 2
  BY MessageFacts DEF WireLen, Lead
<1>2. c \in Nat
  BY DEF SpiType, SpiPlain
<1>3. /\ s \in {0, 3} \cup FrameStates /\ t \in Nat /\ t <= n + 2
      /\ s = 0 => t = 0 \/ t = n + 2
      /\ s = 3 => t = 1
  <2>1. /\ s \in {0, 3} \cup FrameStates \cup ConfigStates \cup CmdStates
        /\ t \in Nat /\ t <= WireLen(m)
    BY DEF SpiAt
  <2>2. /\ s \notin ConfigStates /\ s \notin CmdStates
        /\ s = 0 => t = 0 \/ t = WireLen(m)
        /\ s = 3 => t = 1
    BY DEF SpiAt, Begins, WireLen
  <2>3. QED
    BY <1>1, <2>1, <2>2
<1>4. /\ s = 4 => t = 1
      /\ s = 6 => t = 2
      /\ s \in {7, 8, 9, 10} => t = 2
  <2>1. s \in {7, 8, 9, 10} => t = Lead(m)
    BY DEF SpiAt, Leads, Lead
  <2>2. /\ s = 4 => t = 1
        /\ s = 6 => t = 2
    BY DEF SpiAt, Leads
  <2>3. QED
    BY <1>1, <2>1, <2>2
<1>5. /\ s = 11 => c < n /\ t = c + Lead(m)
      /\ s = 13 => t = c + Lead(m) + 1
      /\ s \in {14, 15} => t = c + Lead(m) /\ c > 0 /\ (Odd(c) \/ c = n)
  <2>1. s \in {11, 13} => c < n
    BY DEF SpiAt, Body
  <2>2. s = 11 => t = c + Lead(m)
    BY DEF SpiAt, Body, Lead
  <2>3. s = 13 => t = c + Lead(m) + 1
    BY DEF SpiAt, Body, Lead
  <2>4. s \in {14, 15} => t = c + Lead(m) /\ c > 0 /\ (Odd(c) \/ c = n)
    BY DEF SpiAt, Body, Lead
  <2>5. QED
    BY <2>1, <2>2, <2>3, <2>4
<1> HIDE DEF s, c, n
<1>6. /\ s = 11 => t >= 2 /\ t - 1 <= n
      /\ s = 13 => t >= 3
      /\ s \in {14, 15} => t >= 3 /\ t - 2 = c
  BY <1>1, <1>2, <1>3, <1>5
<1>7. s \in {14, 15} => Odd(t - 2) \/ t - 2 = n
  BY <1>5, <1>6
<1>8. Spot(s, n, t)
  <2>1. s \in {13, 14, 15} => t >= 3
    BY <1>6
  <2>2. s \in {6, 7, 8, 9, 10} => t = 2
    BY <1>4
  <2>3. s \in {3, 4} => t = 1
    BY <1>3, <1>4
  <2>4. QED
    BY <1>1, <1>3, <1>6, <1>7, <2>1, <2>2, <2>3 DEF Spot
<1>9. QED
  BY <1>8 DEF s, n

(* An edge of the Spi machine in a message.  A byte announced while it waits*)
(* for one is taken;                                                        *)
LEMMA SpiTakes ==
  ASSUME SpiType, NEW m, IsMessage(m), NEW t, SpiAt(m, t), Drives, Pulsing, IrqAtRest,
         NEW hint, NEW data, NEW full, NEW empty, NEW done, NEW byte, NEW trdy,
         SlaveStep(FALSE, hint, data, full, empty, done, byte, trdy),
         done, Waiting, t < WireLen(m), byte = WireByte(m, t + 1), NEW u, u = t + 1
  PROVE  /\ irq' = irq /\ SpiAt(m, u)' /\ Drives' /\ Pulsing'
         /\ spi'.state \in {3, 6, 13, 31, 35, 46, 49} /\ spi'.state = AfterByte[spi.state]
<1>1. /\ irq' = irq
      /\ \/ WriteMessage(hint, full, done, byte)
         \/ SpiWaits(hint, full, done, trdy) /\ spi' = spi
  BY SlaveAtRest
<1>2. ~SpiWaits(hint, full, done, trdy)
  BY AfterByteIs DEF SpiWaits, Waiting
<1>3. SpiAt(m, t) => (spi.state = 3 => spi.byte \in {102, 18, 17})
  BY WireBytes DEF SpiAt, Begins
<1>4. TakeByte(done, byte)
  <2>1. WriteMessage(hint, full, done, byte)
    BY <1>1, <1>2
  <2>2. spi.state \notin Raising \cup Raised \cup Thinking
    BY DEF Waiting, Raising, Raised, Thinking
  <2>3. QED
    BY <1>3, <2>1, <2>2, SpiMoves
<1>5. TakeByte(done, WireByte(m, t + 1))
  BY <1>4
<1>6. SpiAt(m, u)' /\ Drives'
  BY <1>5, TakeByteAt
<1>7. /\ spi'.state = AfterByte[spi.state]
      /\ spi'.config_done = spi.config_done /\ spi'.cmd_done = spi.cmd_done
  BY <1>4, TakeByteSets DEF SpiType
<1>8. spi'.state \in {3, 6, 13, 31, 35, 46, 49}
  BY <1>7, AfterByteIs DEF Waiting
<1>9. /\ (spi'.config_done <=> spi.config_done) /\ (spi'.cmd_done <=> spi.cmd_done)
      /\ ~spi.config_done /\ ~spi.cmd_done
  <2>1. ~spi.config_done /\ ~spi.cmd_done
    BY DEF Pulsing, Waiting
  <2>2. (spi'.config_done <=> spi.config_done) /\ (spi'.cmd_done <=> spi.cmd_done)
    BY <1>7
  <2>3. QED
    BY <2>1, <2>2
<1>10. Pulsing'
  <2>1. ~spi'.config_done /\ ~spi'.cmd_done
    BY <1>9
  <2>2. spi'.state # 39 /\ spi'.state # 53
    BY <1>8
  <2>3. QED
    BY <2>1, <2>2 DEF Pulsing
<1>11. QED
  BY <1>1, <1>6, <1>7, <1>8, <1>10

(* otherwise it goes on, or waits for a byte, for room or for its word.     *)
WentOn(hint, full) ==
  \/ /\ spi.state \in Raising \cup Raised \cup Thinking
     /\ spi'.state \in Follows(spi.state)
     /\ spi.state \in Raised => hint
     /\ spi.state \in {7, 9, 14} => ~full
  \/ spi' = spi /\ Waiting
  \/ spi' = spi /\ spi.state \in {7, 9, 14} /\ full
  \/ spi' = spi /\ spi.state \in Raised /\ ~hint

(* An edge of it, by cases of the above.                                    *)
LEMMA SpiGoesOn ==
  ASSUME SpiType, NEW m, IsMessage(m), NEW t, SpiAt(m, t), Drives, Pulsing, IrqAtRest,
         NEW hint, NEW data, NEW full, NEW empty, NEW done, NEW byte, NEW trdy,
         SlaveStep(FALSE, hint, data, full, empty, done, byte, trdy), done = FALSE
  PROVE  /\ irq' = irq /\ SpiAt(m, t)' /\ Drives' /\ Pulsing'
         /\ WentOn(hint, full)
<1>1. /\ irq' = irq
      /\ \/ WriteMessage(hint, full, done, byte)
         \/ SpiWaits(hint, full, done, trdy) /\ spi' = spi
  BY SlaveAtRest
<1>2. spi.state = 3 => spi.byte \in {102, 18, 17}
  BY WireBytes DEF SpiAt, Begins
<1>3. ~TakeByte(done, byte)
  BY DEF TakeByte
<1>4. CASE WriteMessage(hint, full, done, byte)
  <2>1. SpiAt(m, t)' /\ Drives'
    BY <1>3, <1>4, OthersAt
  <2>2. /\ Pulsing' /\ spi.state \in Raising \cup Raised \cup Thinking
        /\ spi'.state \in Follows(spi.state)
        /\ spi.state \in Raised => hint
        /\ spi.state \in {7, 9, 14} => ~full
    BY <1>2, <1>3, <1>4, SpiMoves
  <2>3. QED
    BY <1>1, <2>1, <2>2 DEF WentOn
<1>5. CASE SpiWaits(hint, full, done, trdy) /\ spi' = spi
  <2>1. SpiAt(m, t)'
    <3> HIDE DEF IsMessage, WireByte, Lead, WireLen, Odd, Hi
    <3>1. QED
      BY <1>5 DEF SpiAt, Begins, Leads, Body
  <2>2. Drives'
    BY <1>5 DEF Drives
  <2>3. Pulsing'
    <3>1. (spi'.config_done <=> spi.config_done) /\ (spi'.cmd_done <=> spi.cmd_done)
          /\ spi'.state = spi.state
      BY <1>5
    <3>2. QED
      BY <3>1 DEF Pulsing
  <2>4. spi.state \notin {16, 19, 20, 22, 24}
    BY DEF SpiAt, FrameStates, ConfigStates, CmdStates
  <2>5. \/ Waiting
        \/ spi.state \in {7, 9, 14} /\ full
        \/ spi.state \in Raised /\ ~hint
    BY <1>5, <2>4, AfterByteIs DEF SpiWaits, Waiting, Raised
  <2>6. QED
    BY <1>1, <1>5, <2>1, <2>2, <2>3, <2>5 DEF WentOn
<1>6. QED
  BY <1>1, <1>4, <1>5

(* What either does to the line of a word.                                  *)
LEMMA LineMoves ==
  ASSUME Drives, Drives', spi.state \in Raising \cup Raised \cup Thinking,
         spi'.state \in Follows(spi.state),
         NEW hint, NEW full, spi.state \in Raised => hint, spi.state \in {7, 9, 14} => ~full
  PROVE  /\ spi.write_line = 0 /\ spi'.write_line = 1 => ~full
         /\ spi.write_line # 0 => hint /\ spi'.write_line = 0
         /\ spi'.write_line = 1 => spi.state \in {7, 9, 14}
<1>1. spi.write_line # 0 => spi.state \in Raised
  BY DEF Drives, Raised, NoWrite
<1>2. spi.state \in Raised => spi'.state \in {0, 9, 11, 34, 38, 48, 52}
  <2> SUFFICES ASSUME spi.state \in Raised
               PROVE  spi'.state \in {0, 9, 11, 34, 38, 48, 52}
    OBVIOUS
  <2>1. CASE spi.state = 8
    BY <2>1 DEF Follows
  <2>2. CASE spi.state = 10
    BY <2>2 DEF Follows
  <2>3. CASE spi.state = 15
    BY <2>3 DEF Follows
  <2>4. CASE spi.state = 33
    BY <2>4 DEF Follows
  <2>5. CASE spi.state = 37
    BY <2>5 DEF Follows
  <2>6. CASE spi.state = 47
    BY <2>6 DEF Follows
  <2>7. CASE spi.state = 51
    BY <2>7 DEF Follows
  <2>8. QED
    BY <2>1, <2>2, <2>3, <2>4, <2>5, <2>6, <2>7 DEF Raised
<1>3. spi'.state \in {0, 9, 11, 34, 38, 48, 52} => spi'.write_line = 0
  BY DEF Drives, NoWrite
<1>4. spi.write_line # 0 => hint /\ spi'.write_line = 0
  BY <1>1, <1>2, <1>3
<1>5. spi'.write_line = 1 => spi'.state \in {8, 10, 15}
  BY DEF Drives, NoWrite, TxWrite, CfgWrite, SingleWrite
<1>6. spi'.state \in {8, 10, 15} /\ spi.state \notin {7, 9, 14} => FALSE
  <2> SUFFICES ASSUME spi'.state \in {8, 10, 15}, spi.state \notin {7, 9, 14}
               PROVE  FALSE
    OBVIOUS
  <2>1. spi.state \notin Raised
    BY <1>2
  <2>2. spi.state \in {32, 36, 46, 50, 3, 6, 13, 31, 35, 38, 39, 40, 41, 42, 49, 52, 53}
    BY <2>1 DEF Raising, Thinking
  <2>3. CASE spi.state \in {3, 6, 13, 31, 35, 42, 49, 53}
    BY <2>3 DEF Follows
  <2>4. CASE spi.state \in {32, 36, 46, 50, 38, 39, 40, 41, 52}
    <3>1. spi'.state = spi.state + 1
      BY <2>4 DEF Follows
    <3>2. QED
      BY <2>4, <3>1
  <2>5. QED
    BY <2>2, <2>3, <2>4
<1>7. QED
  BY <1>4, <1>5, <1>6

(* The byte on its way from the CPU: shifted, but not yet announced to the  *)
(* Spi machine; and the bytes of the message the machine has taken.         *)
Pending == port.since <= HalfSclk \/ port.SPI_DONE
Taken == IF Pending THEN Shifted - 1 ELSE Shifted

PortAt ==
  /\ port.since <= ByteGap
  /\ port.SPI_DONE <=> port.since = HalfSclk + 1
  /\ port.since <= HalfSclk => port.RxdData = WireByte(Current, Shifted)
  /\ port.SPI_DONE => port.Rx_holding_reg = WireByte(Current, Shifted)

(* What is shifted of a message is no more than there is.                   *)
LEMMA ShiftedFits ==
  ASSUME HostType, HostAt, IsMessage(Current)
  PROVE  Shifted \in Nat /\ Shifted <= WireLen(Current)
<1>1. WireLen(Current) \in Nat
  BY LeadFacts
<1>2. CASE host.msg = "none" \/ host.in = <<>>
  <2>1. Shifted = WireLen(Current)
    BY <1>2 DEF Shifted
  <2>2. QED
    BY <1>1, <2>1
<1>3. CASE ~(host.msg = "none" \/ host.in = <<>>)
  <2>1. Shifted = Len(host.in) /\ Cur = Len(host.sent)
    BY <1>3 DEF Shifted, Cur
  <2>2. Len(host.sent) > 0 /\ Len(host.in) + Len(host.out) = WireLen(Sending)
    BY <1>3 DEF HostAt
  <2>3. Len(host.sent) \in Nat /\ Len(host.in) \in Nat /\ Len(host.out) \in Nat
    BY DEF HostAt, HostType
  <2>4. Current = Sending
    BY <2>1, <2>2, <2>3 DEF Current, Sending
  <2> DEFINE w == WireLen(Current)
  <2> DEFINE p == Len(host.in)
  <2> DEFINE q == Len(host.out)
  <2>5. p + q = w /\ p \in Nat /\ q \in Nat
    BY <2>2, <2>3, <2>4
  <2> HIDE DEF w, p, q
  <2>6. p <= w
    BY <2>5
  <2>7. QED
    BY <2>1, <2>3, <2>6 DEF w, p
<1>4. QED
  BY <1>2, <1>3

(* An edge without a byte shifted, and one with.                            *)
LEMMA PortGoesOn ==
  ASSUME ByteGap >= HalfSclk + 33, PortType, PortAt, Current' = Current,
             Shifted' = Shifted, Shifted \in Nat,
         NEW mosi, NEW load, NEW data, PortStep(FALSE, mosi, load, data)
  PROVE  /\ PortAt'
         /\ port.SPI_DONE => Taken' = Taken + 1 /\ port'.since = HalfSclk + 2
         /\ ~port.SPI_DONE => Taken' = Taken
         /\ HalfSclk + 2 <= port.since /\ port.since < ByteGap => port'.since = port.since + 1
<1>1. /\ port'.RxdData = port.RxdData
      /\ port'.Rx_holding_reg = (IF port.since = HalfSclk THEN port.RxdData
                                 ELSE port.Rx_holding_reg)
      /\ (port'.SPI_DONE <=> port.since = HalfSclk)
      /\ port'.since = IF port.since < ByteGap THEN port.since + 1 ELSE ByteGap
  <2>1. /\ port'.RxdData = port.RxdData
        /\ port'.Rx_holding_reg = (IF port.since = HalfSclk THEN port.RxdData
                                   ELSE port.Rx_holding_reg)
        /\ port'.since = IF port.since < ByteGap THEN port.since + 1 ELSE ByteGap
    BY DEF PortStep
  <2>2. port'.SPI_DONE <=> port.since = HalfSclk
    BY DEF PortStep
  <2>3. QED
    BY <2>1, <2>2
<1>2. /\ port.since \in Nat /\ ByteGap \in Nat /\ HalfSclk \in Nat /\ HalfSclk < ByteGap
      /\ port.since <= ByteGap /\ HalfSclk > 0
  BY TimingAssumption DEF PortType, PortAt
<1>3. /\ port.SPI_DONE <=> port.since = HalfSclk + 1
      /\ port.since <= HalfSclk => port.RxdData = WireByte(Current, Shifted)
      /\ port.SPI_DONE => port.Rx_holding_reg = WireByte(Current, Shifted)
  BY DEF PortAt
<1>4. /\ port'.since <= ByteGap
      /\ port'.since = HalfSclk + 1 <=> port.since = HalfSclk
      /\ port'.since <= HalfSclk => port.since <= HalfSclk
      /\ port.since <= HalfSclk <=> (port'.since <= HalfSclk \/ port.since = HalfSclk)
      /\ port.since = HalfSclk + 1 => port'.since = HalfSclk + 2 /\ port.since > HalfSclk
      /\ HalfSclk + 2 <= port.since /\ port.since < ByteGap => port'.since = port.since + 1
  <2> DEFINE p == port.since
  <2> DEFINE z == port'.since
  <2>1. z = IF p < ByteGap THEN p + 1 ELSE ByteGap
    BY <1>1
  <2>2. p \in Nat /\ p <= ByteGap
    BY <1>2
  <2> HIDE DEF p, z
  <2>3. /\ z <= ByteGap /\ (z = HalfSclk + 1 <=> p = HalfSclk)
        /\ (z <= HalfSclk => p <= HalfSclk)
        /\ (p <= HalfSclk <=> (z <= HalfSclk \/ p = HalfSclk))
        /\ (p = HalfSclk + 1 => z = HalfSclk + 2 /\ p > HalfSclk)
        /\ (HalfSclk + 2 <= p /\ p < ByteGap => z = p + 1)
    BY <1>2, <2>1, <2>2
  <2>4. QED
    BY <2>3 DEF p, z
<1>5. PortAt'
  <2>1. port'.SPI_DONE <=> port'.since = HalfSclk + 1
    BY <1>1, <1>4
  <2>2. port'.since <= HalfSclk => port'.RxdData = WireByte(Current', Shifted')
    BY <1>1, <1>3, <1>4
  <2>3. port'.SPI_DONE => port'.Rx_holding_reg = WireByte(Current', Shifted')
    <3>1. port.since = HalfSclk => port.since <= HalfSclk
      BY <1>2
    <3>2. QED
      BY <1>1, <1>3, <3>1
  <2>4. port'.since <= ByteGap
    BY <1>4
  <2>5. QED
    BY <2>1, <2>2, <2>3, <2>4 DEF PortAt, WireByte, Lead
<1>6. port.SPI_DONE => ~Pending' /\ Pending
  <2> SUFFICES ASSUME port.SPI_DONE
               PROVE  ~Pending' /\ Pending
    OBVIOUS
  <2>1. port'.since = HalfSclk + 2 /\ port.since # HalfSclk
    BY <1>2, <1>3, <1>4
  <2>2. ~port'.SPI_DONE
    BY <1>1, <2>1
  <2>3. ~(port'.since <= HalfSclk)
    BY <1>2, <2>1
  <2>4. QED
    BY <2>2, <2>3 DEF Pending
<1>7. ~port.SPI_DONE => (Pending' <=> Pending)
  <2> SUFFICES ASSUME ~port.SPI_DONE
               PROVE  Pending' <=> Pending
    OBVIOUS
  <2>1. Pending <=> port.since <= HalfSclk
    BY DEF Pending
  <2>2. Pending' <=> (port'.since <= HalfSclk \/ port.since = HalfSclk)
    BY <1>1 DEF Pending
  <2>3. QED
    BY <1>4, <2>1, <2>2
<1>8. port.SPI_DONE => Taken' = Taken + 1 /\ port'.since = HalfSclk + 2
  <2> SUFFICES ASSUME port.SPI_DONE
               PROVE  Taken' = Taken + 1 /\ port'.since = HalfSclk + 2
    OBVIOUS
  <2>1. Taken = Shifted - 1 /\ Taken' = Shifted
    BY <1>6 DEF Taken
  <2>2. port'.since = HalfSclk + 2
    BY <1>3, <1>4
  <2> HIDE DEF Shifted, Taken
  <2>3. Taken' = Taken + 1
    BY <2>1
  <2>4. QED
    BY <2>2, <2>3
<1>9. ~port.SPI_DONE => Taken' = Taken
  <2> SUFFICES ASSUME ~port.SPI_DONE
               PROVE  Taken' = Taken
    OBVIOUS
  <2>1. CASE Pending
    BY <1>7, <2>1 DEF Taken
  <2>2. CASE ~Pending
    BY <1>7, <2>2 DEF Taken
  <2>3. QED
    BY <2>1, <2>2
<1>10. QED
  BY <1>4, <1>5, <1>8, <1>9

LEMMA PortShifts ==
  ASSUME ByteGap >= HalfSclk + 33, PortType, PortAt, port.since = ByteGap,
         NEW mosi, mosi = WireByte(Current', Shifted'),
         NEW load, NEW data, PortStep(TRUE, mosi, load, data)
  PROVE  /\ PortAt' /\ ~port.SPI_DONE
         /\ Taken = Shifted /\ Taken' = Shifted' - 1
<1>1. ByteGap \in Nat /\ HalfSclk \in Nat /\ HalfSclk < ByteGap /\ HalfSclk > 0
  BY TimingAssumption
<1>2. /\ port'.RxdData = mosi /\ port'.since = 0
      /\ (port'.SPI_DONE <=> port.since = HalfSclk)
  <2>1. port'.RxdData = mosi /\ port'.since = 0
    BY DEF PortStep
  <2>2. port'.SPI_DONE <=> port.since = HalfSclk
    BY DEF PortStep
  <2>3. QED
    BY <2>1, <2>2
<1>3. ~port.SPI_DONE /\ ~(port.since <= HalfSclk) /\ port.since # HalfSclk
  <2>1. port.SPI_DONE <=> port.since = HalfSclk + 1
    BY DEF PortAt
  <2>2. port.since # HalfSclk + 1 /\ ~(port.since <= HalfSclk) /\ port.since # HalfSclk
    BY <1>1
  <2>3. QED
    BY <2>1, <2>2
<1>4. ~port'.SPI_DONE /\ port'.since <= HalfSclk
  <2>1. ~port'.SPI_DONE
    BY <1>2, <1>3
  <2>2. 0 <= HalfSclk
    BY <1>1
  <2>3. QED
    BY <1>2, <2>1, <2>2
<1>5. PortAt'
  <2>1. 0 <= ByteGap /\ 0 # HalfSclk + 1
    BY <1>1
  <2>2. port'.since <= ByteGap /\ port'.since # HalfSclk + 1
    BY <1>2, <2>1
  <2>3. port'.RxdData = WireByte(Current', Shifted')
    BY <1>2
  <2>4. QED
    BY <1>4, <2>2, <2>3 DEF PortAt, WireByte, Lead
<1>6. ~Pending /\ Pending'
  BY <1>3, <1>4 DEF Pending
<1>7. QED
  BY <1>3, <1>5, <1>6 DEF Taken

(* What the driver begins is a message, its code and its length first.      *)
LEMMA BeginsAt ==
  ASSUME HostType, HostAt, NEW ramFull, DriverBegins(ramFull)
  PROVE  /\ HostAt' /\ Current' = Current /\ Shifted' = Shifted
         /\ host.msg = "none" /\ Begun = 0
         /\ \/ Begun' = 0
            \/ ramFull = FALSE /\ \E f \in Frames : Begun' = WordCount(Len(f))
<1>1. CASE SendFrame(ramFull)
  <2>1. PICK f \in Frames : SendMessage("frame", <<102, Len(f)>>, f)
    BY <1>1 DEF SendFrame
  <2>2. f \in Seq(Byte) /\ f # <<>> /\ Len(f) \in Byte /\ 102 \in Byte
    BY MessageAssumption, CodesAreBytes
  <2> DEFINE m == [msg |-> "frame", body |-> f]
  <2>3. m.msg = "frame" /\ m.body = f /\ m \in Message
    BY <2>2 DEF Message
  <2>4. <<102, Len(f)>> \in Seq(Byte) /\ Len(<<102, Len(f)>>) = 2
    BY <2>2
  <2> HIDE DEF m
  <2>5. IsMessage(m) /\ Lead(m) = 2
    BY <2>2, <2>3 DEF IsMessage, Lead
  <2>6. WireByte(m, 1) = 102 /\ WireByte(m, 2) = Len(f)
    BY <2>3, <2>5, WireBytes
  <2>7. \A k \in 1 .. Lead(m) : <<102, Len(f)>>[k] = WireByte(m, k)
    <3>1. <<102, Len(f)>>[1] = WireByte(m, 1) /\ <<102, Len(f)>>[2] = WireByte(m, 2)
      BY <2>6
    <3>2. \A k \in 1 .. Lead(m) : k = 1 \/ k = 2
      BY <2>5
    <3>3. QED
      BY <3>1, <3>2
  <2>8. m = [msg |-> "frame", body |-> f]
    BY DEF m
  <2>9. QED
    <3>1. /\ HostAt' /\ Current' = Current /\ Shifted' = Shifted
          /\ host.msg = "none" /\ Begun = 0 /\ Begun' = OwnWords(m)
      BY <2>1, <2>3, <2>4, <2>5, <2>7, <2>8, HostSends
    <3>2. OwnWords(m) = WordCount(Len(f))
      BY <2>3 DEF OwnWords
    <3>3. ramFull = FALSE
      BY <1>1 DEF SendFrame
    <3>4. QED
      BY <3>1, <3>2, <3>3
<1>2. CASE SendCommand
  <2>1. PICK f \in Commands : SendMessage("cmd", <<18, Len(f)>>, f)
    BY <1>2 DEF SendCommand
  <2>2. f \in Seq(Byte) /\ f # <<>> /\ Len(f) \in Byte /\ 18 \in Byte
    BY MessageAssumption, CodesAreBytes
  <2> DEFINE m == [msg |-> "cmd", body |-> f]
  <2>3. m.msg = "cmd" /\ m.body = f /\ m \in Message
    BY <2>2 DEF Message
  <2>4. <<18, Len(f)>> \in Seq(Byte) /\ Len(<<18, Len(f)>>) = 2
    BY <2>2
  <2> HIDE DEF m
  <2>5. IsMessage(m) /\ Lead(m) = 2
    BY <2>2, <2>3 DEF IsMessage, Lead
  <2>6. WireByte(m, 1) = 18 /\ WireByte(m, 2) = Len(f)
    BY <2>3, <2>5, WireBytes
  <2>7. \A k \in 1 .. Lead(m) : <<18, Len(f)>>[k] = WireByte(m, k)
    <3>1. <<18, Len(f)>>[1] = WireByte(m, 1) /\ <<18, Len(f)>>[2] = WireByte(m, 2)
      BY <2>6
    <3>2. \A k \in 1 .. Lead(m) : k = 1 \/ k = 2
      BY <2>5
    <3>3. QED
      BY <3>1, <3>2
  <2>8. m = [msg |-> "cmd", body |-> f]
    BY DEF m
  <2>9. QED
    <3>1. /\ HostAt' /\ Current' = Current /\ Shifted' = Shifted
          /\ host.msg = "none" /\ Begun = 0 /\ Begun' = OwnWords(m)
      BY <2>1, <2>3, <2>4, <2>5, <2>7, <2>8, HostSends
    <3>2. OwnWords(m) = 0
      BY <2>3 DEF OwnWords
    <3>3. QED
      BY <3>1, <3>2
<1>3. CASE SendConfig
  <2>1. PICK c \in Configs :
          SendMessage("config", <<17, Len(c) \div 256, Len(c) % 256>>, c)
    BY <1>3 DEF SendConfig
  <2> DEFINE h == Hi(Len(c))
  <2> DEFINE l == Lo(Len(c))
  <2> DEFINE head == <<17, h, l>>
  <2> DEFINE m == [msg |-> "config", body |-> c]
  <2>2. c \in Seq(Byte) /\ c # <<>> /\ h \in Byte /\ 17 \in Byte
    BY MessageAssumption, CodesAreBytes DEF Hi
  <2>3. l \in Byte
    <3>1. Len(c) \in Nat
      BY <2>2
    <3>2. QED
      BY <3>1, DivFacts
  <2>4. SendMessage("config", head, c)
    BY <2>1 DEF Hi, Lo
  <2>5. m.msg = "config" /\ m.body = c /\ m \in Message
    BY <2>2 DEF Message
  <2> HIDE DEF h, l
  <2>6. head \in Seq(Byte) /\ Len(head) = 3 /\ head[1] = 17 /\ head[2] = h /\ head[3] = l
    BY <2>2, <2>3
  <2> HIDE DEF m, head
  <2>7. IsMessage(m) /\ Lead(m) = 3
    BY <2>2, <2>5 DEF IsMessage, Lead, h
  <2>8. WireByte(m, 1) = 17 /\ WireByte(m, 2) = h /\ WireByte(m, 3) = l
    <3>1. WireByte(m, 1) = 17
      BY <2>5, <2>7, WireBytes
    <3>2. WireByte(m, 2) = h /\ WireByte(m, 3) = l
      BY <2>5, <2>7 DEF WireByte, h, l
    <3>3. QED
      BY <3>1, <3>2
  <2>9. \A k \in 1 .. Lead(m) : head[k] = WireByte(m, k)
    <3>1. \A k \in 1 .. Lead(m) : k = 1 \/ k = 2 \/ k = 3
      BY <2>7
    <3>2. QED
      BY <2>6, <2>8, <3>1
  <2>10. m = [msg |-> "config", body |-> c]
    BY DEF m
  <2>11. QED
    <3>1. /\ HostAt' /\ Current' = Current /\ Shifted' = Shifted
          /\ host.msg = "none" /\ Begun = 0 /\ Begun' = OwnWords(m)
      BY <2>4, <2>5, <2>6, <2>7, <2>9, <2>10, HostSends
    <3>2. OwnWords(m) = 0
      BY <2>5 DEF OwnWords
    <3>3. QED
      BY <3>1, <3>2
<1>4. QED
  BY <1>1, <1>2, <1>3 DEF DriverBegins

(* Nothing is received, so that all it reacts to is the end of a message.   *)
LEMMA ReactsAt ==
  ASSUME HostType, HostAt, work.pending = FALSE, DriverReacts
  PROVE  HostAt' /\ Current' = Current /\ Shifted' = Shifted /\ Begun' = Begun
<1>1. host.owed = <<>> /\ host.msg \notin {"len", "packet"}
  BY DEF HostAt
<1>2. EndSent
  BY <1>1 DEF DriverReacts, AskLen, EndLen, AskPacket, HandPacketOver, Done, NothingOwed
<1>3. QED
  BY <1>2, HostEnds

(* An edge of the link, seen from the driver.  A frame is begun only when   *)
(* the line says there is room.                                             *)
BegunMoves ==
  \/ Begun' = Begun
  \/ /\ host.msg = "none" /\ Begun = 0 /\ ~cpu_irq_full
     /\ \E f \in Frames : Begun' = WordCount(Len(f))

LEMMA HostMoves ==
  ASSUME LinkType, HostAt, work.pending = FALSE, LinkNext
  PROVE  \/ /\ HostAt' /\ Current' = Current /\ Shifted' = Shifted
            /\ Fpga(FALSE, 0) /\ BegunMoves
         \/ /\ HostAt' /\ IsMessage(Current') /\ port.since = ByteGap
            /\ Fpga(TRUE, WireByte(Current', Shifted'))
            /\ \/ Current' = Current /\ Shifted' = Shifted + 1 /\ Begun' = Begun
               \/ /\ Shifted = WireLen(Current) /\ Shifted' = 1
                  /\ Begun = OwnWords(Current') /\ Begun' = 0
<1> USE DEF LinkType
<1>1. CASE EdgeShifting
  <2>1. /\ port.since = ByteGap /\ ShiftByte(port.TxData) /\ Fpga(TRUE, Head(host.out))
    BY <1>1 DEF EdgeShifting, MayEndByte
  <2>2. /\ HostAt' /\ IsMessage(Current') /\ Head(host.out) = WireByte(Current', Shifted')
        /\ \/ Current' = Current /\ Shifted' = Shifted + 1 /\ Begun' = Begun
           \/ /\ Shifted = WireLen(Current) /\ Shifted' = 1
              /\ Begun = OwnWords(Current') /\ Begun' = 0
    BY <2>1, HostShifts
  <2> HIDE DEF HostAt, Current, Shifted, IsMessage, WireByte, Begun, OwnWords
  <2>3. Fpga(TRUE, WireByte(Current', Shifted'))
    BY <2>1, <2>2
  <2>4. QED
    BY <2>1, <2>2, <2>3
<1>2. CASE EdgeReacting
  <2>1. DriverReacts /\ Fpga(FALSE, 0)
    BY <1>2 DEF EdgeReacting
  <2>2. QED
    BY <2>1, ReactsAt DEF BegunMoves
<1>3. CASE EdgeBeginning
  <2>1. DriverBegins(cpu_irq_full) /\ Fpga(FALSE, 0)
    BY <1>3 DEF EdgeBeginning
  <2>2. PICK full : full = cpu_irq_full
    OBVIOUS
  <2>3. /\ HostAt' /\ Current' = Current /\ Shifted' = Shifted
        /\ host.msg = "none" /\ Begun = 0
        /\ \/ Begun' = 0
           \/ full = FALSE /\ \E f \in Frames : Begun' = WordCount(Len(f))
    BY <2>1, <2>2, BeginsAt
  <2>4. full = FALSE => ~cpu_irq_full
    BY <2>2
  <2>5. QED
    BY <2>1, <2>3, <2>4 DEF BegunMoves
<1>4. CASE EdgeQuiet
  <2>1. host' = host /\ Fpga(FALSE, 0)
    BY <1>4 DEF EdgeQuiet
  <2>2. HostAt'
    BY <2>1 DEF HostAt, Sending, WireLen, WireByte, Lead
  <2>3. Current' = Current
    BY <2>1 DEF Current, Cur
  <2>4. Shifted' = Shifted
    BY <2>1, <2>3 DEF Shifted, WireLen, Lead
  <2>5. Begun' = Begun
    BY <2>1 DEF Begun, Sending, OwnWords
  <2>6. QED
    BY <2>1, <2>2, <2>3, <2>4, <2>5 DEF BegunMoves
<1>5. QED
  BY <1>1, <1>2, <1>3, <1>4 DEF LinkNext

(* The link while it sends: no packet comes, and configurations are not sent*)
(* while the radio fetches.                                                 *)
OneWay == MaxPackets = 0 /\ (Configs = {} \/ TRUE \notin Fetches)
Resting == IrqAtRest /\ RadioAtRest /\ work.int = TRUE /\ work.pending = FALSE
Settled == TypeOK /\ LinkType /\ CountsInBounds /\ FlagsTrueWhenArbitrating
Storing == Drives /\ Pulsing /\ Serving /\ Fetching /\ Room /\ Mine

(* What an edge makes of the count and the word on its way.                 *)
Tallied ==
  /\ FIFO_I_SIZE \in Nat /\ fifo_i_count \in Nat /\ fifo_i_count' \in Nat
  /\ fifo_i_count' + Due' <= fifo_i_count + Due + Rise
  /\ fifo_i_full' <=> fifo_i_count = FIFO_I_SIZE

(* What SRAM_ctrl is asked for, and what that makes of it.                  *)
LEMMA AskedFor ==
  ASSUME IrqAtRest, RadioAtRest
  PROVE  SlaveRequests \cup RadioRequests = Asked
<1>1. ~irq.SRAM_read /\ ~radio.write
  <2>1. irq.SRAM_read = FALSE
    BY DEF IrqAtRest
  <2>2. radio.write = FALSE
    BY DEF RadioAtRest
  <2>3. QED
    BY <2>1, <2>2
<1>2. QED
  BY <1>1 DEF SlaveRequests, RadioRequests, Asked, NoWrite

(* An edge of SRAM_ctrl in the link.                                        *)
LEMMA SramEdge ==
  ASSUME OneWay, Settled, Resting, Serving, Fetching, Room, Mine, Lines,
         NEW ends, NEW mosi, Fpga(ends, mosi)
  PROVE  /\ RadioAtRest' /\ Serving' /\ Fetching' /\ Room' /\ Mine' /\ Tallied
         /\ spi.write_line # 0 /\ ~slave_hint => Wait' < Wait
<1>1. /\ Step(SlaveRequests \cup RadioRequests, radio.start, radio.rollback,
              spi.Data_to_sram, radio.data)
      /\ \/ Answer(master_hint, master_data_from_sram)
         \/ RadioMay(master_hint, fifo_i_empty, fifo_o_full, SRAM_AlmostFull)
         \/ RadioIdles(master_hint)
  BY DEF Fpga
<1>2. RadioType /\ RadioAtRest /\ IrqAtRest /\ MaxPackets = 0
  BY DEF Settled, LinkType, Resting, OneWay
<1>3. /\ RadioAtRest'
      /\ radio.read /\ master_hint => ~radio'.read
      /\ radio.read /\ ~master_hint => radio'.read
      /\ ~radio.read /\ radio'.read => ~fifo_i_empty /\ TRUE \in Fetches
  <2>1. PICK hint, data, empty, full, almost :
          /\ hint = master_hint /\ data = master_data_from_sram
          /\ empty = fifo_i_empty /\ full = fifo_o_full /\ almost = SRAM_AlmostFull
    OBVIOUS
  <2>2. \/ Answer(hint, data) \/ RadioMay(hint, empty, full, almost) \/ RadioIdles(hint)
    BY <1>1, <2>1
  <2>3. RadioAtRest' /\ (~radio.read /\ radio'.read => ~empty /\ TRUE \in Fetches)
    BY <1>2, <2>2, RadioRests
  <2>4. radio.read /\ hint => ~radio'.read
    BY <1>2, <2>2, RadioRests
  <2>5. radio.read /\ ~hint => radio'.read
    BY <1>2, <2>2, RadioRests
  <2>6. radio.read /\ master_hint => ~radio'.read
    BY <2>1, <2>4
  <2>7. radio.read /\ ~master_hint => radio'.read
    BY <2>1, <2>5
  <2>8. ~radio.read /\ radio'.read => ~fifo_i_empty /\ TRUE \in Fetches
    BY <2>1, <2>3
  <2>9. QED
    BY <2>3, <2>6, <2>7, <2>8
<1>4. FetchLine
  BY <1>3 DEF FetchLine
<1>5. Step(Asked, radio.start, radio.rollback, spi.Data_to_sram, radio.data)
  BY <1>1, <1>2, AskedFor
<1>6. ArbiterEdge(radio.start, radio.rollback, spi.Data_to_sram, radio.data)
  BY <1>4, <1>5 DEF ArbiterEdge, OneWay, Settled
<1>7. Serving' /\ Fetching' /\ Room'
  BY <1>6, ServingStep, FetchingStep, RoomStep
<1>8. spi.write_line # 0 /\ ~slave_hint => Wait' < Wait
  BY <1>6, WaitStep
<1>9. Mine' /\ Tallied
  <2>1. /\ Mine' /\ fifo_i_count' + Due' <= fifo_i_count + Due + Rise
        /\ FIFO_I_SIZE \in Nat /\ fifo_i_count \in Nat /\ fifo_i_count' \in Nat
        /\ (fifo_i_full' <=> fifo_i_count = FIFO_I_SIZE)
    BY <1>6, DueStep
  <2>2. QED
    BY <2>1 DEF Tallied
<1>10. QED
  BY <1>3, <1>7, <1>8, <1>9

(* The interrupt line is at rest, and so is the work it schedules.          *)
LEMMA WorkRests ==
  ASSUME Resting, irq' = irq, TakeInterrupt(irq.cpu_recv_int)
  PROVE  IrqAtRest' /\ work'.int = TRUE /\ work'.pending = FALSE
<1>1. irq.cpu_recv_int = TRUE /\ work.int = TRUE /\ work.pending = FALSE /\ IrqAtRest
  BY DEF Resting, IrqAtRest
<1>2. IrqAtRest'
  <2>1. irq' = irq /\ IrqAtRest
    BY <1>1
  <2>2. QED
    BY <2>1 DEF IrqAtRest
<1>3. work'.int = TRUE /\ work'.pending = FALSE
  BY <1>1 DEF TakeInterrupt
<1>4. QED
  BY <1>2, <1>3

(* There is something left to do while the Spi machine does not wait.       *)
LEMMA LeftPositive ==
  ASSUME Serving, Drives, NEW m, NEW t, SpiAt(m, t), ~Waiting
  PROVE  Left \in Nat /\ Left >= 1
<1>1. /\ spi.state \in Raised => Left = Cost(spi.state) + Wait
      /\ spi.state \notin Raised => Left = Cost(spi.state)
      /\ Left \in Nat /\ Wait \in Nat /\ 1 <= Wait
  BY LeftIs
<1>2. Cost(spi.state) \in Nat
  BY DEF Cost
<1>3. spi.state \notin Raised => Cost(spi.state) >= 1
  BY DEF Raised, Cost
<1> DEFINE c == Cost(spi.state)
<1> DEFINE w == Wait
<1> DEFINE l == Left
<1>4. /\ l = c + w \/ (l = c /\ c >= 1)
      /\ l \in Nat /\ w \in Nat /\ 1 <= w /\ c \in Nat
  BY <1>1, <1>2, <1>3
<1> HIDE DEF c, w, l
<1>5. l >= 1
  BY <1>4
<1>6. QED
  BY <1>1, <1>5 DEF l

(* The words of a message the machine has still to raise, and how an edge   *)
(* changes them.                                                            *)
Raise(m, s, t) == IF m.msg = "frame" THEN Owes(s, Len(m.body), t) ELSE 0

LEMMA RaiseFacts ==
  ASSUME SpiType, NEW m, IsMessage(m), NEW t, SpiAt(m, t)
  PROVE  /\ Raise(m, spi.state, t) \in Nat
         /\ spi.state \in {6, 7, 8, 9, 13, 14} => Raise(m, spi.state, t) >= 1
<1>1. CASE m.msg # "frame"
  <2>1. spi.state \notin FrameStates
    BY <1>1 DEF SpiAt, Begins
  <2>2. QED
    BY <1>1, <2>1 DEF Raise, FrameStates
<1>2. CASE m.msg = "frame"
  <2>1. Spot(spi.state, Len(m.body), t)
    BY <1>2, SpotHere
  <2>2. Raise(m, spi.state, t) = Owes(spi.state, Len(m.body), t)
    BY <1>2 DEF Raise
  <2>3. QED
    BY <2>1, <2>2, OwesFacts
<1>3. QED
  BY <1>1, <1>2

LEMMA RaiseTaken ==
  ASSUME SpiType, NEW m, IsMessage(m), NEW t, SpiAt(m, t), Waiting, t < WireLen(m),
         Drives', spi'.state = AfterByte[spi.state], NEW u, u = t + 1
  PROVE  Raise(m, spi'.state, u) + Rise <= Raise(m, spi.state, t)
<1>1. spi'.state \in {3, 6, 13, 31, 35, 46, 49}
  BY AfterByteIs DEF Waiting
<1>2. Rise = 0
  <2>1. spi'.write_line = 0
    BY <1>1 DEF Drives, NoWrite
  <2>2. QED
    BY <2>1 DEF Rise
<1>3. Raise(m, spi'.state, u) = Raise(m, spi.state, t)
  <2>1. CASE m.msg # "frame"
    BY <2>1 DEF Raise
  <2>2. CASE m.msg = "frame"
    <3>1. Spot(spi.state, Len(m.body), t)
      BY <2>2, SpotHere
    <3>2. WireLen(m) = Len(m.body) + 2
      BY <2>2 DEF WireLen, Lead
    <3>3. spi.state \in {0, 4, 11}
      <4>1. spi.state \in {0, 3} \cup FrameStates
        BY <3>1 DEF Spot
      <4>2. QED
        BY <4>1 DEF Waiting, FrameStates
    <3>4. PICK s, z, n : s = spi.state /\ z = spi'.state /\ n = Len(m.body)
      OBVIOUS
    <3>5. (s = 0 /\ z = 3) \/ (s = 4 /\ z = 6) \/ (s = 11 /\ z = 13)
      <4>1. AfterByte[0] = 3 /\ AfterByte[4] = 6 /\ AfterByte[11] = 13
        BY AfterByteIs
      <4>2. QED
        BY <3>3, <3>4, <4>1
    <3>6. Spot(s, n, t) /\ t < n + 2
      BY <3>1, <3>2, <3>4
    <3>7. Owes(z, n, t + 1) = Owes(s, n, t)
      BY <3>5, <3>6, OwesTaken
    <3>8. QED
      BY <2>2, <3>4, <3>7 DEF Raise
  <2>3. QED
    BY <2>1, <2>2
<1>4. QED
  BY <1>2, <1>3, RaiseFacts

LEMMA RaiseMoves ==
  ASSUME SpiType, SpiType', NEW m, IsMessage(m), NEW t, SpiAt(m, t), SpiAt(m, t)',
         Drives, Drives', NEW hint, NEW full, WentOn(hint, full)
  PROVE  /\ Raise(m, spi'.state, t) + Rise <= Raise(m, spi.state, t)
         /\ spi'.state \in {7, 9, 14} => spi.state \in {6, 7, 8, 9, 13, 14}
<1>1. \/ /\ spi.state \in Raising \cup Raised \cup Thinking
         /\ spi'.state \in Follows(spi.state)
         /\ spi.state \in Raised => hint
         /\ spi.state \in {7, 9, 14} => ~full
      \/ spi' = spi
  BY DEF WentOn
<1>2. Raise(m, spi.state, t) \in Nat
  BY RaiseFacts
<1>3. CASE spi' = spi
  <2>1. Rise = 0
    BY <1>3 DEF Rise
  <2>2. Raise(m, spi'.state, t) = Raise(m, spi.state, t)
    BY <1>3
  <2>3. spi'.state \in {7, 9, 14} => spi.state \in {6, 7, 8, 9, 13, 14}
    BY <1>3
  <2>4. QED
    BY <1>2, <2>1, <2>2, <2>3
<1>4. CASE /\ spi.state \in Raising \cup Raised \cup Thinking
           /\ spi'.state \in Follows(spi.state)
           /\ spi.state \in Raised => hint
           /\ spi.state \in {7, 9, 14} => ~full
  <2>1. spi'.write_line = 1 => spi.state \in {7, 9, 14}
    BY <1>4, LineMoves
  <2>2. Rise <= IF spi.state \in {7, 9, 14} THEN 1 ELSE 0
    BY <2>1 DEF Rise
  <2>3. CASE m.msg # "frame"
    <3>1. spi.state \notin FrameStates
      BY <2>3 DEF SpiAt, Begins
    <3>2. spi'.state \notin FrameStates
      BY <2>3 DEF SpiAt, Begins
    <3>3. Rise <= 0
      BY <2>2, <3>1 DEF FrameStates
    <3>4. QED
      BY <2>3, <3>2, <3>3 DEF Raise, FrameStates, Rise
  <2>4. CASE m.msg = "frame"
    <3>1. Spot(spi.state, Len(m.body), t) /\ Spot(spi'.state, Len(m.body), t)
      BY <2>4, SpotHere, SpotNext
    <3>2. spi.state \in {3, 6, 7, 8, 9, 10, 13, 14, 15}
      <4>1. spi.state \in {0, 3} \cup FrameStates
        BY <3>1 DEF Spot
      <4>2. QED
        BY <1>4, <4>1 DEF FrameStates, Raising, Raised, Thinking
    <3>3. Owes(spi'.state, Len(m.body), t) + (IF spi.state \in {7, 9, 14} THEN 1 ELSE 0)
            <= Owes(spi.state, Len(m.body), t)
      BY <1>4, <3>1, <3>2, OwesMoves
    <3>4. spi'.state \in {7, 9, 14} => spi.state \in {6, 7, 8, 9, 13, 14}
      <4>1. spi.state = 3 => spi'.state \in {4, 30, 45}
        BY <1>4 DEF Follows
      <4>2. spi.state = 10 => spi'.state = 11
        BY <1>4 DEF Follows
      <4>3. spi.state = 15 => spi'.state \in {0, 11}
        BY <1>4 DEF Follows
      <4>4. QED
        BY <3>2, <4>1, <4>2, <4>3
    <3> DEFINE a == Owes(spi'.state, Len(m.body), t)
    <3> DEFINE b == Owes(spi.state, Len(m.body), t)
    <3> DEFINE r == Rise
    <3> DEFINE g == IF spi.state \in {7, 9, 14} THEN 1 ELSE 0
    <3>5. a \in Nat /\ b \in Nat /\ r \in {0, 1} /\ g \in {0, 1} /\ r <= g /\ a + g <= b
      BY <2>2, <3>1, <3>3, OwesFacts DEF Rise
    <3> HIDE DEF a, b, r, g
    <3>6. a + r <= b
      BY <3>5
    <3>7. QED
      BY <2>4, <3>4, <3>6 DEF Raise, a, b, r
  <2>5. QED
    BY <2>3, <2>4
<1>5. QED
  BY <1>1, <1>3, <1>4

(* A message of which all bytes are taken is over when the machine waits,   *)
(* and the next one may begin.                                              *)
LEMMA AtEnd ==
  ASSUME SpiType, NEW m, IsMessage(m), SpiAt(m, WireLen(m)), Waiting
  PROVE  spi.state = 0
<1>1. /\ spi.state \in {4, 45} => WireLen(m) = 1
      /\ spi.state = 30 => WireLen(m) \in {1, 2}
      /\ spi.state \in {11, 34, 48} => /\ WireLen(m) = spi.Count + Lead(m)
                                       /\ spi.Count < Len(m.body)
  <2>1. /\ spi.state \in {4, 45} => WireLen(m) = 1
        /\ spi.state = 30 => WireLen(m) \in {1, 2}
    BY DEF SpiAt, Leads
  <2>2. spi.state \in {11, 34, 48} => /\ WireLen(m) = spi.Count + Lead(m)
                                      /\ spi.Count < Len(m.body)
    BY DEF SpiAt, Body
  <2>3. QED
    BY <2>1, <2>2
<1>2. spi.state = 30 => m.msg = "config"
  BY DEF SpiAt, Begins, ConfigStates
<1>3. /\ WireLen(m) = Len(m.body) + Lead(m) /\ Len(m.body) \in Nat \ {0}
      /\ Lead(m) \in {2, 3} /\ (m.msg = "config" => Lead(m) = 3)
  BY LeadFacts, MessageFacts DEF Lead
<1>4. spi.Count \in Nat
  BY DEF SpiType, SpiPlain
<1> DEFINE w == WireLen(m)
<1> DEFINE b == Len(m.body)
<1> DEFINE l == Lead(m)
<1> DEFINE c == spi.Count
<1>5. w = b + l /\ b \in Nat \ {0} /\ l \in {2, 3} /\ (m.msg = "config" => l = 3) /\ c \in Nat
  BY <1>3, <1>4
<1>6. /\ spi.state \in {4, 45} => w = 1
      /\ spi.state = 30 => w \in {1, 2} /\ l = 3
      /\ spi.state \in {11, 34, 48} => w = c + l /\ c < b
  BY <1>1, <1>2, <1>5
<1> HIDE DEF w, b, l, c
<1>7. w # 1 /\ (l = 3 => w # 2) /\ ~(w = c + l /\ c < b)
  BY <1>5
<1>8. spi.state \notin {4, 45, 30, 11, 34, 48}
  BY <1>6, <1>7
<1>9. QED
  BY <1>8 DEF Waiting

LEMMA AtStart ==
  ASSUME NEW m, IsMessage(m), spi.state = 0
  PROVE  SpiAt(m, 0)
<1>1. WireLen(m) \in Nat
  BY LeadFacts
<1>2. 0 \in Nat /\ 0 <= WireLen(m)
  BY <1>1
<1>3. Begins(m, 0)
  BY DEF Begins, FrameStates, ConfigStates, CmdStates
<1>4. Leads(m, 0)
  BY DEF Leads
<1>5. Body(m, 0)
  BY DEF Body
<1>6. QED
  BY <1>2, <1>3, <1>4, <1>5 DEF SpiAt

(* The lines of a word at an edge of the Spi machine.                       *)
LEMMA LinesAt ==
  ASSUME LinkType, SpiType', NEW m, IsMessage(m), NEW t, SpiAt(m, t),
         Drives, Drives', Pulsing,
         \/ /\ spi.state \in {0, 4, 11, 30, 34, 45, 48}
            /\ spi'.state \in {3, 6, 13, 31, 35, 46, 49}
         \/ /\ spi.state \in Raising \cup Raised \cup Thinking
            /\ spi'.state \in Follows(spi.state)
            /\ spi.state \in Raised => slave_hint
            /\ spi.state \in {7, 9, 14} => ~fifo_i_full
         \/ spi' = spi /\ (spi.state \in Raised => ~slave_hint)
  PROVE  Lines
<1>1. spi.write_line \in {0, 1, 5, 9} /\ spi'.write_line \in {0, 1, 5, 9}
  BY DEF LinkType, SpiType, SpiPlain
<1>2. spi.config_done => spi.write_line = 0 /\ Configs # {}
  <2> SUFFICES ASSUME spi.config_done
               PROVE  spi.write_line = 0 /\ Configs # {}
    OBVIOUS
  <2>1. spi.state = 39
    BY DEF Pulsing
  <2>2. spi.write_line = 0
    BY <2>1 DEF Drives, NoWrite
  <2>3. m.msg = "config"
    BY <2>1 DEF SpiAt, Begins, ConfigStates
  <2>4. QED
    BY <2>2, <2>3 DEF IsMessage
<1>3. CASE /\ spi.state \in {0, 4, 11, 30, 34, 45, 48}
           /\ spi'.state \in {3, 6, 13, 31, 35, 46, 49}
  <2>1. spi.write_line = 0 /\ spi'.write_line = 0
    BY <1>3 DEF Drives, NoWrite
  <2>2. QED
    BY <1>1, <1>2, <2>1 DEF Lines
<1>4. CASE /\ spi.state \in Raising \cup Raised \cup Thinking
           /\ spi'.state \in Follows(spi.state)
           /\ spi.state \in Raised => slave_hint
           /\ spi.state \in {7, 9, 14} => ~fifo_i_full
  <2>1. /\ spi.write_line = 0 /\ spi'.write_line = 1 => ~fifo_i_full
        /\ spi.write_line # 0 => slave_hint /\ spi'.write_line = 0
    BY <1>4, LineMoves
  <2>2. QED
    BY <1>1, <1>2, <2>1 DEF Lines
<1>5. CASE spi' = spi /\ (spi.state \in Raised => ~slave_hint)
  <2>1. spi.write_line # 0 => spi.state \in Raised
    BY DEF Drives, Raised, NoWrite
  <2>2. spi'.write_line = spi.write_line /\ (spi.write_line # 0 => ~slave_hint)
    BY <1>5, <2>1
  <2>3. QED
    BY <1>1, <1>2, <2>2 DEF Lines
<1>6. QED
  BY <1>3, <1>4, <1>5

(* A word leaves those to be raised when its line rises, and the count grows*)
(* when it is stored.                                                       *)
Paid(m, t, u) ==
  /\ Tallied /\ Raise(m, spi'.state, u) + Rise <= Raise(m, spi.state, t)
  /\ spi'.state \in {7, 9, 14} => spi.state \in {6, 7, 8, 9, 13, 14}

(* An edge of the FPGA that announces a byte,                               *)
LEMMA EdgeTakes ==
  ASSUME OneWay, Settled, LinkType', NEW m, IsMessage(m), NEW t, SpiAt(m, t), Storing,
             Resting,
         NEW ends, NEW mosi, Fpga(ends, mosi), Waiting, t < WireLen(m), NEW u, u = t + 1,
         port.SPI_DONE, port.Rx_holding_reg = WireByte(m, t + 1)
  PROVE  /\ Resting' /\ Storing' /\ SpiAt(m, u)' /\ Left' <= 31
         /\ Paid(m, t, u)
<1>1. /\ SlaveStep(FALSE, slave_hint, slave_data_from_sram, fifo_i_full, fifo_o_empty,
                   port.SPI_DONE, port.Rx_holding_reg, ~port.Data_holding)
      /\ TakeInterrupt(irq.cpu_recv_int)
  <2>1. radio.received = FALSE
    BY DEF Resting, RadioAtRest
  <2>2. QED
    BY <2>1 DEF Fpga
<1>2. /\ LinkType
      /\ SpiType
      /\ SpiType'
      /\ Drives
      /\ Pulsing
      /\ Serving
      /\ Fetching
      /\ Room
      /\ Mine
      /\ IrqAtRest
  BY DEF Settled, LinkType, Storing, Resting
<1>3. /\ irq' = irq /\ SpiAt(m, u)' /\ Drives' /\ Pulsing'
      /\ spi'.state \in {3, 6, 13, 31, 35, 46, 49} /\ spi'.state = AfterByte[spi.state]
  BY <1>1, <1>2, SpiTakes
<1>4. Lines
  <2>1. spi.state \in {0, 4, 11, 30, 34, 45, 48}
    BY DEF Waiting
  <2>2. QED
    BY <1>2, <1>3, <2>1, LinesAt
<1>5. RadioAtRest' /\ Serving' /\ Fetching' /\ Room' /\ Mine' /\ Tallied
  BY <1>2, <1>4, SramEdge
<1>6. IrqAtRest' /\ work'.int = TRUE /\ work'.pending = FALSE
  BY <1>1, <1>3, WorkRests
<1>7. (Serving /\ Drives /\ spi.state \in {3, 6, 13, 31, 35, 46, 49} => Left <= 31)'
  BY LeftBegins, PTL
<1>8. Left' <= 31
  BY <1>3, <1>5, <1>7
<1>9. Paid(m, t, u)
  <2>1. Raise(m, spi'.state, u) + Rise <= Raise(m, spi.state, t)
    BY <1>2, <1>3, RaiseTaken
  <2>2. spi'.state \notin {7, 9, 14}
    BY <1>3
  <2>3. QED
    BY <1>5, <2>1, <2>2 DEF Paid
<1>10. QED
  BY <1>3, <1>5, <1>6, <1>8, <1>9 DEF Resting, Storing

(* While the Spi machine has a word of a frame to store, FIFO_I is not      *)
(* full: it never waits for room while the CPU goes on shifting bytes. What *)
(* ensures it is the driver, which begins no frame while the line of the    *)
(* threshold is high (total_link.v:56; Slave_Ctrl.v:560, 577, 631).         *)
RoomForFrame == spi.state \in {7, 9, 14} => ~fifo_i_full

(* and one that does not: nearer to the next byte, or waiting for it.       *)
LEMMA EdgeGoesOn ==
  ASSUME OneWay, Settled, LinkType', NEW m, IsMessage(m), NEW t, SpiAt(m, t), Storing,
             Resting,
         RoomForFrame, NEW ends, NEW mosi, Fpga(ends, mosi), ~port.SPI_DONE
  PROVE  /\ Resting' /\ Storing' /\ SpiAt(m, t)'
         /\ Waiting => spi' = spi
         /\ ~Waiting => Waiting' \/ Left' < Left
         /\ Paid(m, t, t)
<1>1. /\ SlaveStep(FALSE, slave_hint, slave_data_from_sram, fifo_i_full, fifo_o_empty,
                   port.SPI_DONE, port.Rx_holding_reg, ~port.Data_holding)
      /\ TakeInterrupt(irq.cpu_recv_int)
  <2>1. radio.received = FALSE
    BY DEF Resting, RadioAtRest
  <2>2. QED
    BY <2>1 DEF Fpga
<1>2. /\ LinkType
      /\ SpiType
      /\ SpiType'
      /\ Drives
      /\ Pulsing
      /\ Serving
      /\ Fetching
      /\ Room
      /\ Mine
      /\ IrqAtRest
  BY DEF Settled, LinkType, Storing, Resting
<1>3. /\ irq' = irq /\ SpiAt(m, t)' /\ Drives' /\ Pulsing'
      /\ \/ /\ spi.state \in Raising \cup Raised \cup Thinking
            /\ spi'.state \in Follows(spi.state)
            /\ spi.state \in Raised => slave_hint
            /\ spi.state \in {7, 9, 14} => ~fifo_i_full
         \/ spi' = spi /\ Waiting
         \/ spi' = spi /\ spi.state \in {7, 9, 14} /\ fifo_i_full
         \/ spi' = spi /\ spi.state \in Raised /\ ~slave_hint
  <2>1. port.SPI_DONE = FALSE
    BY <1>2 DEF LinkType, PortType
  <2>2. irq' = irq /\ SpiAt(m, t)' /\ Drives' /\ Pulsing' /\ WentOn(slave_hint, fifo_i_full)
    BY <1>1, <1>2, <2>1, SpiGoesOn
  <2>3. QED
    BY <2>2 DEF WentOn
<1>4. \/ /\ spi.state \in Raising \cup Raised \cup Thinking
         /\ spi'.state \in Follows(spi.state)
         /\ spi.state \in Raised => slave_hint
         /\ spi.state \in {7, 9, 14} => ~fifo_i_full
      \/ spi' = spi /\ Waiting
      \/ spi' = spi /\ spi.state \in Raised /\ ~slave_hint
  BY <1>3 DEF RoomForFrame
<1>5. Waiting => spi.state \notin Raised /\ spi.state \notin Raising \cup Raised \cup Thinking
  BY DEF Waiting, Raised, Raising, Thinking
<1>6. Lines
  <2>1. \/ /\ spi.state \in Raising \cup Raised \cup Thinking
           /\ spi'.state \in Follows(spi.state)
           /\ spi.state \in Raised => slave_hint
           /\ spi.state \in {7, 9, 14} => ~fifo_i_full
        \/ spi' = spi /\ (spi.state \in Raised => ~slave_hint)
    BY <1>4, <1>5
  <2>2. QED
    BY <1>2, <1>3, <2>1, LinesAt
<1>7. /\ RadioAtRest' /\ Serving' /\ Fetching' /\ Room' /\ Mine' /\ Tallied
      /\ spi.write_line # 0 /\ ~slave_hint => Wait' < Wait
  BY <1>2, <1>6, SramEdge
<1>8. IrqAtRest' /\ work'.int = TRUE /\ work'.pending = FALSE
  BY <1>1, <1>3, WorkRests
<1>9. Waiting => spi' = spi
  BY <1>4, <1>5
<1>10. ~Waiting => Waiting' \/ Left' < Left
  <2> SUFFICES ASSUME ~Waiting
               PROVE  Waiting' \/ Left' < Left
    OBVIOUS
  <2>1. CASE /\ spi.state \in Raising \cup Raised \cup Thinking
             /\ spi'.state \in Follows(spi.state)
    BY <1>2, <1>3, <1>7, <2>1, LeftFalls
  <2>2. CASE spi' = spi /\ spi.state \in Raised /\ ~slave_hint
    <3>1. spi.write_line # 0
      BY <1>2, <2>2 DEF Drives, Raised, NoWrite, TxWrite, CfgWrite, SingleWrite
    <3>2. Wait' < Wait
      BY <1>7, <2>2, <3>1
    <3>3. (Serving => Wait \in Nat /\ 1 <= Wait /\ Wait <= 14)'
      BY WaitRange, PTL
    <3>4. Wait \in Nat /\ Wait' \in Nat
      BY <1>2, <1>7, <3>3, WaitRange
    <3>5. Left = Cost(spi.state) + Wait /\ Left' = Cost(spi.state) + Wait'
      <4>1. spi'.write_line # 0 /\ spi'.state = spi.state
        BY <2>2, <3>1
      <4>2. QED
        BY <3>1, <4>1 DEF Left, Cost
    <3>6. Cost(spi.state) \in Nat
      BY DEF Cost
    <3> DEFINE a == Wait
    <3> DEFINE b == Wait'
    <3> DEFINE c == Cost(spi.state)
    <3>7. a \in Nat /\ b \in Nat /\ c \in Nat /\ b < a
      BY <3>2, <3>4, <3>6
    <3> HIDE DEF a, b, c
    <3>8. c + b < c + a
      BY <3>7
    <3>9. QED
      BY <3>5, <3>8 DEF a, b, c
  <2>3. QED
    BY <1>4, <2>1, <2>2
<1>11. Paid(m, t, t)
  <2>1. port.SPI_DONE = FALSE
    BY <1>2 DEF LinkType, PortType
  <2>2. WentOn(slave_hint, fifo_i_full)
    BY <1>1, <1>2, <2>1, SpiGoesOn
  <2>3. PICK hint, full : hint = slave_hint /\ full = fifo_i_full
    OBVIOUS
  <2>4. WentOn(hint, full)
    BY <2>2, <2>3
  <2>5. /\ Raise(m, spi'.state, t) + Rise <= Raise(m, spi.state, t)
        /\ spi'.state \in {7, 9, 14} => spi.state \in {6, 7, 8, 9, 13, 14}
    BY <1>2, <1>3, <2>4, RaiseMoves
  <2>6. QED
    BY <1>7, <2>5 DEF Paid
<1>12. QED
  BY <1>3, <1>7, <1>8, <1>9, <1>10, <1>11 DEF Resting, Storing

(* The words stored, on their way and still to be raised, and those of a    *)
(* message that is only begun, fit into FIFO_I together.                    *)
ToRaise == Raise(Current, spi.state, Taken)
Enough  == fifo_i_count + Due + ToRaise + Begun <= FIFO_I_SIZE

(* The driver begins a frame only while the line of the threshold is low.   *)
Sized == \A f \in Frames : FULL_I_THRESHOLD + 1 + WordCount(Len(f)) <= FIFO_I_SIZE

(* What is left of a message and of one only begun is a number.             *)
LEMMA RaiseNext ==
  ASSUME SpiType', NEW m, IsMessage(m), NEW t, SpiAt(m, t)'
  PROVE  Raise(m, spi'.state, t) \in Nat
<1>1. CASE m.msg # "frame"
  BY <1>1 DEF Raise
<1>2. CASE m.msg = "frame"
  <2>1. Spot(spi'.state, Len(m.body), t)
    BY <1>2, SpotNext
  <2>2. Raise(m, spi'.state, t) = Owes(spi'.state, Len(m.body), t)
    BY <1>2 DEF Raise
  <2>3. QED
    BY <2>1, <2>2, OwesFacts
<1>3. QED
  BY <1>1, <1>2

LEMMA BegunIsNat == HostAt => Begun \in Nat
<1> SUFFICES ASSUME HostAt
             PROVE  Begun \in Nat
  OBVIOUS
<1>1. CASE host.msg # "none" /\ host.in = <<>>
  <2>1. IsMessage(Sending)
    <3>1. Len(host.sent) > 0 /\ Len(host.sent) \in Nat
      BY <1>1 DEF HostAt
    <3>2. Len(host.sent) \in 1 .. Len(host.sent)
      BY <3>1
    <3>3. QED
      BY <3>2 DEF HostAt, Sending
  <2>2. PICK m : m = Sending
    OBVIOUS
  <2>3. Len(m.body) \in Nat
    BY <2>1, <2>2, MessageFacts
  <2>4. OwnWords(m) \in Nat
    <3>1. Half(Len(m.body)) \in Nat
      BY <2>3, HalfFacts
    <3>2. QED
      BY <3>1 DEF OwnWords, WordCount
  <2>5. QED
    BY <1>1, <2>2, <2>4 DEF Begun
<1>2. CASE ~(host.msg # "none" /\ host.in = <<>>)
  BY <1>2 DEF Begun
<1>3. QED
  BY <1>1, <1>2

(* Between two messages at most one word is left.                           *)
LEMMA OneLeft ==
  ASSUME SpiType, NEW m, IsMessage(m), NEW t, SpiAt(m, t), Drives,
         t = WireLen(m) \/ (t = WireLen(m) - 1 /\ Waiting)
  PROVE  Due + Raise(m, spi.state, t) <= 1
<1>1. Due \in {0, 1}
  BY DEF Due
<1>2. Due = 1 => spi.state \in {8, 10, 15}
  <2>1. Due = 1 => spi.write_line = 1
    BY DEF Due
  <2>2. spi.write_line = 1 => spi.state \in {8, 10, 15}
    BY DEF Drives, NoWrite, CfgWrite, SingleWrite
  <2>3. QED
    BY <2>1, <2>2
<1>3. CASE m.msg # "frame"
  <2>1. Raise(m, spi.state, t) = 0
    BY <1>3 DEF Raise
  <2>2. QED
    BY <1>1, <2>1
<1>4. CASE m.msg = "frame"
  <2>1. PICK s, n : s = spi.state /\ n = Len(m.body)
    OBVIOUS
  <2>2. Spot(s, n, t)
    BY <1>4, <2>1, SpotHere
  <2>3. WireLen(m) = n + 2 /\ n \in Nat
    BY <1>4, <2>1, <2>2 DEF WireLen, Lead, Spot
  <2>4. Waiting => s \in {0, 4, 11}
    <3>1. s \in {0, 3} \cup FrameStates
      BY <2>2 DEF Spot
    <3>2. QED
      BY <2>1, <3>1 DEF Waiting, FrameStates
  <2>5. t = n + 2 \/ (t = n + 1 /\ s \in {0, 4, 11})
    BY <2>3, <2>4
  <2>6. Owes(s, n, t) <= 1 /\ (s \in {8, 10, 15} => Owes(s, n, t) = 0)
    BY <2>2, <2>5, OwesAtEnd
  <2>7. Raise(m, spi.state, t) = Owes(s, n, t) /\ Owes(s, n, t) \in Nat
    BY <1>4, <2>1, <2>2, OwesFacts DEF Raise
  <2>8. QED
    BY <1>1, <1>2, <2>1, <2>6, <2>7
<1>5. QED
  BY <1>3, <1>4

(* An edge keeps room for what is still to come.                            *)
LEMMA RoomKept ==
  ASSUME NEW m, NEW t, NEW u, Paid(m, t, u), Enough,
         ToRaise = Raise(m, spi.state, t), ToRaise \in Nat, ToRaise' \in Nat,
         Raise(m, spi'.state, u) \in Nat, Begun \in Nat, Begun' \in Nat,
         spi.state \in {6, 7, 8, 9, 13, 14} => ToRaise >= 1,
         \/ ToRaise' + Begun' <= Raise(m, spi'.state, u) + Begun
         \/ /\ ToRaise' = Raise(m, spi'.state, u) /\ Due + ToRaise <= 1
            /\ fifo_i_count <= FULL_I_THRESHOLD
            /\ FULL_I_THRESHOLD + 1 + Begun' <= FIFO_I_SIZE
  PROVE  Enough' /\ RoomForFrame'
<1> DEFINE x == fifo_i_count
<1> DEFINE y == fifo_i_count'
<1> DEFINE d == Due
<1> DEFINE e == Due'
<1> DEFINE r == Rise
<1> DEFINE a == ToRaise
<1> DEFINE b == ToRaise'
<1> DEFINE c == Raise(m, spi'.state, u)
<1> DEFINE g == Begun
<1> DEFINE h == Begun'
<1>1. /\ FIFO_I_SIZE \in Nat /\ x \in Nat /\ y \in Nat /\ y + e <= x + d + r
      /\ (fifo_i_full' <=> x = FIFO_I_SIZE)
      /\ c + r <= a
      /\ (spi'.state \in {7, 9, 14} => spi.state \in {6, 7, 8, 9, 13, 14})
  BY DEF Paid, Tallied
<1>2. d \in {0, 1} /\ e \in {0, 1} /\ r \in {0, 1}
  BY DEF Due, Rise
<1>3. /\ x + d + a + g <= FIFO_I_SIZE
      /\ a \in Nat /\ b \in Nat /\ c \in Nat /\ g \in Nat /\ h \in Nat
      /\ (spi.state \in {6, 7, 8, 9, 13, 14} => a >= 1)
      /\ \/ b + h <= c + g
         \/ /\ b = c /\ d + a <= 1 /\ x <= FULL_I_THRESHOLD
            /\ FULL_I_THRESHOLD + 1 + h <= FIFO_I_SIZE
  BY DEF Enough
<1>4. FULL_I_THRESHOLD \in Nat
  BY ThresholdAssumption
<1> HIDE DEF x, y, d, e, r, a, b, c, g, h
<1>5. y + e + b + h <= FIFO_I_SIZE
  <2>1. CASE b + h <= c + g
    BY <1>1, <1>2, <1>3, <2>1
  <2>2. CASE /\ b = c
             /\ d + a <= 1
             /\ x <= FULL_I_THRESHOLD
             /\ FULL_I_THRESHOLD + 1 + h <= FIFO_I_SIZE
    BY <1>1, <1>2, <1>3, <1>4, <2>2
  <2>3. QED
    BY <1>3, <2>1, <2>2
<1>6. spi'.state \in {7, 9, 14} => x # FIFO_I_SIZE
  <2>1. a >= 1 => x # FIFO_I_SIZE
    BY <1>1, <1>2, <1>3
  <2>2. QED
    BY <1>1, <1>3, <2>1
<1>7. Enough'
  BY <1>5 DEF Enough, y, e, b, h
<1>8. RoomForFrame'
  BY <1>1, <1>6 DEF RoomForFrame
<1>9. QED
  BY <1>7, <1>8

(* Unless the Spi machine waits, the next byte cannot be announced before it*)
(* does.                                                                    *)
Timely ==
  Waiting \/ (HalfSclk + 2 <= port.since /\ port.since + Left <= HalfSclk + 33)

(* The inductive invariant: where the driver, the SPI port and the Spi      *)
(* machine are in the message, what SRAM_ctrl is at, that there is time and *)
(* that there is room.                                                      *)
LinkAt ==
  /\ HostAt /\ PortAt /\ IsMessage(Current) /\ SpiAt(Current, Taken)
  /\ Resting /\ Storing /\ Timely /\ Enough /\ RoomForFrame

(* The place in a message, after an edge.                                   *)
LEMMA SpiHere ==
  ASSUME NEW m, NEW t, SpiAt(m, t)', Current' = m, Taken' = t
  PROVE  SpiAt(Current, Taken)'
<1> DEFINE c == Current'
<1> DEFINE u == Taken'
<1>1. c = m /\ u = t
  OBVIOUS
<1>2. spi'.state \in {0, 3} \cup FrameStates \cup ConfigStates \cup CmdStates /\ t \in Nat
      /\ t <= WireLen(m) /\ Begins(m, t)' /\ Leads(m, t)' /\ Body(m, t)'
  BY DEF SpiAt
<1> HIDE DEF c, u
<1>3. u \in Nat /\ u <= WireLen(c)
  BY <1>1, <1>2
<1>4. Begins(Current, Taken)'
  BY <1>1, <1>2 DEF Begins, WireByte, WireLen, Lead, c, u
<1>5. Leads(Current, Taken)'
  BY <1>1, <1>2 DEF Leads, c, u
<1>6. Body(Current, Taken)'
  BY <1>1, <1>2 DEF Body, c, u
<1>7. QED
  BY <1>2, <1>3, <1>4, <1>5, <1>6 DEF SpiAt, WireLen, Lead, c, u

(* An edge of the link keeps it.                                            *)
LEMMA LinkAtKept ==
  ASSUME OneWay, ByteGap >= HalfSclk + 33, Sized, Settled, LinkType', LinkAt, LinkNext
  PROVE  LinkAt'
<1>1. PICK m, t : m = Current /\ t = Taken
  OBVIOUS
<1>2. /\ HostAt /\ PortAt /\ IsMessage(Current) /\ Resting /\ Storing /\ Timely
      /\ IsMessage(m) /\ SpiAt(m, t) /\ Enough /\ RoomForFrame
  BY <1>1 DEF LinkAt
<1>3. /\ LinkType /\ PortType /\ HostType /\ SpiType /\ work.pending = FALSE
      /\ Serving /\ Drives /\ ByteGap \in Nat /\ HalfSclk \in Nat /\ port.since \in Nat
  BY <1>2, TimingAssumption DEF Settled, LinkType, PortType, Resting, Storing
<1>4. Shifted \in Nat /\ Shifted <= WireLen(Current)
  BY <1>2, <1>3, ShiftedFits
<1>5. ~Waiting => /\ HalfSclk + 2 <= port.since /\ port.since + Left <= HalfSclk + 33
                  /\ Left \in Nat /\ Left >= 1
  BY <1>2, <1>3, LeftPositive DEF Timely
<1>6. ~Waiting => port.since < ByteGap
  <2> DEFINE p == port.since
  <2> DEFINE l == Left
  <2>1. ~Waiting => p + l <= HalfSclk + 33 /\ l \in Nat /\ l >= 1
    BY <1>5
  <2> HIDE DEF p, l
  <2>2. p \in Nat
    BY <1>3 DEF p
  <2>3. ~Waiting => p < ByteGap
    BY <1>3, <2>1, <2>2
  <2>4. QED
    BY <2>3 DEF p
<1>7. port.SPI_DONE => port.since = HalfSclk + 1 /\ Waiting
  <2>1. port.SPI_DONE => port.since = HalfSclk + 1
    BY <1>2 DEF PortAt
  <2>2. port.since = HalfSclk + 1 => ~(HalfSclk + 2 <= port.since)
    BY <1>3
  <2>3. QED
    BY <1>5, <2>1, <2>2
<1>8. /\ ToRaise = Raise(m, spi.state, t) /\ ToRaise \in Nat /\ Begun \in Nat
      /\ spi.state \in {6, 7, 8, 9, 13, 14} => ToRaise >= 1
  <2>1. ToRaise = Raise(m, spi.state, t)
    BY <1>1 DEF ToRaise
  <2>2. QED
    BY <1>2, <1>3, <2>1, RaiseFacts, BegunIsNat
<1>9. host.msg = "none" => Due + ToRaise <= 1
  <2> SUFFICES ASSUME host.msg = "none"
               PROVE  Due + ToRaise <= 1
    OBVIOUS
  <2>1. Shifted = WireLen(m)
    BY <1>1 DEF Shifted
  <2>2. CASE Pending
    <3>1. t = WireLen(m) - 1
      BY <1>1, <2>1, <2>2 DEF Taken
    <3>2. port.since <= HalfSclk => ~(HalfSclk + 2 <= port.since)
      BY <1>3
    <3>3. Waiting
      BY <1>5, <1>7, <2>2, <3>2 DEF Pending
    <3>4. Due + Raise(m, spi.state, t) <= 1
      BY <1>2, <1>3, <3>1, <3>3, OneLeft
    <3>5. QED
      BY <1>8, <3>4
  <2>3. CASE ~Pending
    <3>1. t = WireLen(m)
      BY <1>1, <2>1, <2>3 DEF Taken
    <3>2. Due + Raise(m, spi.state, t) <= 1
      BY <1>2, <1>3, <3>1, OneLeft
    <3>3. QED
      BY <1>8, <3>2
  <2>4. QED
    BY <2>2, <2>3
<1>10. ASSUME NEW u, Paid(m, t, u), SpiAt(m, u)', Current' = m, Taken' = u, HostAt',
                  BegunMoves
       PROVE  Enough' /\ RoomForFrame'
  <2>1. ToRaise' = Raise(m, spi'.state, u)
    BY <1>10 DEF ToRaise, Raise, Owes
  <2>2. SpiType' /\ ToRaise' \in Nat /\ Raise(m, spi'.state, u) \in Nat
    <3>1. SpiType'
      BY DEF LinkType
    <3>2. QED
      BY <1>2, <1>10, <2>1, <3>1, RaiseNext
  <2>3. Begun' \in Nat
    <3>1. (HostAt => Begun \in Nat)'
      BY BegunIsNat, PTL
    <3>2. QED
      BY <1>10, <3>1
  <2>4. \/ ToRaise' + Begun' <= Raise(m, spi'.state, u) + Begun
        \/ /\ ToRaise' = Raise(m, spi'.state, u) /\ Due + ToRaise <= 1
           /\ fifo_i_count <= FULL_I_THRESHOLD
           /\ FULL_I_THRESHOLD + 1 + Begun' <= FIFO_I_SIZE
    <3>1. CASE Begun' = Begun
      <4> DEFINE b == ToRaise'
      <4> DEFINE c == Raise(m, spi'.state, u)
      <4> DEFINE g == Begun
      <4> DEFINE h == Begun'
      <4>1. b = c /\ g = h /\ b \in Nat /\ g \in Nat
        BY <1>8, <2>1, <2>2, <3>1
      <4> HIDE DEF b, c, g, h
      <4>2. b + h <= c + g
        BY <4>1
      <4>3. QED
        BY <4>2 DEF b, c, g, h
    <3>2. CASE /\ host.msg = "none" /\ ~cpu_irq_full
               /\ \E f \in Frames : Begun' = WordCount(Len(f))
      <4>1. fifo_i_count \in Nat /\ FULL_I_THRESHOLD \in Nat
        BY <1>10, ThresholdAssumption DEF Paid, Tallied
      <4>2. fifo_i_count <= FULL_I_THRESHOLD
        BY <3>2, <4>1 DEF cpu_irq_full
      <4>3. FULL_I_THRESHOLD + 1 + Begun' <= FIFO_I_SIZE
        BY <3>2 DEF Sized
      <4>4. QED
        BY <1>9, <2>1, <3>2, <4>2, <4>3
    <3>3. QED
      BY <1>10, <3>1, <3>2 DEF BegunMoves
  <2>5. QED
    BY <1>2, <1>8, <1>10, <2>1, <2>2, <2>3, <2>4, RoomKept
<1>11. CASE /\ HostAt' /\ Current' = Current /\ Shifted' = Shifted
           /\ Fpga(FALSE, 0) /\ BegunMoves
  <2>1. PortStep(FALSE, 0, spi.slave_write, spi.slave_data_to_spi)
    BY <1>11 DEF Fpga
  <2>2. /\ PortAt'
        /\ port.SPI_DONE => Taken' = Taken + 1 /\ port'.since = HalfSclk + 2
        /\ ~port.SPI_DONE => Taken' = Taken
        /\ HalfSclk + 2 <= port.since /\ port.since < ByteGap => port'.since = port.since + 1
    BY <1>2, <1>3, <1>4, <1>11, <2>1, PortGoesOn
  <2>3. IsMessage(Current') /\ Current' = m /\ HostAt'
    BY <1>1, <1>2, <1>11
  <2>4. CASE port.SPI_DONE
    <3>1. Taken = Shifted - 1 /\ port.Rx_holding_reg = WireByte(Current, Shifted)
      BY <1>2, <2>4 DEF Taken, Pending, PortAt
    <3>2. t + 1 = Shifted /\ t < WireLen(m)
      <4> DEFINE w == WireLen(m)
      <4> DEFINE s == Shifted
      <4>1. s \in Nat /\ s <= w /\ t = s - 1 /\ w \in Nat
        BY <1>1, <1>2, <1>4, <3>1, LeadFacts
      <4> HIDE DEF w, s
      <4>2. t + 1 = s /\ t < w
        BY <4>1
      <4>3. QED
        BY <4>2 DEF w, s
    <3>3. port.Rx_holding_reg = WireByte(m, t + 1)
      BY <1>1, <3>1, <3>2
    <3>4. PICK u : u = t + 1
      OBVIOUS
    <3>5. Resting' /\ Storing' /\ SpiAt(m, u)' /\ Left' <= 31 /\ Paid(m, t, u)
      BY <1>2, <1>7, <1>11, <2>4, <3>2, <3>3, <3>4, EdgeTakes
    <3>6. Taken' = u /\ port'.since = HalfSclk + 2
      BY <1>1, <2>2, <2>4, <3>4
    <3>7. SpiAt(Current, Taken)'
      BY <2>3, <3>5, <3>6, SpiHere
    <3>8. HalfSclk + 2 <= port'.since /\ port'.since + Left' <= HalfSclk + 33
      <4> DEFINE l == Left'
      <4>1. l <= 31 /\ l \in Nat
        <5>1. (Serving /\ Drives =>
                 (/\ spi.state \in Raised => spi.write_line # 0 /\ Left = Cost(spi.state) + Wait
                  /\ spi.state \notin Raised => spi.write_line = 0 /\ Left = Cost(spi.state)
                  /\ Left \in Nat /\ Wait \in Nat /\ 1 <= Wait /\ Wait <= 14))'
          BY LeftIs, PTL
        <5>2. QED
          BY <3>5, <5>1 DEF Storing
      <4> HIDE DEF l
      <4>2. HalfSclk + 2 <= HalfSclk + 2 /\ (HalfSclk + 2) + l <= HalfSclk + 33
        BY <1>3, <4>1
      <4>3. QED
        BY <3>6, <4>2 DEF l
    <3>9. Enough' /\ RoomForFrame'
      BY <1>11, <1>10, <2>3, <3>5, <3>6
    <3>10. QED
      BY <2>2, <2>3, <3>5, <3>7, <3>8, <3>9 DEF LinkAt, Timely, IsMessage
  <2>5. CASE ~port.SPI_DONE
    <3>1. /\ Resting' /\ Storing' /\ SpiAt(m, t)'
          /\ Waiting => spi' = spi
          /\ ~Waiting => Waiting' \/ Left' < Left
          /\ Paid(m, t, t)
      BY <1>2, <1>11, <2>5, EdgeGoesOn
    <3>2. SpiAt(Current, Taken)'
      BY <1>1, <2>2, <2>3, <2>5, <3>1, SpiHere
    <3>3. Waiting => Waiting'
      BY <3>1 DEF Waiting
    <3>4. ~Waiting /\ ~Waiting' =>
            HalfSclk + 2 <= port'.since /\ port'.since + Left' <= HalfSclk + 33
      <4> SUFFICES ASSUME ~Waiting, ~Waiting'
                   PROVE  HalfSclk + 2 <= port'.since /\ port'.since + Left' <= HalfSclk + 33
        OBVIOUS
      <4> DEFINE a == Left
      <4> DEFINE b == Left'
      <4> DEFINE p == port.since
      <4>1. b < a /\ HalfSclk + 2 <= p /\ p + a <= HalfSclk + 33 /\ a \in Nat
            /\ port'.since = p + 1 /\ p \in Nat
        BY <1>3, <1>5, <1>6, <2>2, <3>1
      <4>2. b \in Nat
        <5>1. (Serving /\ Drives =>
                 (/\ spi.state \in Raised => spi.write_line # 0 /\ Left = Cost(spi.state) + Wait
                  /\ spi.state \notin Raised => spi.write_line = 0 /\ Left = Cost(spi.state)
                  /\ Left \in Nat /\ Wait \in Nat /\ 1 <= Wait /\ Wait <= 14))'
          BY LeftIs, PTL
        <5>2. QED
          BY <3>1, <5>1 DEF Storing
      <4> HIDE DEF a, b, p
      <4>3. HalfSclk + 2 <= p + 1 /\ (p + 1) + b <= HalfSclk + 33
        BY <1>3, <4>1, <4>2
      <4>4. QED
        BY <4>1, <4>3 DEF b
    <3>5. Timely'
      BY <3>3, <3>4 DEF Timely
    <3>6. Enough' /\ RoomForFrame'
      BY <1>1, <1>11, <1>10, <2>2, <2>3, <2>5, <3>1
    <3>7. QED
      BY <2>2, <2>3, <3>1, <3>2, <3>5, <3>6 DEF LinkAt, IsMessage
  <2>6. QED
    BY <2>4, <2>5
<1>12. CASE /\ HostAt' /\ IsMessage(Current') /\ port.since = ByteGap
           /\ Fpga(TRUE, WireByte(Current', Shifted'))
           /\ \/ Current' = Current /\ Shifted' = Shifted + 1 /\ Begun' = Begun
              \/ /\ Shifted = WireLen(Current) /\ Shifted' = 1
                 /\ Begun = OwnWords(Current') /\ Begun' = 0
  <2>1. Waiting
    BY <1>3, <1>6, <1>12
  <2>2. PortStep(TRUE, WireByte(Current', Shifted'), spi.slave_write, spi.slave_data_to_spi)
    BY <1>12 DEF Fpga
  <2>3. PortAt' /\ ~port.SPI_DONE /\ Taken = Shifted /\ Taken' = Shifted' - 1
    BY <1>2, <1>3, <1>12, <2>2, PortShifts
  <2>4. Resting' /\ Storing' /\ SpiAt(m, t)' /\ spi' = spi /\ Paid(m, t, t)
    BY <1>2, <1>12, <2>1, <2>3, EdgeGoesOn
  <2>5. Waiting'
    BY <2>1, <2>4 DEF Waiting
  <2>6. CASE Current' = Current /\ Shifted' = Shifted + 1 /\ Begun' = Begun
    <3>1. Taken' = t
      <4> DEFINE s == Shifted
      <4>1. Taken' = (s + 1) - 1 /\ t = s /\ s \in Nat
        BY <1>1, <1>4, <2>3, <2>6
      <4> HIDE DEF s
      <4>2. QED
        BY <4>1
    <3>2. SpiAt(Current, Taken)'
      BY <1>1, <2>4, <2>6, <3>1, SpiHere
    <3>3. Enough' /\ RoomForFrame'
      BY <1>1, <1>12, <1>10, <2>4, <2>6, <3>1 DEF BegunMoves
    <3>4. QED
      BY <1>12, <2>3, <2>4, <2>5, <3>2, <3>3 DEF LinkAt, Timely, IsMessage
  <2>7. CASE /\ Shifted = WireLen(Current) /\ Shifted' = 1
             /\ Begun = OwnWords(Current') /\ Begun' = 0
    <3>1. SpiAt(m, WireLen(m))
      BY <1>1, <1>2, <2>3, <2>7
    <3>2. spi.state = 0
      BY <1>2, <1>3, <2>1, <3>1, AtEnd
    <3>3. Taken' = 0
      BY <2>3, <2>7
    <3>4. PICK n : n = Current'
      OBVIOUS
    <3>5. IsMessage(n)
      BY <1>12, <3>4
    <3>6. SpiAt(n, 0)'
      <4>1. SpiAt(n, 0)
        BY <3>2, <3>5, AtStart
      <4>2. QED
        BY <2>4, <4>1 DEF SpiAt, Begins, Leads, Body
    <3>7. SpiAt(Current, Taken)'
      BY <3>3, <3>4, <3>6, SpiHere
    <3>8. Enough' /\ RoomForFrame'
      <4>1. ToRaise' = Begun
        <5>1. Raise(n, 0, 0) = OwnWords(n)
          BY OwesIs DEF Raise, OwnWords
        <5>2. ToRaise' = Raise(n, 0, 0)
          BY <2>4, <3>2, <3>3, <3>4 DEF ToRaise, Raise, Owes
        <5>3. QED
          BY <2>7, <3>4, <5>1, <5>2
      <4>2. SpiType'
        BY DEF LinkType
      <4>3. Raise(m, spi'.state, t) \in Nat
        BY <1>2, <2>4, <4>2, RaiseNext
      <4>4. ToRaise' + Begun' <= Raise(m, spi'.state, t) + Begun
        <5> DEFINE b == ToRaise'
        <5> DEFINE c == Raise(m, spi'.state, t)
        <5> DEFINE g == Begun
        <5> DEFINE h == Begun'
        <5>1. b = g /\ h = 0 /\ c \in Nat /\ g \in Nat
          BY <1>8, <2>7, <4>1, <4>3
        <5> HIDE DEF b, c, g, h
        <5>2. b + h <= c + g
          BY <5>1
        <5>3. QED
          BY <5>2 DEF b, c, g, h
      <4>5. ToRaise' \in Nat /\ Begun' \in Nat
        BY <1>8, <2>7, <4>1
      <4>6. QED
        BY <1>2, <1>8, <2>4, <4>3, <4>4, <4>5, RoomKept
    <3>9. QED
      BY <1>12, <2>3, <2>4, <2>5, <3>7, <3>8 DEF LinkAt, Timely, IsMessage
  <2>8. QED
    BY <1>12, <2>6, <2>7
<1>13. QED
  BY <1>2, <1>3, <1>11, <1>12, HostMoves

(* It holds at power-up,                                                    *)
LEMMA LinkAtInit ==
  ASSUME ByteGap >= HalfSclk + 33, LinkInit
  PROVE  LinkAt
<1>1. /\ host.msg = "none" /\ host.in = <<>> /\ host.out = <<>> /\ host.owed = <<>>
      /\ host.sent = <<>>
  BY DEF LinkInit, HostInit
<1>2. HostAt
  BY <1>1 DEF HostAt
<1>3. Current = NoMessage
  BY <1>1 DEF Current, Cur
<1>4. IsMessage(Current) /\ WireLen(Current) = 3
  <2>1. 0 \in Byte /\ 1 \in Byte
    BY ByteAssumption
  <2>2. <<0>> \in Seq(Byte) /\ <<0>> # <<>> /\ Len(<<0>>) = 1
    BY <2>1
  <2>3. Current.msg = "cmd" /\ Current.body = <<0>>
    BY <1>3 DEF NoMessage
  <2>4. QED
    BY <2>1, <2>2, <2>3 DEF IsMessage, WireLen, Lead
<1>5. /\ port.since = ByteGap /\ port.SPI_DONE = FALSE
      /\ ByteGap \in Nat /\ HalfSclk \in Nat
  BY TimingAssumption DEF LinkInit, PortInit
<1>6. ~(port.since <= HalfSclk) /\ port.since # HalfSclk + 1 /\ port.since <= ByteGap
  BY <1>5
<1>7. PortAt
  <2>1. ~port.SPI_DONE
    BY <1>5
  <2>2. QED
    BY <1>6, <2>1 DEF PortAt
<1>8. Taken = 3
  <2>1. ~Pending
    BY <1>5, <1>6 DEF Pending
  <2>2. Shifted = 3
    BY <1>1, <1>4 DEF Shifted
  <2>3. QED
    BY <2>1, <2>2 DEF Taken
<1>9. /\ spi.state = 0 /\ spi.write_line = 0
      /\ spi.config_done = FALSE /\ spi.cmd_done = FALSE
  BY DEF LinkInit, SlaveInit, NoWrite
<1>10. SpiAt(Current, Taken)
  <2>1. Begins(Current, Taken)
    BY <1>4, <1>8, <1>9 DEF Begins, FrameStates, ConfigStates, CmdStates
  <2>2. Leads(Current, Taken) /\ Body(Current, Taken)
    BY <1>9 DEF Leads, Body
  <2>3. Taken \in Nat /\ Taken <= WireLen(Current)
    BY <1>4, <1>8
  <2>4. QED
    BY <1>9, <2>1, <2>2, <2>3 DEF SpiAt
<1>11. Resting
  <2>1. IrqAtRest
    BY DEF LinkInit, SlaveInit, IrqAtRest
  <2>2. RadioAtRest
    BY DEF LinkInit, RadioInit, RadioAtRest
  <2>3. work.int = TRUE /\ work.pending = FALSE
    BY DEF LinkInit, HostInit
  <2>4. QED
    BY <2>1, <2>2, <2>3 DEF Resting
<1>12. Storing
  <2>1. Drives
    BY <1>9 DEF Drives, NoWrite
  <2>2. Pulsing
    <3>1. ~spi.config_done /\ ~spi.cmd_done
      BY <1>9
    <3>2. QED
      BY <1>9, <3>1 DEF Pulsing
  <2>3. /\ Current_State = 0 /\ nUsing = FALSE /\ opcode = 0
        /\ slave_hint = FALSE /\ master_hint = FALSE
        /\ fifo_i_count = 0 /\ fifo_i_empty = TRUE /\ radio.read = FALSE
    BY DEF LinkInit, Init, RadioInit
  <2>4. ~nUsing /\ ~slave_hint /\ ~master_hint /\ fifo_i_empty /\ ~radio.read
    BY <2>3
  <2>5. Serving
    <3>1. ~Ours /\ ~Theirs
      BY <2>3, <2>4 DEF Ours, Theirs
    <3>2. QED
      BY <2>3, <2>4, <3>1 DEF Serving
  <2>6. Fetching
    BY <2>4 DEF Fetching
  <2>7. Room
    <3>1. 0 < FIFO_I_SIZE
      BY SizeFact
    <3>2. QED
      BY <2>3, <3>1 DEF Room
  <2>8. Mine
    BY <2>3 DEF Mine
  <2>9. QED
    BY <2>1, <2>2, <2>5, <2>6, <2>7, <2>8 DEF Storing
<1>13. Timely
  BY <1>9 DEF Timely, Waiting
<1>14. Enough
  <2>1. Due = 0
    BY <1>9 DEF Due
  <2>2. ToRaise = 0
    BY <1>3 DEF ToRaise, Raise, NoMessage
  <2>3. Begun = 0
    BY <1>1 DEF Begun
  <2>4. fifo_i_count = 0 /\ 0 < FIFO_I_SIZE /\ FIFO_I_SIZE \in Nat
    BY SizeFact DEF LinkInit, Init
  <2>5. QED
    BY <2>1, <2>2, <2>3, <2>4 DEF Enough
<1>15. RoomForFrame
  BY <1>9 DEF RoomForFrame
<1>16. QED
  BY <1>2, <1>4, <1>7, <1>10, <1>11, <1>12, <1>13, <1>14, <1>15 DEF LinkAt

(* when nothing happens,                                                    *)
LEMMA LinkAtRests ==
  ASSUME LinkAt, UNCHANGED linkVars
  PROVE  LinkAt'
<1>1. /\ spi' = spi /\ irq' = irq /\ port' = port /\ host' = host /\ radio' = radio
      /\ work' = work
      /\ Current_State' = Current_State /\ nUsing' = nUsing /\ opcode' = opcode
      /\ slave_hint' = slave_hint /\ master_hint' = master_hint
      /\ fifo_i_count' = fifo_i_count /\ fifo_i_empty' = fifo_i_empty
      /\ fifo_i_full' = fifo_i_full
  BY DEF linkVars, vars, ctlVars, busVars, answerVars, fifoIVars, fifoOVars, storeVars,
     flagVars
<1>2. HostAt' /\ Current' = Current
  BY <1>1 DEF LinkAt, HostAt, Sending, WireLen, WireByte, Lead, Current, Cur
<1>3. Shifted' = Shifted
  BY <1>1, <1>2 DEF Shifted, WireLen, Lead
<1>4. Taken' = Taken
  BY <1>1, <1>3 DEF Taken, Pending
<1>5. PortAt'
  BY <1>1, <1>2, <1>3 DEF LinkAt, PortAt, WireByte, Lead
<1>6. IsMessage(Current')
  BY <1>2 DEF LinkAt
<1>7. SpiAt(Current, Taken)'
  <2>1. PICK m, t : m = Current /\ t = Taken
    OBVIOUS
  <2>2. SpiAt(m, t)
    BY <2>1 DEF LinkAt
  <2>3. SpiAt(m, t)'
    BY <1>1, <2>2 DEF SpiAt, Begins, Leads, Body
  <2>4. QED
    BY <1>2, <1>4, <2>1, <2>3, SpiHere
<1>8. Resting'
  BY <1>1 DEF LinkAt, Resting, IrqAtRest, RadioAtRest
<1>9. Storing'
  <2>1. Drives'
    BY <1>1 DEF LinkAt, Storing, Drives
  <2>2. Pulsing'
    BY <1>1 DEF LinkAt, Storing, Pulsing
  <2>3. Serving'
    BY <1>1 DEF LinkAt, Storing, Serving, Ours, Theirs
  <2>4. Fetching'
    BY <1>1 DEF LinkAt, Storing, Fetching
  <2>5. Room'
    BY <1>1 DEF LinkAt, Storing, Room, Ours
  <2>6. Mine'
    BY <1>1 DEF LinkAt, Storing, Mine
  <2>7. QED
    BY <2>1, <2>2, <2>3, <2>4, <2>5, <2>6 DEF Storing
<1>10. Timely'
  <2>1. Left' = Left /\ (Waiting' <=> Waiting)
    BY <1>1 DEF Left, Waiting, Wait, OurWait, TheirWait, Ours, Cost
  <2>2. QED
    BY <1>1, <2>1 DEF LinkAt, Timely
<1>11. Enough' /\ RoomForFrame'
  <2>1. Due' = Due /\ fifo_i_count' = fifo_i_count
    BY <1>1 DEF Due
  <2>2. ToRaise' = ToRaise
    BY <1>1, <1>2, <1>4 DEF ToRaise
  <2>3. Begun' = Begun
    BY <1>1 DEF Begun, Sending
  <2>4. Enough /\ RoomForFrame
    BY DEF LinkAt
  <2>5. Enough'
    BY <2>1, <2>2, <2>3, <2>4 DEF Enough
  <2>6. RoomForFrame'
    BY <1>1, <2>4 DEF RoomForFrame
  <2>7. QED
    BY <2>5, <2>6
<1>12. QED
  BY <1>2, <1>5, <1>6, <1>7, <1>8, <1>9, <1>10, <1>11 DEF LinkAt, IsMessage

(* and means that a byte is announced only while the Spi machine waits for  *)
(* one.                                                                     *)
LEMMA AnnouncedWhileWaiting == PortType /\ LinkAt => NoByteLost
<1> SUFFICES ASSUME PortType, LinkAt, port.SPI_DONE
             PROVE  spi.state \in DOMAIN AfterByte
  BY DEF NoByteLost
<1>1. port.since = HalfSclk + 1
  BY DEF LinkAt, PortAt
<1>2. port.since \in Nat /\ HalfSclk \in Nat
  BY TimingAssumption DEF PortType
<1>3. ~(HalfSclk + 2 <= port.since)
  BY <1>1, <1>2
<1>4. Waiting
  BY <1>3 DEF LinkAt, Timely
<1>5. QED
  BY <1>4, AfterByteIs DEF Waiting

(* The words a frame becomes are those the machine raises for it.           *)
LEMMA FrameWordsLen ==
  ASSUME NEW f \in Frames
  PROVE  Len(FrameWords(f)) = WordCount(Len(f))
<1> DEFINE b == <<Len(f)>> \o f
<1> DEFINE n == (Len(b) + 1) \div 2
<1>1. f \in Seq(Byte) /\ Len(f) \in Byte /\ Len(f) \in Nat
  BY MessageAssumption
<1>2. b \in Seq(Byte) /\ Len(b) = 1 + Len(f)
  BY <1>1
<1>3. n \in Nat /\ n = Half(Len(f)) + 1
  <2> DEFINE l == Len(f)
  <2>1. n = (1 + l + 1) \div 2 /\ l \in Nat
    BY <1>1, <1>2
  <2> HIDE DEF l, n
  <2>2. 1 + l + 1 = l + 2
    BY <2>1
  <2>3. n = (l + 2) \div 2
    BY <2>1, <2>2
  <2>4. (l + 2) \div 2 = Half(l) + 1 /\ Half(l) \in Nat
    BY <2>1, HalfFacts DEF Half
  <2>5. QED
    BY <2>3, <2>4 DEF l
<1> HIDE DEF n
<1>4. Pairs(b) = [k \in 1 .. n |-> <<b[2 * k - 1], IF 2 * k <= Len(b) THEN b[2 * k] ELSE 0>>]
  BY DEF Pairs, n
<1> HIDE DEF b
<1> DEFINE p == Pairs(b)
<1> DEFINE head == <<Sync, <<(Len(f) + 1) \div 256, (Len(f) + 1) % 256>>>>
<1> DEFINE S == {p[k] : k \in 1 .. n} \cup {head[1], head[2]}
<1>5. p \in [1 .. n -> S]
  BY <1>4
<1>6. FrameWords(f) = head \o p
  BY DEF FrameWords, b
<1>7. head \in Seq(S) /\ Len(head) = 2
  <2>1. head[1] \in S /\ head[2] \in S
    OBVIOUS
  <2> HIDE DEF S
  <2>2. QED
    BY <2>1
<1> HIDE DEF head, S, p
<1>8. p \in Seq(S) /\ Len(p) = n
  BY <1>3, <1>5
<1>9. Len(head \o p) = 2 + n
  <2>1. Len(head \o p) = Len(head) + Len(p)
    BY <1>7, <1>8, ConcatProperties
  <2>2. QED
    BY <1>7, <1>8, <2>1
<1>10. 2 + n = 3 + Half(Len(f))
  <2>1. Half(Len(f)) \in Nat
    BY <1>1, HalfFacts
  <2>2. QED
    BY <1>3, <2>1
<1>11. QED
  BY <1>6, <1>9, <1>10 DEF WordCount

(* With the parameters below, it holds always: nothing is received;         *)
(* configurations are sent only when the radio fetches no frame; a byte of  *)
(* the SPI takes 33 edges more than its last half clock; and, as            *)
(* total_link.v:56 means it, the frame begun just before the line of the    *)
(* threshold rises still fits, with the word on its way.                    *)
LEMMA LinkInvariant ==
  ASSUME MaxPackets = 0, Configs = {} \/ TRUE \notin Fetches, ByteGap >= HalfSclk + 33,
         \A f \in Frames : FULL_I_THRESHOLD + Len(FrameWords(f)) < FIFO_I_SIZE
  PROVE  LinkSpec => [](LinkType /\ LinkAt)
<1>1. LinkInit => LinkAt
  BY LinkAtInit
<1>2. Sized
  <2> SUFFICES ASSUME NEW f \in Frames
               PROVE  FULL_I_THRESHOLD + 1 + WordCount(Len(f)) <= FIFO_I_SIZE
    BY DEF Sized
  <2> DEFINE w == WordCount(Len(f))
  <2>1. FULL_I_THRESHOLD + w < FIFO_I_SIZE
    BY FrameWordsLen
  <2>2. w \in Nat
    <3>1. Len(f) \in Nat
      BY MessageAssumption
    <3>2. Half(Len(f)) \in Nat
      BY <3>1, HalfFacts
    <3>3. QED
      BY <3>2 DEF WordCount
  <2>3. FULL_I_THRESHOLD \in Nat /\ FIFO_I_SIZE \in Nat
    BY ThresholdAssumption, SizeFact
  <2> HIDE DEF w
  <2>4. FULL_I_THRESHOLD + 1 + w <= FIFO_I_SIZE
    BY <2>1, <2>2, <2>3
  <2>5. QED
    BY <2>4 DEF w
<1>3. /\ TypeOK /\ LinkType /\ CountsInBounds /\ FlagsTrueWhenArbitrating
      /\ LinkType' /\ LinkAt /\ [LinkNext]_linkVars
      => LinkAt'
  BY <1>2, LinkAtKept, LinkAtRests DEF OneWay, Settled
<1>4. LinkInit => LinkType /\ TypeOK
  BY LinkInitType
<1>5. LinkType /\ TypeOK /\ [LinkNext]_linkVars => LinkType' /\ TypeOK' /\ [Next]_vars
  BY LinkStepType
<1>6. LinkSpec => [](CountsInBounds /\ FlagsTrueWhenArbitrating /\ FifoIConsistent)
  BY LinkFifosKept
<1>7. QED
  BY <1>1, <1>3, <1>4, <1>5, <1>6, PTL DEF LinkSpec

(* Hence, for any layout of the chip, any frames, commands and              *)
(* configurations and any moment at which the radio fetches, no byte the CPU*)
(* shifts in is lost: Slave_Ctrl has stored every word before the next byte *)
(* is announced (Slave_Ctrl.v:543-652).                                     *)
THEOREM BytesNeverLost ==
  ASSUME MaxPackets = 0, Configs = {} \/ TRUE \notin Fetches, ByteGap >= HalfSclk + 33,
         \A f \in Frames : FULL_I_THRESHOLD + Len(FrameWords(f)) < FIFO_I_SIZE
  PROVE  LinkSpec => []NoByteLost
<1>1. LinkType /\ LinkAt => NoByteLost
  BY AnnouncedWhileWaiting DEF LinkType, LinkAt
<1>2. QED
  BY <1>1, LinkInvariant, PTL

(* And no word of a frame waits for room in FIFO_I (Slave_Ctrl.v:559-652).  *)
THEOREM FramesNeverWait ==
  ASSUME MaxPackets = 0, Configs = {} \/ TRUE \notin Fetches, ByteGap >= HalfSclk + 33,
         \A f \in Frames : FULL_I_THRESHOLD + Len(FrameWords(f)) < FIFO_I_SIZE
  PROVE  LinkSpec => []RoomForFrame
<1>1. LinkAt => RoomForFrame
  BY DEF LinkAt
<1>2. QED
  BY <1>1, LinkInvariant, PTL
=============================================================================
