------------------------------ MODULE SpiSlave ------------------------------
(***************************************************************************)
(* fpga-si4463/Total_link/spi_slave.vhd: the CPU's SPI port, byte by byte.  *)
(* The CPU shifts a byte in and takes TxData out at once.  At the last      *)
(* rising edge of SCLK the next TxData is taken from the holding register,  *)
(* at the falling edge after it SPI_DONE announces the received byte.       *)
(***************************************************************************)
EXTENDS Integers

CONSTANTS
  ByteGap,     \* cycles of clk from one byte's last rising edge to the next's
  HalfSclk     \* cycles from that rising edge to the falling edge after it

ASSUME TimingAssumption ==
  ByteGap \in Nat /\ HalfSclk \in Nat \ {0} /\ HalfSclk < ByteGap

VARIABLE port

PortInit ==
  port = [TxData |-> 0, Tx_hold_reg |-> 0, Data_holding |-> FALSE,
          RxdData |-> 0, Rx_holding_reg |-> 0, SPI_DONE |-> FALSE,
          since |-> ByteGap]

(* The CPU may end a byte: it holds SCLK at most at its own speed.          *)
MayEndByte == port.since = ByteGap

(* One posedge: ends says that the last rising edge of the byte mosi is     *)
(* seen, load and data are what Slave_Ctrl drives.                          *)
PortStep(ends, mosi, load, data) ==
  port' =
    [TxData       |-> IF ~ends THEN port.TxData
                      ELSE IF port.Data_holding THEN port.Tx_hold_reg ELSE 0,
     Tx_hold_reg  |-> IF load THEN data ELSE port.Tx_hold_reg,
     Data_holding |-> IF ends /\ port.Data_holding THEN FALSE
                      ELSE load \/ port.Data_holding,
     RxdData      |-> IF ends THEN mosi ELSE port.RxdData,
     Rx_holding_reg |-> IF port.since = HalfSclk THEN port.RxdData
                        ELSE port.Rx_holding_reg,
     SPI_DONE     |-> port.since = HalfSclk,
     since        |-> IF ends THEN 0
                      ELSE IF port.since < ByteGap THEN port.since + 1
                      ELSE ByteGap]
=============================================================================
