----------------------------- MODULE SpiEngine -----------------------------
(***************************************************************************)
(* fpga-si4463/Wireless_Ctrl.v, first part: the SPI engine that the Main    *)
(* and the Irq machine share, with the radio behind it and the FIFOs of    *)
(* SRAM_ctrl, both external.  A step is one posedge; every machine reads   *)
(* the registers of before it.  `at' is the number of a state of the       *)
(* source.  An operation, states 1 to 51 of the engine, takes effect when   *)
(* it ends; it outlasts the few edges the machines need to come to rest.    *)
(* A register nobody reads before it is set again gets its first value.     *)
(***************************************************************************)
EXTENDS Integers, Sequences

CONSTANTS RX_THRESHOLD, TX_THRESHOLD, MAX_FIFO_SIZE,
          PacketLengths,  \* values of the length byte of packets on the air
          FrameLengths,   \* lengths of the frames Slave_Ctrl stores
          QueueWords,     \* bound: words in FIFO_I
          EmptyCommands,  \* whether commands are empty: a subset of BOOLEAN
          LongFrames      \* whether a frame may take more than the 30 ms of
                          \* the watchdog and of the time-out (50 kbit/s)

ASSUME WirelessAssumption ==
  /\ {RX_THRESHOLD, TX_THRESHOLD, MAX_FIFO_SIZE} \subseteq Nat
  /\ 2 < RX_THRESHOLD /\ RX_THRESHOLD < MAX_FIFO_SIZE
  /\ RX_THRESHOLD % 2 = 0 /\ TX_THRESHOLD % 2 = 0 /\ MAX_FIFO_SIZE % 2 = 0
  /\ PacketLengths \subseteq 1 .. 254 /\ FrameLengths \subseteq 1 .. 255
  /\ EmptyCommands \subseteq BOOLEAN /\ LongFrames \in BOOLEAN

VARIABLES main,    \* registers of the Main machine, with tx_state and reset_n
          irq,     \* registers of the Irq machine and of the watchdog
          engine,  \* registers of the SPI engine
          radio,   \* the Si4463
          ram      \* FIFO_I, and what was stored in FIFO_O since the mark

vars == <<main, irq, engine, radio, ram>>

Words(bytes) == (bytes + 1) \div 2
SyncWord == -1
DataWord == 0
FrameWords(len) == <<SyncWord, len>> \o [k \in 1 .. Words(len) |-> DataWord]
Op(name, len) == [name |-> name, len |-> len]
NoOp == Op("none", 0)
-----------------------------------------------------------------------------
(* The radio.  A packet is its length byte and `len' more bytes.            *)
RadioOff == [mode |-> "off", receiving |-> FALSE, air |-> 0, len |-> 0,
             rxfifo |-> 0, txfifo |-> 0, txlen |-> 0, sent |-> 0,
             pending |-> {}]

SyncDetected ==
  /\ radio.mode = "rx" /\ ~radio.receiving
  /\ \E l \in PacketLengths :
       radio' = [radio EXCEPT !.receiving = TRUE, !.len = l, !.air = l + 1,
                              !.pending = @ \cup {"sync"}]

(* A byte on the air takes as long as an operation of the engine: at most   *)
(* one goes by between two operations, any number while there is none; so   *)
(* the FIFO is read before it runs over.                                    *)
EngineIdle == engine.at = 53 /\ ~main.start /\ ~irq.start
ByteTime == engine.at = 54 \/ EngineIdle

ByteReceived ==
  /\ ByteTime /\ radio.receiving /\ radio.air > 0 /\ radio.rxfifo < MAX_FIFO_SIZE
  /\ radio' = [radio EXCEPT !.air = @ - 1, !.rxfifo = @ + 1,
                 !.pending = IF radio.rxfifo + 1 = RX_THRESHOLD
                             THEN @ \cup {"almost_full"} ELSE @]

PacketEnds ==
  /\ radio.receiving /\ radio.air = 0
  /\ \E end \in {"rx", "crc"} :
       radio' = [radio EXCEPT !.receiving = FALSE, !.mode = "ready",
                              !.pending = @ \cup {end}]

(* A sync word that begins no packet: no further interrupt follows.         *)
FalseSync ==
  /\ radio.receiving /\ radio.air = radio.len + 1
  /\ radio' = [radio EXCEPT !.receiving = FALSE, !.air = 0]

ByteSent ==
  /\ ByteTime /\ radio.mode = "tx" /\ radio.txfifo > 0 /\ radio.sent < radio.txlen
  /\ radio' = [radio EXCEPT !.sent = @ + 1, !.txfifo = @ - 1,
                 !.pending = IF radio.txfifo - 1 = MAX_FIFO_SIZE - TX_THRESHOLD
                             THEN @ \cup {"almost_empty"} ELSE @]

FrameSent ==
  /\ radio.mode = "tx" /\ radio.sent = radio.txlen
  /\ radio' = [radio EXCEPT !.mode = "ready", !.txlen = 0,
                             !.pending = @ \cup {"tx"}]

Tuned == radio.mode = "tune" /\ radio' = [radio EXCEPT !.mode = "rx"]

RadioEvent ==
  /\ main.at # 0 /\ (engine.at \in {52, 54} \/ EngineIdle)
  /\ \/ SyncDetected \/ ByteReceived \/ PacketEnds \/ FalseSync
     \/ ByteSent \/ FrameSent \/ Tuned

(* What an operation does to the radio: the bytes it takes from the RX      *)
(* FIFO (a command 8 of length 0 takes one), and the rest.                  *)
Taken(op) ==
  CASE op.name = "head" /\ op.len # 0 -> op.len + 1
    [] op.name = "head" /\ op.len = 0 -> radio.len + 1
    [] op.name = "rest" -> IF op.len = 0 THEN 1 ELSE op.len
    [] OTHER -> 0

RadioAfter(op) ==
  CASE op.name = "int_status" -> [radio EXCEPT !.pending = {}]
    [] op.name = "fifo_reset" -> [radio EXCEPT !.rxfifo = 0, !.txfifo = 0]
    [] op.name = "start_rx" ->
         [radio EXCEPT !.mode = "tune", !.receiving = FALSE, !.air = 0,
                       !.rxfifo = 0, !.len = 0,
                       !.sent = IF engine.owner = "main" THEN 0 ELSE @]
    [] op.name = "length" -> [radio EXCEPT !.txlen = op.len]
    [] op.name = "start_tx" ->
         [radio EXCEPT !.mode = "tx", !.receiving = FALSE, !.air = 0,
                       !.sent = 0]
    [] op.name = "fill" -> [radio EXCEPT !.txfifo = @ + op.len - 1]
    [] op.name \in {"head", "rest"} -> [radio EXCEPT !.rxfifo = @ - Taken(op)]
    [] op.name = "config" -> [radio EXCEPT !.mode = "ready"]
    [] OTHER -> radio

(* Main state 0 keeps the radio shut down.                                  *)
RadioBecomes(r) == radio' = IF main.at = 0 THEN RadioOff ELSE r
-----------------------------------------------------------------------------
FilledWordsShort(op) == (op.len - 1) \div 2  \* wrong: not the half of a word
FilledWords(op)      == Words(op.len - 1)

(* What an operation does to the SRAM: the data words of a filling leave    *)
(* FIFO_I; the sync word, the length and the bytes of a packet enter FIFO_O.*)
RamAfter(op) ==
  CASE op.name = "word" -> [ram EXCEPT !.fifo_i = Tail(@)]
    [] op.name = "fill" ->
         [ram EXCEPT !.fifo_i = SubSeq(@, FilledWords(op) + 1, Len(@))]
    [] op.name = "sync" -> [ram EXCEPT !.words = @ + 1]
    [] op.name = "head" -> [ram EXCEPT !.words = @ + 1 + Words(Taken(op) - 1)]
    [] op.name = "rest" -> [ram EXCEPT !.words = @ + Words(Taken(op))]
    [] OTHER -> ram

(* States 28 and 36 wait for words; states 16 to 21 for the CTS byte of the *)
(* radio, which does not come while it is shut down.                        *)
CtsOps == {"config", "command", "length", "start_tx", "start_rx",
           "int_status", "fifo_reset", "state"}
CanFinish(op) ==
  CASE op.name = "word" -> ram.fifo_i # <<>>
    [] op.name = "fill" -> Len(ram.fifo_i) >= FilledWords(op)
    [] op.name \in CtsOps -> main.at # 0
    [] OTHER -> TRUE

(* SRAM_ctrl moves its mark, or goes back to it, as long as the flags are   *)
(* up; `marked' says that there are words not announced after the mark.     *)
RamBecomes(r) ==
  LET start == irq.Pkt_Start_flag
      kept == ram.marked /\ ~irq.Crc_Error_Rollback /\ ~irq.Pkt_Received_flag
  IN ram' = [r EXCEPT !.marked = start \/ kept,
                      !.words = IF kept /\ ~start THEN @ ELSE 0]

(* Slave_Ctrl may store at any edge; only state 60 can tell.                *)
SlaveStores ==
  /\ main.at = 60
  /\ \E l \in FrameLengths :
       /\ Len(ram.fifo_i) + Words(l) + 2 <= QueueWords
       /\ RamBecomes([ram EXCEPT !.fifo_i = @ \o FrameWords(l)])
-----------------------------------------------------------------------------
(* The SPI engine.                                                          *)
EngineInit ==
  [at |-> 0, spi_Using |-> FALSE, spi_op_done |-> FALSE, owner |-> "none",
   op |-> NoOp, recv_pkt_len |-> 0, pending |-> {}, mode |-> "off",
   word |-> DataWord]

(* The flags of the owner are not reset.                                    *)
EngineReset == [EngineInit EXCEPT !.owner = engine.owner]

WithAnswer(op) ==
  [engine EXCEPT !.at = 0, !.spi_Using = FALSE, !.spi_op_done = TRUE,
     !.pending = IF op.name = "int_status" THEN radio.pending ELSE {},
     !.mode = IF op.name = "state" THEN radio.mode ELSE "off",
     !.word = IF op.name = "word" THEN Head(ram.fifo_i) ELSE DataWord,
     !.recv_pkt_len = IF op.name = "head" /\ op.len # 0 THEN radio.len ELSE @]

Outside ==
  \/ RadioEvent /\ RamBecomes(ram)
  \/ SlaveStores /\ RadioBecomes(radio)
  \/ RadioBecomes(radio) /\ RamBecomes(ram)

(* States 0, 54: the flags that tell whose operation it was are cleared.    *)
ClearKeepsOwner ==               \* wrong: whose operation it was stays
  /\ engine.at \in {0, 54}
  /\ engine' = [engine EXCEPT !.at = IF @ = 0 THEN 54 ELSE 53,
                  !.op = NoOp, !.pending = {}, !.mode = "off", !.word = DataWord,
                  !.recv_pkt_len = IF irq.packets_incoming = 0 THEN 0 ELSE @]
  /\ Outside

Clear ==
  /\ engine.at \in {0, 54}
  /\ engine' = [engine EXCEPT !.at = IF @ = 0 THEN 54 ELSE 53, !.owner = "none",
                  !.op = NoOp, !.pending = {}, !.mode = "off", !.word = DataWord,
                  !.recv_pkt_len = IF irq.packets_incoming = 0 THEN 0 ELSE @]
  /\ Outside

Accept(owner, op) ==
  engine' = [engine EXCEPT !.at = 52, !.spi_Using = TRUE, !.spi_op_done = FALSE,
                           !.owner = owner, !.op = op]

(* State 53: Main before Irq.                                               *)
Choose ==
  /\ engine.at = 53
  /\ \/ main.start /\ Accept("main", main.op)
     \/ ~main.start /\ irq.start /\ Accept("int", irq.op)
     \/ ~main.start /\ ~irq.start /\ engine' = engine
  /\ Outside

Run ==
  /\ engine.at = 52
  /\ engine' = engine
  /\ Outside

(* The last state of an operation: spi_op_done, and state 0.                *)
Finish ==
  /\ engine.at = 52 /\ CanFinish(engine.op)
  /\ engine' = WithAnswer(engine.op)
  /\ RadioBecomes(RadioAfter(engine.op))
  /\ RamBecomes(RamAfter(engine.op))

HeldInReset == engine' = EngineReset /\ Outside

EngineStep ==
  \/ ~main.reset_n /\ HeldInReset
  \/ main.reset_n /\ (Clear \/ Choose \/ Run)
DoneFor(owner) == engine.spi_op_done /\ engine.owner = owner
=============================================================================
