--------------------------- MODULE WirelessMain ---------------------------
(***************************************************************************)
(* fpga-si4463/Wireless_Ctrl.v, third part: the Main machine, which loads   *)
(* the configuration into the radio, then sends frames of FIFO_I, chunk by *)
(* chunk when they are longer than the FIFO of the radio, after listening   *)
(* to the channel, and the single commands of the CPU.                      *)
(***************************************************************************)
EXTENDS SpiEngine

(* `aborted' only records that a frame was given up and that some of it is  *)
(* left in FIFO_I, to be skipped word by word.                              *)
MainInit ==
  [at |-> 255, start |-> FALSE, op |-> NoOp, tx_state |-> "none",
   enable_irq |-> FALSE, reset_n |-> TRUE, len |-> 0, pos |-> 0,
   remain |-> 0, remain_flag |-> FALSE, aborted |-> FALSE]

Leftover == ram.fifo_i # <<>> /\ Head(ram.fifo_i) # SyncWord
DoneForMain == DoneFor("main")
Begin(op, next) ==
  main' = [main EXCEPT !.start = TRUE, !.op = op, !.at = next]
Goes(next) == main' = [main EXCEPT !.at = next]
Ended(next) == DoneForMain /\ main' = [main EXCEPT !.start = FALSE, !.op = NoOp, !.at = next]
Quiet == ~engine.spi_Using /\ ~irq.irq_dealing /\ irq.packets_incoming = 0

(* State 0 with its delay, and 249.                                         *)
StartUp ==
  \/ /\ main.at = 0
     /\ \E next \in {0, 249} :
          main' = [main EXCEPT !.enable_irq = FALSE, !.tx_state = "none",
                               !.start = FALSE, !.at = next]
  \/ main.at = 249 /\ main' = [main EXCEPT !.reset_n = TRUE, !.at = 2]

(* States 250 to 39: the commands of the configuration, then the fixed ones.*)
Configure ==
  \/ main.at = 2 /\ main' = main
  \/ main.at = 2 /\ Begin(Op("config", 0), 6)
  \/ main.at = 6 /\ (Ended(2) \/ Ended(40))

(* States 40 to 56: the FIFOs are reset, the state of the radio is looked   *)
(* at, and all starts over unless it is READY.                              *)
CheckAndListen ==
  \/ main.at = 40 /\ Begin(Op("fifo_reset", 2), 42)
  \/ main.at = 42 /\ Ended(50)
  \/ main.at = 50 /\ Begin(Op("state", 1), 52)
  \/ main.at = 52 /\ engine.mode = "ready" /\ Ended(54)
  \/ main.at = 52 /\ engine.mode # "ready" /\ Ended(53)
  \/ main.at = 53 /\ main' = [main EXCEPT !.reset_n = FALSE, !.at = 0]
  \/ main.at = 54 /\ ~engine.spi_Using /\ Begin(Op("start_rx", 8), 56)
  \/ /\ main.at = 56 /\ DoneForMain
     /\ main' = [main EXCEPT !.op = NoOp, !.start = FALSE, !.enable_irq = TRUE,
                             !.tx_state = "RX", !.at = 60]

(* States 60 to 77: a command, read in states 61 to 68.  An empty one       *)
(* starts the machine over.                                                 *)
AfterLength == {IF empty THEN 0 ELSE 69 : empty \in EmptyCommands}

SendCommand ==
  \/ main.at = 60 /\ \E next \in AfterLength : Goes(next)
  \/ main.at = 69 /\ Begin(Op("command", 0), 77)
  \/ main.at = 77 /\ Ended(60)

(* States 60 to 72: the head of a frame, and its length for the radio.      *)
FetchFrame ==
  \/ main.at = 60 /\ ram.fifo_i # <<>> /\ Quiet /\ Begin(Op("word", 1), 62)
  \/ /\ main.at = 62 /\ DoneForMain /\ engine.word # SyncWord
     /\ main' = [main EXCEPT !.start = FALSE, !.op = NoOp,
                             !.aborted = @ /\ Leftover, !.at = 60]
  \/ /\ main.at = 62 /\ DoneForMain /\ engine.word = SyncWord
     /\ main' = [main EXCEPT !.op = NoOp, !.start = FALSE, !.aborted = FALSE, !.at = 63]
  \/ /\ main.at = 63 /\ ram.fifo_i # <<>> /\ ~engine.spi_Using
     /\ Begin(Op("word", 1), 65)
  \/ /\ main.at = 65 /\ DoneForMain
     /\ main' = [main EXCEPT !.op = NoOp, !.start = FALSE, !.len = engine.word, !.at = 66]
  \/ main.at = 66 /\ Len(ram.fifo_i) * 2 >= main.len /\ Goes(70)
  \/ main.at = 70 /\ ~engine.spi_Using /\ Begin(Op("length", main.len), 72)
  \/ main.at = 72 /\ Ended(73)

(* States 73 to 76.                                                         *)
FirstChunk ==
  IF MAX_FIFO_SIZE > main.len
    THEN [main EXCEPT !.op = Op("fill", main.len + 1), !.pos = main.len,
                      !.remain_flag = FALSE, !.at = 74]
    ELSE [main EXCEPT !.op = Op("fill", MAX_FIFO_SIZE + 1),
                      !.pos = MAX_FIFO_SIZE, !.remain_flag = TRUE, !.at = 74]

FillFifo ==
  \/ main.at = 73 /\ main' = FirstChunk
  \/ main.at = 74 /\ Quiet /\ Begin(main.op, 76)
  \/ main.at = 76 /\ Ended(80)

(* States 80 to 83: the channel must be free for a while; else the machine  *)
(* backs off.                                                               *)
ListenBeforeTalk ==
  \/ main.at = 80 /\ Quiet /\ Goes(81)
  \/ main.at = 81 /\ (main' = main \/ Goes(82) \/ Goes(90))
  \/ main.at = 82 /\ (main' = main \/ Goes(80))

(* States 90 to 92.                                                         *)
TxState == IF main.remain_flag THEN "TX_WAIT" ELSE "TX"
Sending ==
  /\ DoneForMain
  /\ main' = [main EXCEPT !.op = NoOp, !.start = FALSE, !.tx_state = TxState, !.at = 93]

Transmit ==
  \/ main.at = 90 /\ Quiet /\ Begin(Op("start_tx", 5), 92)
  \/ main.at = 92 /\ Sending

(* State 93: the next chunk, the end, or the time-out of 30 ms, which is    *)
(* longer than all a frame takes unless the radio has nothing left to send. *)
Stalled ==
  /\ ~irq.irq_dealing /\ radio.pending \cap {"tx", "almost_empty"} = {}
  /\ radio.mode = "tx" => radio.txfifo = 0
TimeOut ==
  /\ LongFrames \/ Stalled
  /\ main' = [MainInit EXCEPT !.at = 0, !.enable_irq = main.enable_irq,
                              !.aborted = Leftover]

Remaining == main.len - main.pos

Supervise ==
  /\ main.at = 93
  /\ \/ /\ main.remain_flag /\ irq.almost_empty
        /\ main' = [main EXCEPT !.remain = Remaining, !.at = 100]
     \/ /\ ~(main.remain_flag /\ irq.almost_empty) /\ irq.tx_done
        /\ Goes(95)
     \/ /\ ~(main.remain_flag /\ irq.almost_empty) /\ ~irq.tx_done
        /\ \/ main' = main
           \/ TimeOut

(* States 100 to 103.                                                       *)
NextChunk ==
  IF main.remain <= TX_THRESHOLD
    THEN [main EXCEPT !.op = Op("fill", main.remain + 1), !.pos = main.len,
                      !.remain_flag = FALSE, !.at = 101]
    ELSE [main EXCEPT !.op = Op("fill", TX_THRESHOLD + 1),
                      !.pos = @ + TX_THRESHOLD, !.at = 101]

Refill ==
  \/ main.at = 100 /\ main' = NextChunk
  \/ main.at = 101 /\ ~engine.spi_Using /\ Begin(main.op, 103)
  \/ main.at = 103 /\ Sending

(* States 95 to 97.                                                         *)
BackToRx ==
  \/ main.at = 95 /\ ~engine.spi_Using /\ Begin(Op("start_rx", 1), 97)
  \/ /\ main.at = 97 /\ DoneForMain
     /\ main' = [main EXCEPT !.start = FALSE, !.op = NoOp, !.tx_state = "RX",
                             !.len = 0, !.pos = 0, !.remain = 0, !.at = 60]

MainWaits ==
  /\ \/ main.at = 255
     \/ main.at = 60 /\ ~(ram.fifo_i # <<>> /\ Quiet)
     \/ main.at \in {74, 80, 90} /\ ~Quiet
     \/ main.at \in {54, 63, 70, 95, 101} /\ engine.spi_Using
     \/ main.at = 63 /\ ram.fifo_i = <<>>
     \/ main.at = 66 /\ Len(ram.fifo_i) * 2 < main.len
     \/ main.at \in {6, 42, 52, 56, 62, 65, 72, 76, 77, 92, 97, 103} /\ ~DoneForMain
  /\ main' = main

(* The machine waits for the engine or the others, or lets time go by.      *)
MainRests == MainWaits \/ (main.at \in {0, 2, 81, 82, 93} /\ main' = main)

MainStep ==
  \/ StartUp \/ Configure \/ CheckAndListen \/ SendCommand \/ FetchFrame
  \/ FillFifo \/ ListenBeforeTalk \/ Transmit \/ Supervise \/ Refill
  \/ BackToRx \/ MainWaits
=============================================================================
