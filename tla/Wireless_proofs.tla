-------------------------- MODULE Wireless_proofs --------------------------
(****************************************************************************)
(* Proofs about Wireless, for all thresholds, packets and frames.  The      *)
(* three machines step together at an edge: first what each of them may do  *)
(* to its own registers, then what they do to each other.  DoneAlwaysTaken  *)
(* holds whether frames outlast the watchdog or not; the theorems on the    *)
(* sending of a frame and on the reception of a packet that follow it are   *)
(* for frames that do not.                                                  *)
(****************************************************************************)
EXTENDS Wireless, TLAPS

(* The Main machine: the states in which it waits for the operation it has  *)
(* asked for; start is up in these and in no other.                         *)
MainShape ==
  DOMAIN main = {"at", "start", "op", "tx_state", "enable_irq", "reset_n", "len",
                 "pos", "remain", "remain_flag", "aborted"}
MainWaiting == {6, 42, 52, 56, 62, 65, 72, 76, 77, 92, 97, 103}
MainControl ==
  /\ main.start <=> main.at \in MainWaiting
  /\ ~main.reset_n => main.at \in {0, 249}

(* What it does at an edge: it rests, asks for an operation, takes the end  *)
(* of one, or goes on without the engine.                                   *)
MainStays == main' = main /\ (main.at \in MainWaiting => ~DoneForMain)
MainAsks ==
  /\ main.at \notin MainWaiting /\ main'.at \in MainWaiting /\ main'.start
  /\ main'.reset_n
MainTakes ==
  /\ DoneForMain /\ main.at \in MainWaiting
  /\ main'.at \notin MainWaiting /\ ~main'.start /\ main'.reset_n
MainMoves ==
  /\ main.at \notin MainWaiting /\ main'.at \notin MainWaiting /\ ~main'.start
  /\ main'.reset_n \/ main'.at \in {0, 249}

(* A wait is a rest.                                                        *)
LEMMA WaitsStay == MainWaits => MainStays
<1>1. MainWaits => main' = main
  BY DEF MainWaits
<1>2. ASSUME MainWaits, main.at \in MainWaiting
      PROVE  ~DoneForMain
  <2>1. main.at \notin {255, 60, 74, 80, 90, 54, 63, 70, 95, 101, 66}
    BY <1>2 DEF MainWaiting
  <2>2. QED
    BY <1>2, <2>1 DEF MainWaits
<1>3. QED
  BY <1>1, <1>2 DEF MainStays

(* The Main machine does nothing else, and asks for nothing before it has   *)
(* taken what it has asked for.                                             *)
LEMMA MainSteps ==
  ASSUME MainShape, MainControl, MainStep
  PROVE  MainStays \/ MainAsks \/ MainTakes \/ MainMoves
<1> USE DEF MainShape, MainControl, MainWaiting, Begin, Goes, Ended
<1>1. CASE StartUp
  <2>1. ASSUME main.at = 0 /\ \E next \in {0, 249} :
                 main' = [main EXCEPT !.enable_irq = FALSE, !.tx_state = "none",
                                      !.start = FALSE, !.at = next]
        PROVE  MainMoves
    BY <2>1 DEF MainMoves
  <2>2. ASSUME main.at = 249 /\ main' = [main EXCEPT !.reset_n = TRUE, !.at = 2]
        PROVE  MainMoves
    BY <2>2 DEF MainMoves
  <2>3. QED
    BY <1>1, <2>1, <2>2 DEF StartUp
<1>2. CASE Configure
  <2>1. ASSUME main.at = 2 /\ main' = main
        PROVE  MainStays
    BY <2>1 DEF MainStays
  <2>2. ASSUME main.at = 2 /\ Begin(Op("config", 0), 6)
        PROVE  MainAsks
    BY <2>2 DEF MainAsks, Begin
  <2>3. ASSUME main.at = 6 /\ Ended(2)
        PROVE  MainTakes
    BY <2>3 DEF MainTakes, Ended
  <2>4. ASSUME main.at = 6 /\ Ended(40)
        PROVE  MainTakes
    BY <2>4 DEF MainTakes, Ended
  <2>5. QED
    BY <1>2, <2>1, <2>2, <2>3, <2>4 DEF Configure
<1>3. CASE CheckAndListen
  <2>1. ASSUME main.at = 40 /\ Begin(Op("fifo_reset", 2), 42)
        PROVE  MainAsks
    BY <2>1 DEF MainAsks, Begin
  <2>2. ASSUME main.at = 42 /\ Ended(50)
        PROVE  MainTakes
    BY <2>2 DEF MainTakes, Ended
  <2>3. ASSUME main.at = 50 /\ Begin(Op("state", 1), 52)
        PROVE  MainAsks
    BY <2>3 DEF MainAsks, Begin
  <2>4. ASSUME main.at = 52 /\ engine.mode = "ready" /\ Ended(54)
        PROVE  MainTakes
    BY <2>4 DEF MainTakes, Ended
  <2>5. ASSUME main.at = 52 /\ engine.mode # "ready" /\ Ended(53)
        PROVE  MainTakes
    BY <2>5 DEF MainTakes, Ended
  <2>6. ASSUME main.at = 53 /\ main' = [main EXCEPT !.reset_n = FALSE, !.at = 0]
        PROVE  MainMoves
    BY <2>6 DEF MainMoves
  <2>7. ASSUME main.at = 54 /\ ~engine.spi_Using /\ Begin(Op("start_rx", 8), 56)
        PROVE  MainAsks
    BY <2>7 DEF MainAsks, Begin
  <2>8. ASSUME main.at = 56 /\ DoneForMain
          /\ main' = [main EXCEPT !.op = NoOp, !.start = FALSE, !.enable_irq = TRUE,
                                  !.tx_state = "RX", !.at = 60]
        PROVE  MainTakes
    BY <2>8 DEF MainTakes
  <2>9. QED
    BY <1>3, <2>1, <2>2, <2>3, <2>4, <2>5, <2>6, <2>7, <2>8 DEF CheckAndListen
<1>4. CASE SendCommand
  <2>1. ASSUME main.at = 60 /\ \E next \in AfterLength : Goes(next)
        PROVE  MainMoves
    BY <2>1 DEF MainMoves, AfterLength, Goes
  <2>2. ASSUME main.at = 69 /\ Begin(Op("command", 0), 77)
        PROVE  MainAsks
    BY <2>2 DEF MainAsks, Begin
  <2>3. ASSUME main.at = 77 /\ Ended(60)
        PROVE  MainTakes
    BY <2>3 DEF MainTakes, Ended
  <2>4. QED
    BY <1>4, <2>1, <2>2, <2>3 DEF SendCommand
<1>5. CASE FetchFrame
  <2>1. ASSUME main.at = 60 /\ ram.fifo_i # <<>> /\ Quiet /\ Begin(Op("word", 1), 62)
        PROVE  MainAsks
    BY <2>1 DEF MainAsks, Begin
  <2>2. ASSUME main.at = 62 /\ DoneForMain /\ engine.word # SyncWord
          /\ main' = [main EXCEPT !.start = FALSE, !.op = NoOp,
                                  !.aborted = @ /\ Leftover, !.at = 60]
        PROVE  MainTakes
    BY <2>2 DEF MainTakes, Leftover
  <2>3. ASSUME main.at = 62 /\ DoneForMain /\ engine.word = SyncWord
          /\ main' = [main EXCEPT !.op = NoOp, !.start = FALSE, !.aborted = FALSE, !.at = 63]
        PROVE  MainTakes
    BY <2>3 DEF MainTakes
  <2>4. ASSUME main.at = 63 /\ ram.fifo_i # <<>> /\ ~engine.spi_Using
          /\ Begin(Op("word", 1), 65)
        PROVE  MainAsks
    BY <2>4 DEF MainAsks, Begin
  <2>5. ASSUME main.at = 65 /\ DoneForMain
          /\ main' = [main EXCEPT !.op = NoOp, !.start = FALSE, !.len = engine.word, !.at = 66]
        PROVE  MainTakes
    BY <2>5 DEF MainTakes
  <2>6. ASSUME main.at = 66 /\ Len(ram.fifo_i) * 2 >= main.len /\ Goes(70)
        PROVE  MainMoves
    BY <2>6 DEF MainMoves, Goes
  <2>7. ASSUME main.at = 70 /\ ~engine.spi_Using /\ Begin(Op("length", main.len), 72)
        PROVE  MainAsks
    BY <2>7 DEF MainAsks, Begin
  <2>8. ASSUME main.at = 72 /\ Ended(73)
        PROVE  MainTakes
    BY <2>8 DEF MainTakes, Ended
  <2>9. QED
    BY <1>5, <2>1, <2>2, <2>3, <2>4, <2>5, <2>6, <2>7, <2>8 DEF FetchFrame
<1>6. CASE FillFifo
  <2>1. ASSUME main.at = 73 /\ main' = FirstChunk
        PROVE  MainMoves
    BY <2>1 DEF MainMoves, FirstChunk
  <2>2. ASSUME main.at = 74 /\ Quiet /\ Begin(main.op, 76)
        PROVE  MainAsks
    BY <2>2 DEF MainAsks, Begin
  <2>3. ASSUME main.at = 76 /\ Ended(80)
        PROVE  MainTakes
    BY <2>3 DEF MainTakes, Ended
  <2>4. QED
    BY <1>6, <2>1, <2>2, <2>3 DEF FillFifo
<1>7. CASE ListenBeforeTalk
  <2>1. ASSUME main.at = 80 /\ Quiet /\ Goes(81)
        PROVE  MainMoves
    BY <2>1 DEF MainMoves, Goes
  <2>2. ASSUME main.at = 81 /\ (main' = main \/ Goes(82) \/ Goes(90))
        PROVE  MainStays \/ MainMoves
    BY <2>2 DEF MainStays, MainMoves, Goes
  <2>3. ASSUME main.at = 82 /\ (main' = main \/ Goes(80))
        PROVE  MainStays \/ MainMoves
    BY <2>3 DEF MainStays, MainMoves, Goes
  <2>4. QED
    BY <1>7, <2>1, <2>2, <2>3 DEF ListenBeforeTalk
<1>8. CASE Transmit
  <2>1. ASSUME main.at = 90 /\ Quiet /\ Begin(Op("start_tx", 5), 92)
        PROVE  MainAsks
    BY <2>1 DEF MainAsks, Begin
  <2>2. ASSUME main.at = 92 /\ Sending
        PROVE  MainTakes
    BY <2>2 DEF MainTakes, Sending, TxState
  <2>3. QED
    BY <1>8, <2>1, <2>2 DEF Transmit
<1>9. CASE Supervise
  <2>1. ASSUME main.at = 93 /\ main.remain_flag /\ irq.almost_empty
          /\ main' = [main EXCEPT !.remain = Remaining, !.at = 100]
        PROVE  MainMoves
    BY <2>1 DEF MainMoves, Remaining
  <2>2. ASSUME main.at = 93 /\ ~(main.remain_flag /\ irq.almost_empty) /\ irq.tx_done /\ Goes(95)
        PROVE  MainMoves
    BY <2>2 DEF MainMoves, Goes
  <2>3. ASSUME main.at = 93 /\ ~irq.tx_done /\ main' = main
        PROVE  MainStays
    BY <2>3 DEF MainStays
  <2>4. ASSUME main.at = 93 /\ ~irq.tx_done /\ TimeOut
        PROVE  MainMoves
    BY <2>4 DEF MainMoves, TimeOut, MainInit, Leftover
  <2>5. QED
    BY <1>9, <2>1, <2>2, <2>3, <2>4 DEF Supervise
<1>10. CASE Refill
  <2>1. ASSUME main.at = 100 /\ main' = NextChunk
        PROVE  MainMoves
    BY <2>1 DEF MainMoves, NextChunk
  <2>2. ASSUME main.at = 101 /\ ~engine.spi_Using /\ Begin(main.op, 103)
        PROVE  MainAsks
    BY <2>2 DEF MainAsks, Begin
  <2>3. ASSUME main.at = 103 /\ Sending
        PROVE  MainTakes
    BY <2>3 DEF MainTakes, Sending, TxState
  <2>4. QED
    BY <1>10, <2>1, <2>2, <2>3 DEF Refill
<1>11. CASE BackToRx
  <2>1. ASSUME main.at = 95 /\ ~engine.spi_Using /\ Begin(Op("start_rx", 1), 97)
        PROVE  MainAsks
    BY <2>1 DEF MainAsks, Begin
  <2>2. ASSUME main.at = 97 /\ DoneForMain
          /\ main' = [main EXCEPT !.start = FALSE, !.op = NoOp, !.tx_state = "RX",
                                  !.len = 0, !.pos = 0, !.remain = 0, !.at = 60]
        PROVE  MainTakes
    BY <2>2 DEF MainTakes
  <2>3. QED
    BY <1>11, <2>1, <2>2 DEF BackToRx
<1>12. CASE MainWaits
  BY <1>12, WaitsStay
<1>13. QED
  BY <1>1, <1>2, <1>3, <1>4, <1>5, <1>6, <1>7, <1>8, <1>9, <1>10, <1>11, <1>12
     DEF MainStep

(* Its registers stay a record of the same fields.                          *)
LEMMA MainShapeStep ==
  ASSUME MainShape, MainStep
  PROVE  MainShape'
<1> USE DEF MainShape, Begin, Goes, Ended
<1>1. CASE StartUp \/ Configure \/ CheckAndListen
  BY <1>1 DEF StartUp, Configure, CheckAndListen
<1>2. CASE SendCommand \/ FetchFrame \/ ListenBeforeTalk
  BY <1>2 DEF SendCommand, FetchFrame, ListenBeforeTalk
<1>3. CASE FillFifo \/ Transmit \/ Refill \/ BackToRx
  BY <1>3 DEF FillFifo, FirstChunk, Transmit, Sending, Refill, NextChunk, BackToRx
<1>4. CASE Supervise \/ MainWaits
  BY <1>4 DEF Supervise, TimeOut, MainInit, MainWaits
<1>5. QED
  BY <1>1, <1>2, <1>3, <1>4 DEF MainStep

-----------------------------------------------------------------------------
(* The Irq machine: it has start up where it waits, and in state 16 if the  *)
(* watchdog took it there.                                                  *)
IrqShape ==
  DOMAIN irq = {"at", "start", "op", "irq_dealing", "packets_incoming",
                "Data_Recv_Pos", "almost_full", "almost_empty", "tx_done",
                "watchdog", "Pkt_Start_flag", "Pkt_Received_flag",
                "Crc_Error_Rollback", "forced"}
IrqWaiting == {2, 3, 8, 9, 11, 12, 14, 15, 17, 18, 21, 23, 24, 28, 29}
IrqControl ==
  /\ irq.at \in IrqWaiting => irq.start
  /\ irq.start => irq.at \in IrqWaiting \/ (irq.at = 16 /\ irq.forced)
  /\ irq.forced => irq.at \in {16, 17, 18, 20}

(* What it does at an edge: the watchdog takes it away, or it rests, asks,  *)
(* goes on while it waits, takes an end, or goes on without the engine.     *)
IrqForced == irq'.at = 16 /\ irq'.forced
IrqStays  == irq' = irq /\ (irq.at \in IrqWaiting => ~DoneForIrq)
IrqAsks   == /\ irq.at \notin IrqWaiting /\ irq'.at \in IrqWaiting /\ irq'.start
             /\ irq.forced => irq'.at = 17 \/ ~irq'.forced
             /\ ~irq.forced => ~irq'.forced
             /\ irq.at = 16 => irq'.forced = irq.forced
IrqGoesOn == /\ irq.at \in IrqWaiting /\ irq'.at \in IrqWaiting
             /\ irq'.start = irq.start /\ irq'.op = irq.op /\ irq'.forced = irq.forced
             /\ irq.forced => irq'.at = 18
IrqTakes  == /\ DoneForIrq /\ irq.at \in IrqWaiting
             /\ irq'.at \notin IrqWaiting /\ ~irq'.start
             /\ irq'.forced = irq.forced /\ (irq.forced => irq'.at = 20)
IrqMoves  == /\ irq.at \notin IrqWaiting \cup {16} /\ irq'.at \notin IrqWaiting
             /\ irq'.start = irq.start /\ irq'.forced = irq.forced /\ irq.at # 20

(* The watchdog overrides all that the first case statement does.           *)
LEMMA Expires ==
  ASSUME NEW n, Becomes(n), "at" \in DOMAIN n, "forced" \in DOMAIN n
  PROVE  irq' = n \/ IrqForced
  BY DEF Becomes, IrqForced

(* Its registers stay a record of the same fields.                          *)
LEMMA IrqShapeStep ==
  ASSUME IrqShape, IrqStep
  PROVE  IrqShape'
<1> USE DEF IrqShape, Becomes, Request, Answered
<1>0. CASE ~main.reset_n /\ irq' = IrqReset
  BY <1>0 DEF IrqReset, IrqInit
<1>1. CASE WaitForInterrupt \/ AskStatus
  BY <1>1 DEF WaitForInterrupt, AskStatus
<1>2. CASE IrqEdge
  BY <1>2 DEF IrqEdge
<1>3. CASE Classify
  BY <1>3 DEF Classify, Interrupted, CrcInterrupt
<1>4. CASE TxDone \/ MarkPacket
  BY <1>4 DEF TxDone, MarkPacket
<1>5. CASE AskRssi \/ StoreSync \/ ReadChunk
  BY <1>5 DEF AskRssi, StoreSync, ReadChunk
<1>6. CASE ChunkRead \/ ReadMore \/ EndChunk
  BY <1>6 DEF ChunkRead, ReadMore, EndChunk
<1>7. CASE ResetFifos \/ AnnouncePacket \/ StartRx \/ AskState
  BY <1>7 DEF ResetFifos, AnnouncePacket, StartRx, AskState
<1>8. CASE EndReception \/ EndAlmostEmpty
  BY <1>8 DEF EndReception, EndAlmostEmpty
<1>9. CASE IrqAnswered \/ IrqWaits
  BY <1>9 DEF IrqAnswered, IrqWaits
<1>10. QED
  BY <1>0, <1>1, <1>2, <1>3, <1>4, <1>5, <1>6, <1>7, <1>8, <1>9 DEF IrqStep

(* The Irq machine does nothing else.                                       *)
LEMMA IrqSteps ==
  ASSUME IrqShape, IrqControl, main.reset_n, IrqStep
  PROVE  IrqForced \/ IrqStays \/ IrqAsks \/ IrqGoesOn \/ IrqTakes \/ IrqMoves
<1> SUFFICES ASSUME ~IrqForced
             PROVE  IrqStays \/ IrqAsks \/ IrqGoesOn \/ IrqTakes \/ IrqMoves
  OBVIOUS
<1>0. ASSUME NEW n, Becomes(n), "at" \in DOMAIN n, "forced" \in DOMAIN n
      PROVE  irq' = n
  BY <1>0, Expires
<1> USE DEF IrqShape, IrqControl, IrqWaiting
<1>1. CASE WaitForInterrupt
  <2>1. irq.at = 0 /\ irq' = [irq EXCEPT !.irq_dealing = TRUE, !.at = 1]
    BY <1>0, <1>1 DEF WaitForInterrupt
  <2>2. QED
    BY <2>1 DEF IrqMoves
<1>2. CASE AskStatus
  <2>1. irq.at = 1 /\ irq' = [irq EXCEPT !.start = TRUE, !.op = Op("int_status", 4), !.at = 2]
    BY <1>0, <1>2 DEF AskStatus, Request
  <2>2. QED
    BY <2>1 DEF IrqAsks
<1>3. CASE IrqEdge
  <2>1. ASSUME irq.at \in {2, 11, 14, 23, 28}, irq' = [irq EXCEPT !.at = @ + 1]
        PROVE  IrqGoesOn
    BY <2>1 DEF IrqGoesOn
  <2>2. ASSUME irq.at = 25, irq' = [irq EXCEPT !.at = @ + 1]
        PROVE  IrqMoves
    BY <2>2 DEF IrqMoves
  <2>3. ASSUME irq.at = 8, irq' = [irq EXCEPT !.Pkt_Start_flag = FALSE, !.at = 9]
        PROVE  IrqGoesOn
    BY <2>3 DEF IrqGoesOn
  <2>4. ASSUME irq.at = 17, irq' = [irq EXCEPT !.Crc_Error_Rollback = FALSE, !.at = 18]
        PROVE  IrqGoesOn
    BY <2>4 DEF IrqGoesOn
  <2>5. QED
    BY <1>0, <1>3, <2>1, <2>2, <2>3, <2>4 DEF IrqEdge
<1>4. CASE TxDone
  <2>1. ASSUME irq.at = 4, irq' = [irq EXCEPT !.tx_done = TRUE, !.at = 5]
        PROVE  IrqMoves
    BY <2>1 DEF IrqMoves
  <2>2. ASSUME irq.at = 5, irq' = [irq EXCEPT !.tx_done = FALSE, !.irq_dealing = FALSE, !.at = 0]
        PROVE  IrqMoves
    BY <2>2 DEF IrqMoves
  <2>3. QED
    BY <1>0, <1>4, <2>1, <2>2 DEF TxDone
<1>5. CASE MarkPacket
  <2>1. ASSUME irq.at = 6, irq' = [irq EXCEPT !.Pkt_Start_flag = TRUE, !.at = 7]
        PROVE  IrqMoves
    BY <2>1 DEF IrqMoves
  <2>2. ASSUME irq.at = 6, irq' = [irq EXCEPT !.at = 16]
        PROVE  IrqMoves
    BY <2>2 DEF IrqMoves
  <2>3. QED
    BY <1>0, <1>5, <2>1, <2>2 DEF MarkPacket
<1>6. CASE AskRssi
  <2>1. irq.at = 7 /\ irq' = [irq EXCEPT !.start = TRUE, !.op = Op("rssi", 1), !.at = 8]
    BY <1>0, <1>6 DEF AskRssi, Request
  <2>2. QED
    BY <2>1 DEF IrqAsks
<1>7. CASE StoreSync
  <2>1. irq.at = 10 /\ irq' = [irq EXCEPT !.start = TRUE, !.op = Op("sync", 2), !.at = 11]
    BY <1>0, <1>7 DEF StoreSync, Request
  <2>2. QED
    BY <2>1 DEF IrqAsks
<1>8. CASE ReadMore
  <2>1. irq.at = 27 /\ irq' = [irq EXCEPT !.start = TRUE, !.op = Op("rest", RX_THRESHOLD),
                !.Data_Recv_Pos = (@ + RX_THRESHOLD) % 256, !.at = 28]
    BY <1>0, <1>8 DEF ReadMore
  <2>2. QED
    BY <2>1 DEF IrqAsks
<1>9. CASE EndChunk
  <2>1. irq.at = 30 /\ irq' = [irq EXCEPT !.almost_full = FALSE, !.irq_dealing = FALSE, !.at = 0]
    BY <1>0, <1>9 DEF EndChunk
  <2>2. QED
    BY <2>1 DEF IrqMoves
<1>10. CASE ResetFifos
  <2>1. irq.at = 16 /\ irq' = [irq EXCEPT !.start = TRUE, !.op = Op("fifo_reset", 2), !.at = 17]
    BY <1>0, <1>10 DEF ResetFifos, Request
  <2>2. QED
    BY <2>1 DEF IrqAsks
<1>11. CASE AnnouncePacket
  <2>1. irq.at = 19 /\ irq' = [irq EXCEPT !.Pkt_Received_flag = TRUE, !.at = 20]
    BY <1>0, <1>11 DEF AnnouncePacket
  <2>2. QED
    BY <2>1 DEF IrqMoves
<1>12. CASE StartRx
  <2>1. irq.at = 20 /\ irq' = [irq EXCEPT !.Pkt_Received_flag = FALSE, !.forced = FALSE, !.start = TRUE,
                         !.op = Op("start_rx", 1), !.at = 21]
    BY <1>0, <1>12 DEF StartRx
  <2>2. QED
    BY <2>1 DEF IrqAsks
<1>13. CASE AskState
  <2>1. irq.at = 22 /\ irq' = [irq EXCEPT !.start = TRUE, !.op = Op("state", 1), !.at = 23]
    BY <1>0, <1>13 DEF AskState, Request
  <2>2. QED
    BY <2>1 DEF IrqAsks
<1>14. CASE EndAlmostEmpty
  <2>1. irq.at = 26 /\ irq' = [irq EXCEPT !.almost_empty = FALSE, !.irq_dealing = FALSE, !.at = 0]
    BY <1>0, <1>14 DEF EndAlmostEmpty
  <2>2. QED
    BY <2>1 DEF IrqMoves
<1>15. CASE Classify
  <2>1. irq.at = 3 /\ DoneForIrq /\ ~irq.forced
    BY <1>15 DEF Classify
  <2>2. ASSUME NEW kind, NEW n, Interrupted(kind, n), DOMAIN n = DOMAIN irq,
               n.at \notin IrqWaiting, n.forced = irq.forced
        PROVE  IrqTakes
    <3>1. irq' = [n EXCEPT !.start = FALSE, !.op = NoOp]
      BY <2>2, <1>0 DEF Interrupted
    <3>2. QED
      BY <2>1, <2>2, <3>1 DEF IrqTakes
  <2>3. \A later \in {13, 27} : ByPacket(later) \notin IrqWaiting
    BY DEF ByPacket
  <2>a. 0 \notin IrqWaiting /\ 4 \notin IrqWaiting /\ 16 \notin IrqWaiting
        /\ 25 \notin IrqWaiting
    OBVIOUS
  <2> HIDE DEF IrqWaiting, IrqControl
  <2>4. CASE Interrupted("almost_empty", [irq EXCEPT !.almost_empty = TRUE, !.at = 25])
    BY <2>4, <2>2, <2>a
  <2>5. CASE Interrupted("tx", [irq EXCEPT !.at = 4])
    BY <2>5, <2>2, <2>a
  <2>6. CASE CrcInterrupt
    BY <2>6, <2>2, <2>a DEF CrcInterrupt
  <2>7. CASE Interrupted("almost_full", [irq EXCEPT !.almost_full = TRUE,
                       !.at = ByPacket(27),
                       !.packets_incoming = IF @ = 0 THEN 0 ELSE (@ + 1) % 16])
    BY <2>7, <2>2, <2>3
  <2>8. CASE Interrupted("rx", [irq EXCEPT !.almost_full = FALSE, !.at = ByPacket(13)])
    BY <2>8, <2>2, <2>3
  <2>9. CASE Interrupted("sync", [irq EXCEPT !.packets_incoming = 1, !.watchdog = 0,
                                        !.Data_Recv_Pos = 0, !.at = 0])
    BY <2>9, <2>2, <2>a
  <2>10. CASE Interrupted("none", [irq EXCEPT !.irq_dealing = FALSE, !.at = 0])
    BY <2>10, <2>2, <2>a
  <2>11. QED
    BY <1>15, <2>4, <2>5, <2>6, <2>7, <2>8, <2>9, <2>10 DEF Classify
<1>16. CASE ReadChunk
  <2>1. irq.at = 13
    BY <1>16 DEF ReadChunk
  <2> DEFINE op == IF irq.almost_full THEN HeadChunk
                   ELSE IF irq.packets_incoming = 1 THEN Op("head", 0) ELSE LastChunk
             pos == IF irq.almost_full THEN irq.Data_Recv_Pos + RX_THRESHOLD - 1
                    ELSE irq.Data_Recv_Pos
             n == [irq EXCEPT !.start = TRUE, !.op = op, !.at = 14, !.Data_Recv_Pos = pos]
  <2>2. Becomes(n)
    BY <1>16 DEF ReadChunk
  <2> HIDE DEF op, pos
  <2>a. irq' = n
    BY <1>0, <2>2
  <2>3. QED
    BY <2>1, <2>a DEF IrqAsks
<1>17. CASE ChunkRead
  <2>1. PICK next \in {30, 19} : irq.at = 15 /\ Answered(next)
    BY <1>17 DEF ChunkRead
  <2>2. DoneForIrq /\ irq' = [irq EXCEPT !.start = FALSE, !.op = NoOp, !.at = next]
    BY <2>1, <1>0 DEF Answered
  <2>3. QED
    BY <2>1, <2>2 DEF IrqTakes
<1>18. CASE EndReception
  <2>1. irq.at = 24 /\ DoneForIrq
    BY <1>18 DEF EndReception
  <2>2. CASE engine.mode = "rx"
    <3>1. irq' = [irq EXCEPT !.start = FALSE, !.op = NoOp, !.packets_incoming = 0,
                     !.Data_Recv_Pos = 0, !.watchdog = 3, !.irq_dealing = FALSE,
                     !.almost_full = FALSE, !.at = 0]
      BY <1>18, <1>0, <2>2 DEF EndReception
    <3>2. QED
      BY <2>1, <3>1 DEF IrqTakes
  <2>3. CASE engine.mode # "rx"
    <3>1. irq' = [irq EXCEPT !.start = FALSE, !.op = NoOp, !.at = 19]
      BY <1>18, <1>0, <2>3 DEF EndReception
    <3>2. QED
      BY <2>1, <3>1 DEF IrqTakes
  <2>4. QED
    BY <2>2, <2>3
<1>19. CASE IrqAnswered
  <2>1. PICK next \in {10, 13, 22, 30, 20} :
          /\ (irq.at \in {9, 12, 21, 29} /\ next = irq.at + 1) \/ (irq.at = 18 /\ next = 20)
          /\ Answered(next)
    BY <1>19 DEF IrqAnswered
  <2>2. DoneForIrq /\ irq' = [irq EXCEPT !.start = FALSE, !.op = NoOp, !.at = next]
    BY <2>1, <1>0 DEF Answered
  <2>3. QED
    BY <2>1, <2>2 DEF IrqTakes
<1>20. CASE IrqWaits
  <2>1. irq' = irq
    BY <1>20, <1>0 DEF IrqWaits
  <2>2. irq.at \in IrqWaiting => ~DoneForIrq
    BY <1>20 DEF IrqWaits
  <2>3. QED
    BY <2>1, <2>2 DEF IrqStays
<1>21. QED
  BY <1>1, <1>2, <1>3, <1>4, <1>5, <1>6, <1>7, <1>8, <1>9, <1>10, <1>11, <1>12, <1>13, <1>14, <1>15, <1>16, <1>17, <1>18, <1>19, <1>20 DEF IrqStep
-----------------------------------------------------------------------------
(* The engine: busy from the acceptance of an operation to the edge at      *)
(* which its owner sees the end, state 0.                                   *)
EngineShape ==
  DOMAIN engine = {"at", "spi_Using", "spi_op_done", "owner", "op", "recv_pkt_len",
                   "pending", "mode", "word"}
EngineControl ==
  /\ engine.at \in {0, 52, 53, 54}
  /\ engine.spi_Using <=> engine.at = 52
  /\ engine.at = 52 => ~engine.spi_op_done /\ engine.owner \in {"main", "int"}
  /\ engine.spi_op_done /\ engine.owner # "none" => engine.at = 0
EngineBusy == engine.at = 52 \/ engine.spi_op_done

(* What it is busy with is what its owner waits for.                        *)
MainServed == EngineBusy /\ engine.owner = "main" => main.start /\ main.op = engine.op
IrqServed ==
  EngineBusy /\ engine.owner = "int" =>
    /\ irq.at \in IrqWaiting \cup {16}
    /\ irq.forced \/ (irq.start /\ irq.op = engine.op)

(* What it does at an edge.                                                 *)
EngineClears   == engine.at \in {0, 54} /\ engine'.owner = "none" /\ engine'.at \in {53, 54}
EngineAccepts  ==
  /\ engine.at = 53 /\ engine'.at = 52 /\ ~engine'.spi_op_done
  /\ \/ main.start /\ engine'.owner = "main" /\ engine'.op = main.op
     \/ irq.start /\ engine'.owner = "int" /\ engine'.op = irq.op
EngineRuns     == engine.at \in {52, 53} /\ engine' = engine
EngineFinishes == engine.at = 52 /\ engine'.at = 0 /\ engine'.owner = engine.owner
                  /\ engine'.op = engine.op
EngineHeld     == engine'.at = 0 /\ ~engine'.spi_op_done

(* The engine does nothing else.                                            *)
LEMMA EngineSteps ==
  ASSUME EngineShape, EngineControl, EngineStep
  PROVE  /\ EngineShape' /\ EngineControl'
         /\ main.reset_n => EngineClears \/ EngineAccepts \/ EngineRuns
         /\ ~main.reset_n => EngineHeld
<1> USE DEF EngineShape, EngineControl
<1>1. CASE ~main.reset_n /\ HeldInReset
  BY <1>1 DEF HeldInReset, EngineReset, EngineInit, EngineHeld
<1>2. CASE main.reset_n /\ Clear
  BY <1>2 DEF Clear, EngineClears
<1>3. CASE main.reset_n /\ Choose
  <2>1. engine.at = 53
    BY <1>3 DEF Choose
  <2>2. CASE main.start /\ Accept("main", main.op)
    BY <2>1, <2>2, <1>3 DEF Accept, EngineAccepts
  <2>3. CASE irq.start /\ Accept("int", irq.op)
    BY <2>1, <2>3, <1>3 DEF Accept, EngineAccepts
  <2>4. CASE engine' = engine
    BY <2>1, <2>4, <1>3 DEF EngineRuns
  <2>5. QED
    BY <1>3, <2>2, <2>3, <2>4 DEF Choose
<1>4. CASE main.reset_n /\ Run
  BY <1>4 DEF Run, EngineRuns
<1>5. QED
  BY <1>1, <1>2, <1>3, <1>4 DEF EngineStep

(* The end of an operation leaves its owner and its name in the registers.  *)
LEMMA EngineEnds ==
  ASSUME EngineShape, EngineControl, Finish
  PROVE  EngineShape' /\ EngineControl' /\ EngineFinishes
<1>1. engine.at = 52 /\ engine' = WithAnswer(engine.op)
  BY DEF Finish
<1>2. QED
  BY <1>1 DEF WithAnswer, EngineShape, EngineControl, EngineFinishes
-----------------------------------------------------------------------------
(* The inductive invariant.                                                 *)
ServedInv ==
  /\ MainShape /\ IrqShape /\ EngineShape
  /\ MainControl /\ IrqControl /\ EngineControl
  /\ MainServed /\ IrqServed

(* Each thing the Main machine does keeps start where it belongs.           *)
LEMMA MainControlled ==
  ASSUME MainControl, MainStays \/ MainAsks \/ MainTakes \/ MainMoves
  PROVE  MainControl'
<1>1. CASE MainStays
  BY <1>1 DEF MainStays, MainControl
<1>2. CASE MainAsks \/ MainTakes
  BY <1>2 DEF MainAsks, MainTakes, MainControl
<1>a. CASE MainMoves
  BY <1>a DEF MainMoves, MainControl
<1>3. QED
  BY <1>1, <1>2, <1>a

(* And each thing the Irq machine does.                                     *)
LEMMA IrqControlled ==
  ASSUME IrqControl, IrqForced \/ IrqStays \/ IrqAsks \/ IrqGoesOn \/ IrqTakes \/ IrqMoves
  PROVE  IrqControl'
<1>1. CASE IrqStays
  BY <1>1 DEF IrqStays, IrqControl
<1>2. CASE IrqForced
  BY <1>2 DEF IrqForced, IrqControl, IrqWaiting
<1>3. CASE IrqAsks
  BY <1>3 DEF IrqAsks, IrqControl
<1>4. CASE IrqGoesOn \/ IrqTakes
  BY <1>4 DEF IrqGoesOn, IrqTakes, IrqControl, IrqWaiting
<1>5. CASE IrqMoves
  BY <1>5 DEF IrqMoves, IrqControl, IrqWaiting
<1>6. QED
  BY <1>1, <1>2, <1>3, <1>4, <1>5

(* spi_op_done_main and spi_op_done_int are down outside of state 0.        *)
LEMMA NotServedIsNotDone ==
  ASSUME EngineControl, engine.at # 0
  PROVE  ~DoneForMain /\ ~DoneForIrq
  BY DEF EngineControl, DoneForMain, DoneForIrq, DoneFor

(* An edge: a machine that waits stays where it is while its operation is   *)
(* run, unless the watchdog interferes.                                     *)
LEMMA EdgeStep ==
  ASSUME ServedInv, Edge
  PROVE  ServedInv'
<1> USE DEF ServedInv
<1>1. MainStep /\ EngineStep /\ IrqStep
  BY DEF Edge
<1>2. MainShape' /\ MainControl' /\ (MainStays \/ MainAsks \/ MainTakes \/ MainMoves)
  BY <1>1, MainShapeStep, MainSteps, MainControlled
<1>3. IrqShape' /\ IrqControl'
  <2>1. IrqShape'
    BY <1>1, IrqShapeStep
  <2>2. CASE main.reset_n
    BY <2>1, <2>2, <1>1, IrqSteps, IrqControlled
  <2>3. CASE ~main.reset_n
    <3>1. irq' = IrqReset
      BY <1>1, <2>3 DEF IrqStep
    <3>2. QED
      BY <3>1, <2>1 DEF IrqReset, IrqInit, IrqControl, IrqWaiting
  <2>4. QED
    BY <2>1, <2>2, <2>3
<1>4. /\ EngineShape' /\ EngineControl'
      /\ main.reset_n => EngineClears \/ EngineAccepts \/ EngineRuns
      /\ ~main.reset_n => EngineHeld
  BY <1>1, EngineSteps
<1>5. CASE ~main.reset_n
  <2>1. ~EngineBusy'
    BY <1>4, <1>5 DEF EngineHeld, EngineBusy
  <2>2. QED
    BY <1>2, <1>3, <1>4, <2>1 DEF MainServed, IrqServed
<1>6. CASE main.reset_n /\ EngineClears
  <2>1. engine'.owner = "none"
    BY <1>6 DEF EngineClears
  <2>2. QED
    BY <1>2, <1>3, <1>4, <2>1 DEF MainServed, IrqServed
<1>7. CASE main.reset_n /\ (EngineAccepts \/ EngineRuns)
  <2>1. engine.at \in {52, 53} /\ ~DoneForMain /\ ~DoneForIrq
    BY <1>7, NotServedIsNotDone DEF EngineAccepts, EngineRuns
  <2>2. EngineBusy' /\ engine'.owner = "main" => main.start /\ main.op = engine'.op
    <3>1. CASE EngineAccepts
      BY <3>1 DEF EngineAccepts
    <3>2. CASE EngineRuns
      BY <3>2 DEF EngineRuns, MainServed, EngineBusy
    <3>3. QED
      BY <1>7, <3>1, <3>2
  <2>3. main.start => main' = main
    BY <1>2, <2>1 DEF MainControl, MainStays, MainAsks, MainTakes, MainMoves
  <2>4. MainServed'
    BY <2>2, <2>3 DEF MainServed
  <2>5. EngineBusy' /\ engine'.owner = "int" =>
          /\ irq.at \in IrqWaiting \cup {16}
          /\ irq.forced \/ (irq.start /\ irq.op = engine'.op)
    <3>1. CASE EngineAccepts
      BY <3>1 DEF EngineAccepts, IrqControl
    <3>2. CASE EngineRuns
      BY <3>2 DEF EngineRuns, IrqServed, EngineBusy
    <3>3. QED
      BY <1>7, <3>1, <3>2
  <2>6. ASSUME irq.at \in IrqWaiting \cup {16}, NEW op,
               irq.forced \/ (irq.start /\ irq.op = op)
        PROVE  /\ irq'.at \in IrqWaiting \cup {16}
               /\ irq'.forced \/ (irq'.start /\ irq'.op = op)
    <3>1. IrqForced \/ IrqStays \/ IrqAsks \/ IrqGoesOn \/ IrqTakes \/ IrqMoves
      BY <1>1, <1>7, IrqSteps
    <3>2. CASE IrqForced
      BY <3>2 DEF IrqForced
    <3>3. CASE IrqStays
      BY <3>3, <2>6 DEF IrqStays
    <3>4. CASE IrqAsks
      BY <3>4, <2>6 DEF IrqAsks, IrqControl
    <3>5. CASE IrqGoesOn
      BY <3>5, <2>6 DEF IrqGoesOn
    <3>6. CASE IrqTakes \/ IrqMoves
      BY <3>6, <2>6, <2>1 DEF IrqTakes, IrqMoves
    <3>7. QED
      BY <3>1, <3>2, <3>3, <3>4, <3>5, <3>6
  <2>7. IrqServed'
    BY <2>5, <2>6 DEF IrqServed
  <2>8. QED
    BY <1>2, <1>3, <1>4, <2>4, <2>7
<1>8. QED
  BY <1>4, <1>5, <1>6, <1>7

(* The end of an operation.                                                 *)
LEMMA EndStep ==
  ASSUME ServedInv, OperationEnds
  PROVE  ServedInv'
<1> USE DEF ServedInv
<1>1. main' = main /\ IrqWaits /\ Finish /\ main.reset_n
  BY DEF OperationEnds, MainRests, MainWaits
<1>2. EngineShape' /\ EngineControl' /\ EngineFinishes
  BY <1>1, EngineEnds
<1>3. irq' = irq \/ IrqForced
  BY <1>1, Expires DEF IrqWaits, IrqShape
<1>4. IrqShape'
  BY <1>1, IrqShapeStep DEF IrqStep
<1>5. MainShape' /\ MainControl' /\ MainServed'
  <2>1. MainShape' /\ MainControl'
    BY <1>1 DEF MainShape, MainControl
  <2>2. MainServed'
    BY <1>1, <1>2 DEF MainServed, EngineFinishes, EngineBusy
  <2>3. QED
    BY <2>1, <2>2
<1>6. IrqControl'
  <2>1. CASE irq' = irq
    BY <2>1 DEF IrqControl
  <2>2. CASE IrqForced
    BY <2>2, IrqControlled
  <2>3. QED
    BY <1>3, <2>1, <2>2
<1>7. IrqServed'
  <2>1. CASE irq' = irq
    BY <2>1, <1>2 DEF IrqServed, EngineFinishes, EngineBusy
  <2>2. CASE IrqForced
    BY <2>2 DEF IrqServed, IrqForced
  <2>3. QED
    BY <1>3, <2>1, <2>2
<1>8. QED
  BY <1>2, <1>4, <1>5, <1>6, <1>7

(* A reset: nobody waits.                                                   *)
LEMMA ResetStep ==
  ASSUME ServedInv, NEW leftover, ResetAll(leftover)
  PROVE  ServedInv'
<1>1. /\ main' = [MainInit EXCEPT !.at = 0, !.reset_n = FALSE, !.aborted = leftover]
      /\ engine' = EngineReset /\ irq' = IrqReset
  BY DEF ResetAll
<1>2. MainShape' /\ MainControl'
  BY <1>1 DEF MainInit, MainShape, MainControl, MainWaiting
<1>3. IrqShape' /\ IrqControl'
  BY <1>1 DEF IrqReset, IrqInit, IrqShape, IrqControl, IrqWaiting
<1>4. EngineShape' /\ EngineControl' /\ ~EngineBusy'
  BY <1>1 DEF EngineReset, EngineInit, EngineShape, EngineControl, EngineBusy
<1>5. QED
  BY <1>2, <1>3, <1>4 DEF ServedInv, MainServed, IrqServed

(* Nobody waits at power-up.                                                *)
LEMMA InitServed == WirelessInit => ServedInv
<1> USE DEF WirelessInit
<1>1. WirelessInit => MainShape /\ MainControl
  BY DEF MainInit, MainShape, MainControl, MainWaiting
<1>2. WirelessInit => IrqShape /\ IrqControl
  BY DEF IrqInit, IrqShape, IrqControl, IrqWaiting
<1>3. WirelessInit => EngineShape /\ EngineControl /\ ~EngineBusy
  BY DEF EngineInit, EngineShape, EngineControl, EngineBusy
<1>4. QED
  BY <1>1, <1>2, <1>3 DEF ServedInv, MainServed, IrqServed

(* The end of an operation always finds the machine that asked for it       *)
(* waiting for it, with no bound on anything.                               *)
THEOREM DoneAlwaysTaken == WirelessSpec => []DoneTaken
<1>1. WirelessInit => ServedInv
  BY InitServed
<1>2. ServedInv /\ [WirelessNext]_vars => ServedInv'
  <2> SUFFICES ASSUME ServedInv, [WirelessNext]_vars
               PROVE  ServedInv'
    OBVIOUS
  <2>1. CASE Edge
    BY <2>1, EdgeStep
  <2>2. CASE OperationEnds
    BY <2>2, EndStep
  <2>3. CASE CtsError \/ NewConfig
    BY <2>3, ResetStep DEF CtsError, NewConfig
  <2>4. CASE UNCHANGED vars
    BY <2>4 DEF vars, ServedInv, MainShape, MainControl, IrqShape, IrqControl,
                EngineShape, EngineControl, MainServed, IrqServed, EngineBusy
  <2>5. QED
    BY <2>1, <2>2, <2>3, <2>4 DEF WirelessNext
<1>3. ServedInv => DoneTaken
  BY DEF ServedInv, MainServed, IrqServed, EngineBusy, DoneTaken, DoneFor, IrqControl, IrqWaiting
<1>4. QED
  BY <1>1, <1>2, <1>3, PTL DEF WirelessSpec

-----------------------------------------------------------------------------
(* The sending of a frame, as far as the properties need it: what each step *)
(* of the Main machine does, register by register.                          *)
Idle == {255, 0, 249, 2, 6, 40, 42, 50, 52, 53, 54, 56, 69, 77}

Keeps ==
  /\ main'.tx_state = main.tx_state /\ main'.len = main.len /\ main'.pos = main.pos
  /\ main'.remain = main.remain /\ main'.remain_flag = main.remain_flag
  /\ main'.aborted = main.aborted
KeepsFrame ==
  /\ main'.len = main.len /\ main'.remain_flag = main.remain_flag
  /\ main'.aborted = main.aborted

From(here, next) == main.at = here /\ main'.at = next
Walks(here, next) == From(here, next) /\ Keeps /\ main'.op = main.op
Orders(here, next, op) == From(here, next) /\ Keeps /\ main'.op = op
Takes(here, next) == From(here, next) /\ DoneForMain

(* Every edge of the Main machine is one of the following: setting the      *)
(* radio up, listening for packets, looking for a sync word in FIFO_I,      *)
(* fetching the length of a frame, filling the radio's FIFO, listening      *)
(* before talk, starting the transmission, entering TX, refilling, giving   *)
(* the frame up, back to RX, and waiting.                                   *)
SetsUp ==
  /\ main.at \in Idle \cup {60} /\ main'.at \in Idle
  /\ main'.tx_state \in {main.tx_state, "none"} /\ main'.aborted = main.aborted
  /\ main'.at = 56 => main'.op.name = "start_rx"
  /\ main'.at \in {6, 42, 52, 77} =>
       main'.op.name \in {"config", "fifo_reset", "state", "command"}
Listens ==
  \/ Takes(56, 60) /\ main'.tx_state = "RX" /\ main'.aborted = main.aborted
  \/ Takes(77, 60) /\ Keeps
Skips == /\ Takes(62, 60) /\ engine.word # SyncWord
         /\ main'.tx_state = main.tx_state /\ main'.aborted = (main.aborted /\ Leftover)
Fetches ==
  \/ ram.fifo_i # <<>> /\ Quiet /\ Orders(60, 62, Op("word", 1))
  \/ /\ Takes(62, 63) /\ engine.word = SyncWord /\ main'.tx_state = main.tx_state
     /\ ~main'.aborted
  \/ ram.fifo_i # <<>> /\ Orders(63, 65, Op("word", 1))
  \/ Takes(65, 66) /\ main'.len = engine.word /\ main'.tx_state = main.tx_state
     /\ main'.aborted = main.aborted
Fills ==
  \/ Walks(66, 70)
  \/ Orders(70, 72, Op("length", main.len))
  \/ Takes(72, 73) /\ Keeps
  \/ /\ From(73, 74) /\ main'.len = main.len /\ main'.tx_state = main.tx_state
     /\ main'.aborted = main.aborted
     /\ \/ /\ MAX_FIFO_SIZE > main.len /\ main'.pos = main.len
           /\ main'.op = Op("fill", main.len + 1) /\ ~main'.remain_flag
        \/ /\ ~(MAX_FIFO_SIZE > main.len) /\ main'.pos = MAX_FIFO_SIZE
           /\ main'.op = Op("fill", MAX_FIFO_SIZE + 1) /\ main'.remain_flag
  \/ Walks(74, 76)
  \/ Takes(76, 80) /\ Keeps
ListensFirst ==
  \/ Walks(80, 81) \/ Walks(81, 82) \/ Walks(82, 80) \/ Walks(81, 90)
Begins == Quiet /\ Orders(90, 92, Op("start_tx", 5))
Sends ==
  /\ Takes(92, 93) \/ Takes(103, 93)
  /\ main'.tx_state \in {"TX", "TX_WAIT"} /\ main'.pos = main.pos /\ KeepsFrame
Refills ==
  \/ /\ From(93, 100) /\ main.remain_flag /\ irq.almost_empty
     /\ main'.remain = main.len - main.pos /\ main'.pos = main.pos
     /\ main'.tx_state = main.tx_state /\ KeepsFrame
  \/ /\ From(100, 101) /\ main'.tx_state = main.tx_state /\ main'.len = main.len
     /\ main'.aborted = main.aborted
     /\ \/ /\ main.remain <= TX_THRESHOLD /\ main'.pos = main.len
           /\ main'.op = Op("fill", main.remain + 1) /\ ~main'.remain_flag
        \/ /\ ~(main.remain <= TX_THRESHOLD) /\ main'.pos = main.pos + TX_THRESHOLD
           /\ main'.op = Op("fill", TX_THRESHOLD + 1)
           /\ main'.remain_flag = main.remain_flag
  \/ Walks(101, 103)
GivesUp ==
  /\ From(93, 0) /\ main'.tx_state = "none" /\ main'.aborted = Leftover
  /\ ~irq.tx_done /\ ~(main.remain_flag /\ irq.almost_empty)
  /\ LongFrames \/ Stalled
Returns ==
  \/ ~(main.remain_flag /\ irq.almost_empty) /\ irq.tx_done /\ Walks(93, 95)
  \/ Orders(95, 97, Op("start_rx", 1))
  \/ Takes(97, 60) /\ main'.tx_state = "RX" /\ main'.aborted = main.aborted
Stands ==
  /\ main' = main
  /\ main.at \notin {73, 100, 40, 50, 53, 69, 0, 249}
  /\ main.at = 93 => ~irq.tx_done /\ ~(main.remain_flag /\ irq.almost_empty)
  /\ main.at \in MainWaiting => ~DoneForMain

MainDoes ==
  \/ SetsUp \/ Listens \/ Skips \/ Fetches \/ Fills \/ ListensFirst \/ Begins
  \/ Sends \/ Refills \/ GivesUp \/ Returns \/ Stands

(* The case statement of the Main machine does nothing else.                *)
LEMMA MainEdges ==
  ASSUME MainShape, MainStep
  PROVE  MainDoes
<1> USE DEF MainShape, Begin, Goes, Ended, From, Walks, Orders, Takes, Keeps, KeepsFrame
<1>1. CASE StartUp
  <2>1. ASSUME main.at = 0, NEW next \in {0, 249},
               main' = [main EXCEPT !.enable_irq = FALSE, !.tx_state = "none",
                                    !.start = FALSE, !.at = next]
        PROVE  SetsUp
    BY <2>1 DEF SetsUp, Idle
  <2>2. ASSUME main.at = 249, main' = [main EXCEPT !.reset_n = TRUE, !.at = 2]
        PROVE  SetsUp
    BY <2>2 DEF SetsUp, Idle
  <2>3. QED
    BY <1>1, <2>1, <2>2 DEF MainDoes, StartUp
<1>2. CASE Configure
  <2>1. ASSUME main.at = 2, main' = main
        PROVE  Stands
    BY <2>1 DEF Stands, MainWaiting
  <2>2. ASSUME main.at = 2, Begin(Op("config", 0), 6)
        PROVE  SetsUp
    BY <2>2 DEF SetsUp, Op, Idle
  <2>3. ASSUME main.at = 6, Ended(2)
        PROVE  SetsUp
    BY <2>3 DEF SetsUp, Op, Idle
  <2>4. ASSUME main.at = 6, Ended(40)
        PROVE  SetsUp
    BY <2>4 DEF SetsUp, Op, Idle
  <2>5. QED
    BY <1>2, <2>1, <2>2, <2>3, <2>4 DEF MainDoes, Configure
<1>3. CASE CheckAndListen
  <2>1. ASSUME main.at = 40, Begin(Op("fifo_reset", 2), 42)
        PROVE  SetsUp
    BY <2>1 DEF SetsUp, Op, Idle
  <2>2. ASSUME main.at = 42, Ended(50)
        PROVE  SetsUp
    BY <2>2 DEF SetsUp, Op, Idle
  <2>3. ASSUME main.at = 50, Begin(Op("state", 1), 52)
        PROVE  SetsUp
    BY <2>3 DEF SetsUp, Op, Idle
  <2>4. ASSUME main.at = 52, Ended(54)
        PROVE  SetsUp
    BY <2>4 DEF SetsUp, Op, Idle
  <2>5. ASSUME main.at = 52, Ended(53)
        PROVE  SetsUp
    BY <2>5 DEF SetsUp, Op, Idle
  <2>6. ASSUME main.at = 53, main' = [main EXCEPT !.reset_n = FALSE, !.at = 0]
        PROVE  SetsUp
    BY <2>6 DEF SetsUp, Op, Idle
  <2>7. ASSUME main.at = 54, Begin(Op("start_rx", 8), 56)
        PROVE  SetsUp
    BY <2>7 DEF SetsUp, Op, Idle
  <2>8. ASSUME main.at = 56, DoneForMain,
               main' = [main EXCEPT !.op = NoOp, !.start = FALSE, !.enable_irq = TRUE,
                                    !.tx_state = "RX", !.at = 60]
        PROVE  Listens
    BY <2>8 DEF Listens
  <2>9. QED
    BY <1>3, <2>1, <2>2, <2>3, <2>4, <2>5, <2>6, <2>7, <2>8 DEF MainDoes, CheckAndListen
<1>4. CASE SendCommand
  <2>1. ASSUME main.at = 60, NEW next \in {0, 69}, Goes(next)
        PROVE  SetsUp
    BY <2>1 DEF SetsUp, Op, Idle
  <2>2. ASSUME main.at = 69, Begin(Op("command", 0), 77)
        PROVE  SetsUp
    BY <2>2 DEF SetsUp, Op, Idle
  <2>3. ASSUME main.at = 77, Ended(60)
        PROVE  Listens
    BY <2>3 DEF Listens
  <2>4. QED
    BY <1>4, <2>1, <2>2, <2>3 DEF MainDoes, SendCommand, AfterLength
<1>5. CASE FetchFrame
  <2>1. ASSUME main.at = 60, ram.fifo_i # <<>>, Quiet, Begin(Op("word", 1), 62)
        PROVE  Fetches
    BY <2>1 DEF Fetches
  <2>2. ASSUME main.at = 62, DoneForMain, engine.word # SyncWord,
               main' = [main EXCEPT !.start = FALSE, !.op = NoOp,
                                  !.aborted = @ /\ Leftover, !.at = 60]
        PROVE  Skips
    BY <2>2 DEF Skips
  <2>3. ASSUME main.at = 62, DoneForMain, engine.word = SyncWord,
               main' = [main EXCEPT !.op = NoOp, !.start = FALSE, !.aborted = FALSE, !.at = 63]
        PROVE  Fetches
    BY <2>3 DEF Fetches
  <2>4. ASSUME main.at = 63, ram.fifo_i # <<>>, Begin(Op("word", 1), 65)
        PROVE  Fetches
    BY <2>4 DEF Fetches
  <2>5. ASSUME main.at = 65, DoneForMain,
               main' = [main EXCEPT !.op = NoOp, !.start = FALSE, !.len = engine.word, !.at = 66]
        PROVE  Fetches
    BY <2>5 DEF Fetches
  <2>6. ASSUME main.at = 66, Goes(70)
        PROVE  Fills
    BY <2>6 DEF Fills
  <2>7. ASSUME main.at = 70, Begin(Op("length", main.len), 72)
        PROVE  Fills
    BY <2>7 DEF Fills
  <2>8. ASSUME main.at = 72, Ended(73)
        PROVE  Fills
    BY <2>8 DEF Fills
  <2>9. QED
    BY <1>5, <2>1, <2>2, <2>3, <2>4, <2>5, <2>6, <2>7, <2>8 DEF MainDoes, FetchFrame
<1>6. CASE FillFifo
  <2>1. ASSUME main.at = 73, main' = FirstChunk
        PROVE  Fills
    BY <2>1 DEF Fills, FirstChunk, Op
  <2>2. ASSUME main.at = 74, Begin(main.op, 76)
        PROVE  Fills
    BY <2>2 DEF Fills, FirstChunk, Op
  <2>3. ASSUME main.at = 76, Ended(80)
        PROVE  Fills
    BY <2>3 DEF Fills, FirstChunk, Op
  <2>4. QED
    BY <1>6, <2>1, <2>2, <2>3 DEF MainDoes, FillFifo
<1>7. CASE ListenBeforeTalk
  <2>1. ASSUME main.at = 80, Goes(81)
        PROVE  ListensFirst
    BY <2>1 DEF ListensFirst
  <2>2. ASSUME main.at = 81, Goes(82)
        PROVE  ListensFirst
    BY <2>2 DEF ListensFirst
  <2>3. ASSUME main.at = 81, Goes(90)
        PROVE  ListensFirst
    BY <2>3 DEF ListensFirst
  <2>4. ASSUME main.at = 82, Goes(80)
        PROVE  ListensFirst
    BY <2>4 DEF ListensFirst
  <2>5. ASSUME main.at \in {81, 82}, main' = main
        PROVE  Stands
    BY <2>5 DEF Stands, MainWaiting
  <2>6. QED
    BY <1>7, <2>1, <2>2, <2>3, <2>4, <2>5 DEF MainDoes, ListenBeforeTalk
<1>8. CASE Transmit
  <2>1. ASSUME main.at = 90, Quiet, Begin(Op("start_tx", 5), 92)
        PROVE  Begins
    BY <2>1 DEF Begins
  <2>2. ASSUME main.at = 92, Sending
        PROVE  Sends
    BY <2>2 DEF Sends, Sending, TxState
  <2>3. QED
    BY <1>8, <2>1, <2>2 DEF MainDoes, Transmit
<1>9. CASE Supervise
  <2>1. ASSUME main.at = 93, main.remain_flag, irq.almost_empty,
               main' = [main EXCEPT !.remain = Remaining, !.at = 100]
        PROVE  Refills
    BY <2>1 DEF Refills, Remaining
  <2>2. ASSUME main.at = 93, ~(main.remain_flag /\ irq.almost_empty), irq.tx_done, Goes(95)
        PROVE  Returns
    BY <2>2 DEF Returns
  <2>3. ASSUME main.at = 93, ~(main.remain_flag /\ irq.almost_empty), ~irq.tx_done,
               main' = main
        PROVE  Stands
    BY <2>3 DEF Stands, MainWaiting
  <2>4. ASSUME main.at = 93, ~(main.remain_flag /\ irq.almost_empty), ~irq.tx_done, TimeOut
        PROVE  GivesUp
    BY <2>4 DEF GivesUp, TimeOut, MainInit
  <2>5. QED
    BY <1>9, <2>1, <2>2, <2>3, <2>4 DEF MainDoes, Supervise
<1>10. CASE Refill
  <2>1. ASSUME main.at = 100, main' = NextChunk
        PROVE  Refills
    BY <2>1 DEF Refills, NextChunk, Sending, TxState, Op
  <2>2. ASSUME main.at = 101, Begin(main.op, 103)
        PROVE  Refills
    BY <2>2 DEF Refills, NextChunk, Sending, TxState, Op
  <2>3. ASSUME main.at = 103, Sending
        PROVE  Sends
    BY <2>3 DEF Sends, NextChunk, Sending, TxState, Op
  <2>4. QED
    BY <1>10, <2>1, <2>2, <2>3 DEF MainDoes, Refill
<1>11. CASE BackToRx
  <2>1. ASSUME main.at = 95, Begin(Op("start_rx", 1), 97)
        PROVE  Returns
    BY <2>1 DEF Returns, Op
  <2>2. ASSUME main.at = 97, DoneForMain,
               main' = [main EXCEPT !.start = FALSE, !.op = NoOp, !.tx_state = "RX",
                             !.len = 0, !.pos = 0, !.remain = 0, !.at = 60]
        PROVE  Returns
    BY <2>2 DEF Returns, Op
  <2>3. QED
    BY <1>11, <2>1, <2>2 DEF MainDoes, BackToRx
<1>12. CASE MainWaits
  <2>1. MainStays
    BY <1>12, WaitsStay
  <2>a. \/ main.at \in {255, 60, 74, 80, 90, 54, 63, 70, 95, 101, 66}
        \/ main.at \in {6, 42, 52, 56, 62, 65, 72, 76, 77, 92, 97, 103}
    BY <1>12 DEF MainWaits
  <2>2. main.at \notin {93, 73, 100, 40, 50, 53, 69, 0, 249}
    BY <2>a
  <2>3. QED
    BY <2>1, <2>2 DEF MainStays, Stands, MainDoes
<1>13. QED
  BY <1>1, <1>2, <1>3, <1>4, <1>5, <1>6, <1>7, <1>8, <1>9, <1>10, <1>11, <1>12 DEF MainStep

TxStates == {93, 95, 97, 100, 101, 103}
OnAir    == {93, 100, 101, 103}
Prepared  == {80, 81, 82, 90, 92}
FirstPart(l) == IF MAX_FIFO_SIZE > l THEN l ELSE MAX_FIFO_SIZE

(* What the Main machine has asked for, by the state in which it waits.     *)
MainOps ==
  /\ main.at \in {62, 65} => main.op.name = "word"
  /\ main.at = 72 => main.op.name = "length" /\ main.op.len = main.len
  /\ main.at \in {74, 76, 101, 103} => main.op.name = "fill"
  /\ main.at = 92 => main.op.name = "start_tx"
  /\ main.at \in {56, 97} => main.op.name = "start_rx"
  /\ main.at \in {6, 42, 52, 77} =>
       main.op.name \in {"config", "fifo_reset", "state", "command"}

(* The parts in which it sends a frame: Data_Len, what of it has been       *)
(* handed to the radio, and the chunk asked for (with one byte for the      *)
(* command).                                                                *)
MainParts ==
  /\ main.at \in {66, 70, 72, 73, 74, 76} \cup Prepared \cup OnAir =>
       main.len \in FrameLengths
  /\ main.at \in {74, 76} => main.op.len = main.pos + 1
  /\ main.at \in {74, 76} \cup Prepared => main.pos = FirstPart(main.len)
  /\ main.at \in OnAir => main.pos \in Nat /\ main.pos <= main.len
  /\ main.at = 100 => main.remain = main.len - main.pos
  /\ main.at \in {101, 103} => main.op.len \in 1 .. TX_THRESHOLD + 1

(* TX_state says which states the Main machine is in, and the length that   *)
(* it is about to take is that of a frame.                                  *)
TxStateTells == main.tx_state \in {"TX", "TX_WAIT"} <=> main.at \in TxStates
HeadOfFrame == main.at = 65 /\ DoneForMain => engine.word \in FrameLengths

(* The FIFO of the radio and its threshold are numbers; no frame is empty.  *)
LEMMA Constants ==
  /\ TX_THRESHOLD \in Nat /\ MAX_FIFO_SIZE \in Nat
  /\ \A l \in FrameLengths : l \in Nat /\ l > 0
  BY WirelessAssumption

(* An edge of the Main machine keeps these facts about its own registers.   *)
LEMMA MainOwn ==
  ASSUME MainShape, MainStep, MainOps, MainParts, TxStateTells, HeadOfFrame
  PROVE  MainOps' /\ MainParts' /\ TxStateTells'
<1>c. /\ TX_THRESHOLD \in Nat /\ MAX_FIFO_SIZE \in Nat
      /\ \A l \in FrameLengths : l \in Nat /\ l > 0
  BY Constants
<1>m. MainDoes
  BY MainEdges
<1> USE DEF From, Takes, Walks, Orders, Keeps, KeepsFrame, Op
<1>1. MainOps'
  <2> USE DEF MainOps
  <2>1. CASE SetsUp
    BY <2>1 DEF SetsUp, Idle
  <2>2. CASE Listens \/ Skips \/ Fetches
    BY <2>2 DEF Listens, Skips, Fetches
  <2>3. CASE Fills
    BY <2>3 DEF Fills
  <2>4. CASE ListensFirst \/ Begins \/ Sends
    BY <2>4 DEF ListensFirst, Begins, Sends
  <2>5. CASE Refills \/ GivesUp \/ Returns
    BY <2>5 DEF Refills, GivesUp, Returns
  <2>6. CASE Stands
    BY <2>6 DEF Stands
  <2>7. QED
    BY <1>m, <2>1, <2>2, <2>3, <2>4, <2>5, <2>6 DEF MainDoes
<1>2. TxStateTells'
  <2> USE DEF TxStateTells, TxStates
  <2>1. CASE SetsUp
    BY <2>1 DEF SetsUp, Idle
  <2>2. CASE Listens \/ Skips \/ Fetches
    BY <2>2 DEF Listens, Skips, Fetches
  <2>3. CASE Fills
    BY <2>3 DEF Fills
  <2>4. CASE ListensFirst \/ Begins \/ Sends
    BY <2>4 DEF ListensFirst, Begins, Sends
  <2>5. CASE Refills \/ GivesUp \/ Returns
    BY <2>5 DEF Refills, GivesUp, Returns
  <2>6. CASE Stands
    BY <2>6 DEF Stands
  <2>7. QED
    BY <1>m, <2>1, <2>2, <2>3, <2>4, <2>5, <2>6 DEF MainDoes
<1>3. MainParts'
  <2> USE <1>c DEF MainParts, Prepared, OnAir, FirstPart
  <2>1. CASE SetsUp
    BY <2>1 DEF SetsUp, Idle
  <2>2. CASE Listens \/ Skips
    BY <2>2 DEF Listens, Skips
  <2>a. CASE Fetches
    <3>1. CASE Takes(65, 66) /\ main'.len = engine.word
      BY <3>1 DEF HeadOfFrame
    <3>2. CASE From(60, 62) \/ From(62, 63) \/ From(63, 65)
      BY <3>2
    <3>3. QED
      BY <2>a, <3>1, <3>2 DEF Fetches
  <2>3. CASE Fills
    BY <2>3 DEF Fills
  <2>4. CASE ListensFirst \/ Begins
    BY <2>4 DEF ListensFirst, Begins
  <2>b. CASE Sends
    BY <2>b DEF Sends
  <2>5. CASE Refills
    BY <2>5 DEF Refills
  <2>6. CASE GivesUp \/ Returns \/ Stands
    BY <2>6 DEF GivesUp, Returns, Stands
  <2>7. QED
    BY <1>m, <2>1, <2>2, <2>a, <2>3, <2>4, <2>b, <2>5, <2>6 DEF MainDoes
<1>4. QED
  BY <1>1, <1>2, <1>3

(* The Irq machine in the same way: the fields of its registers, what it    *)
(* asks the engine for, and the states of a reception.                      *)
IrqFields == {"at", "start", "op", "irq_dealing", "packets_incoming",
                "Data_Recv_Pos", "almost_full", "almost_empty", "tx_done",
                "watchdog", "Pkt_Start_flag", "Pkt_Received_flag",
                "Crc_Error_Rollback", "forced"}
IrqOps == {"int_status", "rssi", "sync", "head", "rest", "fifo_reset", "start_rx",
           "state"}
Receiving == {1, 2, 3} \cup 6 .. 24 \cup 27 .. 30

(* Where it arrives: the watchdog takes it to state 16, unless it does not. *)
Struck == irq'.at = 16 /\ irq'.forced /\ MayExpire /\ irq'.packets_incoming # 0
Arrives(next) == Struck \/ (irq'.at = next /\ (irq'.forced => irq.forced))
SameOp == irq'.start = irq.start /\ irq'.op = irq.op
SameFlags == irq'.tx_done = irq.tx_done /\ irq'.almost_empty = irq.almost_empty
SameTurn == irq'.irq_dealing = irq.irq_dealing
            /\ irq'.packets_incoming = irq.packets_incoming

(* Every edge of the Irq machine is one of the following: it stays, wakes   *)
(* up at an interrupt, goes on with a reception, ends it, takes the refill  *)
(* branch of state 3, the branch of a sent frame, another branch, or tells  *)
(* the Main machine (states 4, 5, 25 and 26).                               *)
IrqIdles ==
  /\ Arrives(irq.at) /\ SameOp /\ SameFlags /\ SameTurn
  /\ irq.at \notin {4, 25, 26} /\ (irq.at = 5 => main.tx_state # "RX")
IrqWakes ==
  /\ irq.at = 0 /\ Arrives(1) /\ irq'.irq_dealing /\ SameOp /\ SameFlags
  /\ irq'.packets_incoming = irq.packets_incoming
IrqReceives ==
  /\ irq.at \in Receiving /\ SameFlags /\ SameTurn
  /\ \E next \in Receiving : Arrives(next) /\ (irq.at \in 16 .. 24 => next \in 16 .. 24)
  /\ irq'.start => SameOp \/ irq'.op.name \in IrqOps
IrqRests ==
  /\ irq.at \in {24, 30} /\ Arrives(0) /\ ~irq'.irq_dealing /\ SameFlags
  /\ irq'.start => SameOp
IrqRefills ==
  /\ irq.at = 3 /\ Arrives(25) /\ Pending("almost_empty") /\ main.remain_flag
  /\ main.tx_state # "RX" /\ irq'.almost_empty /\ irq'.tx_done = irq.tx_done
  /\ SameTurn /\ ~irq'.start
IrqSent ==
  /\ irq.at = 3 /\ Arrives(4) /\ Pending("tx") /\ SameFlags /\ SameTurn /\ ~irq'.start
IrqBranches ==
  /\ irq.at = 3 /\ \E next \in Receiving \cup {0} : Arrives(next)
  /\ SameFlags /\ ~irq'.start
  /\ irq'.irq_dealing = irq.irq_dealing \/ (~irq'.irq_dealing /\ Arrives(0))
IrqTells ==
  \/ irq.at = 4 /\ Arrives(5) /\ irq'.tx_done /\ SameOp /\ SameTurn
     /\ irq'.almost_empty = irq.almost_empty
  \/ irq.at = 5 /\ main.tx_state = "RX" /\ Arrives(0) /\ ~irq'.tx_done
     /\ ~irq'.irq_dealing /\ SameOp /\ irq'.almost_empty = irq.almost_empty
  \/ irq.at = 25 /\ Arrives(26) /\ SameOp /\ SameFlags /\ SameTurn
  \/ irq.at = 26 /\ Arrives(0) /\ ~irq'.almost_empty /\ ~irq'.irq_dealing
     /\ SameOp /\ irq'.tx_done = irq.tx_done

IrqDoes ==
  \/ IrqIdles \/ IrqWakes \/ IrqReceives \/ IrqRests \/ IrqRefills \/ IrqSent
  \/ IrqBranches \/ IrqTells

(* What an edge leaves in irq if the watchdog does not strike: n.           *)
LEMMA Becoming ==
  ASSUME NEW n, Becomes(n), DOMAIN n = IrqFields
  PROVE  /\ irq'.start = n.start /\ irq'.op = n.op /\ irq'.irq_dealing = n.irq_dealing
         /\ irq'.packets_incoming = n.packets_incoming
         /\ irq'.tx_done = n.tx_done /\ irq'.almost_empty = n.almost_empty
         /\ Struck \/ (irq'.at = n.at /\ irq'.forced = n.forced)
<1>1. CASE irq' = n
  BY <1>1
<1>2. CASE n.packets_incoming # 0 /\ MayExpire
           /\ irq' = [n EXCEPT !.at = 16, !.watchdog = 3, !.forced = TRUE,
                         !.almost_full = FALSE, !.Data_Recv_Pos = 0]
  <2>1. /\ irq'.start = n.start /\ irq'.op = n.op /\ irq'.irq_dealing = n.irq_dealing
        /\ irq'.packets_incoming = n.packets_incoming
        /\ irq'.tx_done = n.tx_done /\ irq'.almost_empty = n.almost_empty
        /\ irq'.at = 16 /\ irq'.forced
    BY <1>2 DEF IrqFields
  <2>2. QED
    BY <1>2, <2>1 DEF Struck
<1>3. QED
  BY <1>1, <1>2 DEF Becomes

(* The same as one fact, for what n stands for in each state.               *)
Lands(n) ==
  /\ irq'.start = n.start /\ irq'.op = n.op /\ irq'.irq_dealing = n.irq_dealing
  /\ irq'.packets_incoming = n.packets_incoming
  /\ irq'.tx_done = n.tx_done /\ irq'.almost_empty = n.almost_empty
  /\ Arrives(n.at)

(* The case statements of the Irq machine do nothing else.                  *)
LEMMA IrqEdges ==
  ASSUME IrqShape, main.reset_n, IrqStep
  PROVE  IrqDoes
<1>d. DOMAIN irq = IrqFields
  BY DEF IrqShape, IrqFields
<1>b. ASSUME NEW n, Becomes(n), DOMAIN n = IrqFields, n.forced = irq.forced
      PROVE  Lands(n)
  BY <1>b, Becoming DEF Arrives, Lands
<1>q. ASSUME NEW op, NEW next, op.name \in IrqOps,
             irq.at \in Receiving, next \in Receiving,
             irq.at \in 16 .. 24 => next \in 16 .. 24,
             Request(op, next)
      PROVE  IrqReceives
  <2> DEFINE n == [irq EXCEPT !.start = TRUE, !.op = op, !.at = next]
  <2>1. /\ DOMAIN n = IrqFields /\ n.forced = irq.forced /\ n.at = next /\ n.op = op
        /\ n.irq_dealing = irq.irq_dealing
        /\ n.packets_incoming = irq.packets_incoming
        /\ n.tx_done = irq.tx_done /\ n.almost_empty = irq.almost_empty
    BY <1>d DEF IrqFields
  <2>2. Becomes(n)
    BY <1>q DEF Request
  <2> HIDE DEF n
  <2>3. QED
    BY <1>q, <2>1, <2>2, <1>b DEF Lands, IrqReceives, SameFlags, SameTurn
<1>o. \A name, len : Op(name, len).name = name
  BY DEF Op
<1> USE DEF SameOp, SameFlags, SameTurn, Receiving, IrqOps
<1>1. CASE WaitForInterrupt
  <2>1. ASSUME irq.at = 0, NEW n, n = [irq EXCEPT !.irq_dealing = TRUE, !.at = 1],
               Becomes(n)
        PROVE  IrqWakes
    <3>1. Lands(n)
      BY <2>1, <1>b, <1>d DEF IrqFields
    <3>2. QED
      BY <2>1, <3>1, <1>d DEF Lands, IrqWakes, IrqFields
  <2>2. QED
    BY <1>1, <2>1 DEF IrqDoes, WaitForInterrupt
<1>2. CASE AskStatus
  <2>1. ASSUME irq.at = 1, Request(Op("int_status", 4), 2)
        PROVE  IrqReceives
    BY <2>1, <1>q, <1>o
  <2>2. QED
    BY <1>2, <2>1 DEF IrqDoes, AskStatus
<1>3. CASE IrqEdge
  <2>1. ASSUME irq.at \in {2, 11, 14, 23, 28}, NEW n, n = [irq EXCEPT !.at = @ + 1],
               Becomes(n)
        PROVE  IrqReceives
    <3>1. Lands(n)
      BY <2>1, <1>b, <1>d DEF IrqFields
    <3>2. QED
      BY <2>1, <3>1, <1>d DEF Lands, IrqReceives, IrqFields
  <2>2. ASSUME irq.at = 25, NEW n, n = [irq EXCEPT !.at = @ + 1],
               Becomes(n)
        PROVE  IrqTells
    <3>1. Lands(n)
      BY <2>2, <1>b, <1>d DEF IrqFields
    <3>2. QED
      BY <2>2, <3>1, <1>d DEF Lands, IrqTells, IrqFields
  <2>3. ASSUME irq.at = 8, NEW n, n = [irq EXCEPT !.Pkt_Start_flag = FALSE, !.at = 9],
               Becomes(n)
        PROVE  IrqReceives
    <3>1. Lands(n)
      BY <2>3, <1>b, <1>d DEF IrqFields
    <3>2. QED
      BY <2>3, <3>1, <1>d DEF Lands, IrqReceives, IrqFields
  <2>4. ASSUME irq.at = 17, NEW n, n = [irq EXCEPT !.Crc_Error_Rollback = FALSE, !.at = 18],
               Becomes(n)
        PROVE  IrqReceives
    <3>1. Lands(n)
      BY <2>4, <1>b, <1>d DEF IrqFields
    <3>2. QED
      BY <2>4, <3>1, <1>d DEF Lands, IrqReceives, IrqFields
  <2>5. QED
    BY <1>3, <2>1, <2>2, <2>3, <2>4 DEF IrqDoes, IrqEdge
<1>4. CASE TxDone
  <2>1. ASSUME irq.at = 4, NEW n, n = [irq EXCEPT !.tx_done = TRUE, !.at = 5],
               Becomes(n)
        PROVE  IrqTells
    <3>1. Lands(n)
      BY <2>1, <1>b, <1>d DEF IrqFields
    <3>2. QED
      BY <2>1, <3>1, <1>d DEF Lands, IrqTells, IrqFields
  <2>2. ASSUME irq.at = 5, main.tx_state = "RX", NEW n, Becomes(n),
               n = [irq EXCEPT !.tx_done = FALSE, !.irq_dealing = FALSE, !.at = 0]
        PROVE  IrqTells
    <3>1. Lands(n)
      BY <2>2, <1>b, <1>d DEF IrqFields
    <3>2. QED
      BY <2>2, <3>1, <1>d DEF Lands, IrqTells, IrqFields
  <2>3. QED
    BY <1>4, <2>1, <2>2 DEF IrqDoes, TxDone
<1>5. CASE MarkPacket
  <2>1. ASSUME irq.at = 6, NEW n, n = [irq EXCEPT !.Pkt_Start_flag = TRUE, !.at = 7],
               Becomes(n)
        PROVE  IrqReceives
    <3>1. Lands(n)
      BY <2>1, <1>b, <1>d DEF IrqFields
    <3>2. QED
      BY <2>1, <3>1, <1>d DEF Lands, IrqReceives, IrqFields
  <2>2. ASSUME irq.at = 6, NEW n, n = [irq EXCEPT !.at = 16],
               Becomes(n)
        PROVE  IrqReceives
    <3>1. Lands(n)
      BY <2>2, <1>b, <1>d DEF IrqFields
    <3>2. QED
      BY <2>2, <3>1, <1>d DEF Lands, IrqReceives, IrqFields
  <2>3. QED
    BY <1>5, <2>1, <2>2 DEF IrqDoes, MarkPacket
<1>6. CASE AskRssi
  <2>1. ASSUME irq.at = 7, Request(Op("rssi", 1), 8)
        PROVE  IrqReceives
    BY <2>1, <1>q, <1>o
  <2>2. QED
    BY <1>6, <2>1 DEF IrqDoes, AskRssi
<1>7. CASE StoreSync
  <2>1. ASSUME irq.at = 10, Request(Op("sync", 2), 11)
        PROVE  IrqReceives
    BY <2>1, <1>q, <1>o
  <2>2. QED
    BY <1>7, <2>1 DEF IrqDoes, StoreSync
<1>8. CASE ReadMore
  <2> DEFINE pos == (irq.Data_Recv_Pos + RX_THRESHOLD) % 256
             n == [irq EXCEPT !.start = TRUE, !.op = Op("rest", RX_THRESHOLD),
                              !.Data_Recv_Pos = pos, !.at = 28]
  <2>1. irq.at = 27 /\ Becomes(n)
    BY <1>8 DEF ReadMore
  <2> HIDE DEF pos
  <2>2. /\ DOMAIN n = IrqFields /\ n.forced = irq.forced /\ n.at = 28
        /\ n.op = Op("rest", RX_THRESHOLD) /\ n.irq_dealing = irq.irq_dealing
        /\ n.packets_incoming = irq.packets_incoming
        /\ n.tx_done = irq.tx_done /\ n.almost_empty = irq.almost_empty
    BY <1>d DEF IrqFields
  <2> HIDE DEF n
  <2>3. IrqReceives
    BY <2>1, <2>2, <1>b, <1>o DEF Lands, IrqReceives
  <2>4. QED
    BY <2>3 DEF IrqDoes
<1>9. CASE EndChunk
  <2>1. ASSUME irq.at = 30, NEW n, Becomes(n),
               n = [irq EXCEPT !.almost_full = FALSE, !.irq_dealing = FALSE, !.at = 0]
        PROVE  IrqRests
    <3>1. Lands(n)
      BY <2>1, <1>b, <1>d DEF IrqFields
    <3>2. QED
      BY <2>1, <3>1, <1>d DEF Lands, IrqRests, IrqFields
  <2>2. QED
    BY <1>9, <2>1 DEF IrqDoes, EndChunk
<1>10. CASE ResetFifos
  <2>1. ASSUME irq.at = 16, Request(Op("fifo_reset", 2), 17)
        PROVE  IrqReceives
    BY <2>1, <1>q, <1>o
  <2>2. QED
    BY <1>10, <2>1 DEF IrqDoes, ResetFifos
<1>11. CASE AnnouncePacket
  <2>1. ASSUME irq.at = 19, NEW n, n = [irq EXCEPT !.Pkt_Received_flag = TRUE, !.at = 20],
               Becomes(n)
        PROVE  IrqReceives
    <3>1. Lands(n)
      BY <2>1, <1>b, <1>d DEF IrqFields
    <3>2. QED
      BY <2>1, <3>1, <1>d DEF Lands, IrqReceives, IrqFields
  <2>2. QED
    BY <1>11, <2>1 DEF IrqDoes, AnnouncePacket
<1>12. CASE StartRx
  <2> DEFINE n == [irq EXCEPT !.Pkt_Received_flag = FALSE, !.forced = FALSE, !.start = TRUE,
                              !.op = Op("start_rx", 1), !.at = 21]
  <2>1. irq.at = 20 /\ Becomes(n)
    BY <1>12 DEF StartRx
  <2>2. /\ DOMAIN n = IrqFields /\ ~n.forced /\ n.at = 21
        /\ n.op = Op("start_rx", 1) /\ n.irq_dealing = irq.irq_dealing
        /\ n.packets_incoming = irq.packets_incoming
        /\ n.tx_done = irq.tx_done /\ n.almost_empty = irq.almost_empty
    BY <1>d DEF IrqFields
  <2> HIDE DEF n
  <2>3. /\ irq'.op = n.op /\ irq'.irq_dealing = n.irq_dealing
        /\ irq'.packets_incoming = n.packets_incoming
        /\ irq'.tx_done = n.tx_done /\ irq'.almost_empty = n.almost_empty
        /\ Struck \/ (irq'.at = n.at /\ irq'.forced = n.forced)
    BY <2>1, <2>2, Becoming
  <2>4. IrqReceives
    BY <2>1, <2>2, <2>3, <1>o DEF IrqReceives, Arrives
  <2>5. QED
    BY <2>4 DEF IrqDoes
<1>13. CASE AskState
  <2>1. ASSUME irq.at = 22, Request(Op("state", 1), 23)
        PROVE  IrqReceives
    BY <2>1, <1>q, <1>o
  <2>2. QED
    BY <1>13, <2>1 DEF IrqDoes, AskState
<1>14. CASE EndAlmostEmpty
  <2>1. ASSUME irq.at = 26, NEW n, Becomes(n),
               n = [irq EXCEPT !.almost_empty = FALSE, !.irq_dealing = FALSE, !.at = 0]
        PROVE  IrqTells
    <3>1. Lands(n)
      BY <2>1, <1>b, <1>d DEF IrqFields
    <3>2. QED
      BY <2>1, <3>1, <1>d DEF Lands, IrqTells, IrqFields
  <2>2. QED
    BY <1>14, <2>1 DEF IrqDoes, EndAlmostEmpty
<1>15. CASE EndReception
  <2>1. ASSUME irq.at = 24, NEW n, Becomes(n),
               n = [irq EXCEPT !.start = FALSE, !.op = NoOp, !.packets_incoming = 0,
                               !.Data_Recv_Pos = 0, !.watchdog = 3, !.irq_dealing = FALSE,
                               !.almost_full = FALSE, !.at = 0]
        PROVE  IrqRests
    <3>1. Lands(n)
      BY <2>1, <1>b, <1>d DEF IrqFields
    <3>2. QED
      BY <2>1, <3>1, <1>d DEF Lands, IrqRests, IrqFields
  <2>2. ASSUME irq.at = 24, NEW n, n = [irq EXCEPT !.start = FALSE, !.op = NoOp, !.at = 19],
               Becomes(n)
        PROVE  IrqReceives
    <3>1. Lands(n)
      BY <2>2, <1>b, <1>d DEF IrqFields
    <3>2. QED
      BY <2>2, <3>1, <1>d DEF Lands, IrqReceives, IrqFields
  <2>3. QED
    BY <1>15, <2>1, <2>2 DEF IrqDoes, EndReception
<1>16. CASE ReadChunk
  <2> DEFINE op == IF irq.almost_full THEN HeadChunk
                   ELSE IF irq.packets_incoming = 1 THEN Op("head", 0) ELSE LastChunk
             pos == IF irq.almost_full THEN irq.Data_Recv_Pos + RX_THRESHOLD - 1
                    ELSE irq.Data_Recv_Pos
             n == [irq EXCEPT !.start = TRUE, !.op = op, !.at = 14, !.Data_Recv_Pos = pos]
  <2>1. irq.at = 13 /\ Becomes(n)
    BY <1>16 DEF ReadChunk
  <2>2. op.name \in {"head", "rest"}
    BY <1>o DEF HeadChunk, LastChunk
  <2> HIDE DEF op, pos
  <2>3. DOMAIN n = IrqFields /\ n.forced = irq.forced /\ n.at = 14 /\ n.op = op
    BY <1>d DEF IrqFields
  <2>4. /\ n.irq_dealing = irq.irq_dealing
        /\ n.packets_incoming = irq.packets_incoming
        /\ n.tx_done = irq.tx_done /\ n.almost_empty = irq.almost_empty
    BY <1>d DEF IrqFields
  <2> HIDE DEF n
  <2>5. IrqReceives
    BY <2>1, <2>2, <2>3, <2>4, <1>b DEF Lands, IrqReceives
  <2>6. QED
    BY <2>5 DEF IrqDoes
<1>17. CASE ChunkRead \/ IrqAnswered
  <2>1. ASSUME NEW next \in {30, 19, 10, 13, 22, 20},
               irq.at \in {9, 12, 15, 21, 29} \/ (irq.at = 18 /\ next = 20),
               irq.at = 21 => next = 22,
               Answered(next)
        PROVE  IrqReceives
    <3> DEFINE n == [irq EXCEPT !.start = FALSE, !.op = NoOp, !.at = next]
    <3>1. /\ DOMAIN n = IrqFields /\ n.forced = irq.forced /\ n.at = next /\ ~n.start
          /\ n.irq_dealing = irq.irq_dealing
          /\ n.packets_incoming = irq.packets_incoming
          /\ n.tx_done = irq.tx_done /\ n.almost_empty = irq.almost_empty
      BY <1>d DEF IrqFields
    <3>2. Becomes(n)
      BY <2>1 DEF Answered
    <3> HIDE DEF n
    <3>3. QED
      BY <2>1, <3>1, <3>2, <1>b DEF Lands, IrqReceives
  <2>2. CASE ChunkRead
    <3>1. PICK next \in {30, 19} : irq.at = 15 /\ Answered(next)
      BY <2>2 DEF ChunkRead
    <3>2. IrqReceives
      BY <2>1, <3>1
    <3>3. QED
      BY <3>2 DEF IrqDoes
  <2>3. CASE IrqAnswered
    <3>1. CASE irq.at = 18 /\ Answered(20)
      BY <3>1, <2>1 DEF IrqDoes
    <3>2. ASSUME NEW here \in {9, 12, 21, 29}, irq.at = here, Answered(here + 1)
          PROVE  IrqReceives
      <4>1. here + 1 \in {30, 10, 13, 22} /\ (here = 21 => here + 1 = 22)
        OBVIOUS
      <4>2. QED
        BY <3>2, <4>1, <2>1
    <3>3. QED
      BY <2>3, <3>1, <3>2 DEF IrqAnswered, IrqDoes
  <2>4. QED
    BY <1>17, <2>2, <2>3
<1>18. CASE IrqWaits
  <2>1. Becomes(irq)
    BY <1>18 DEF IrqWaits
  <2>2. irq.at \notin {4, 25, 26} /\ (irq.at = 5 => main.tx_state # "RX")
    BY <1>18 DEF IrqWaits
  <2>3. IrqIdles
    BY <2>1, <2>2, <1>b, <1>d DEF Lands, IrqIdles
  <2>4. QED
    BY <2>3 DEF IrqDoes
<1>19. CASE Classify
  <2>0. irq.at = 3
    BY <1>19 DEF Classify
  <2>i. ASSUME NEW kind, NEW m, Interrupted(kind, m), DOMAIN m = IrqFields,
               m.forced = irq.forced
        PROVE  /\ ~irq'.start /\ irq'.irq_dealing = m.irq_dealing
               /\ irq'.packets_incoming = m.packets_incoming
               /\ irq'.tx_done = m.tx_done /\ irq'.almost_empty = m.almost_empty
               /\ Arrives(m.at) /\ Kind = kind
    <3> DEFINE n == [m EXCEPT !.start = FALSE, !.op = NoOp]
    <3>1. /\ DOMAIN n = IrqFields /\ n.forced = irq.forced /\ n.at = m.at /\ ~n.start
          /\ n.irq_dealing = m.irq_dealing
          /\ n.packets_incoming = m.packets_incoming
          /\ n.tx_done = m.tx_done /\ n.almost_empty = m.almost_empty
      BY <2>i DEF IrqFields
    <3>2. Becomes(n) /\ Kind = kind
      BY <2>i DEF Interrupted
    <3> HIDE DEF n
    <3>3. QED
      BY <3>1, <3>2, <1>b DEF Lands
  <2>1. ASSUME Interrupted("almost_empty", [irq EXCEPT !.almost_empty = TRUE, !.at = 25])
        PROVE  IrqRefills
    <3> DEFINE m == [irq EXCEPT !.almost_empty = TRUE, !.at = 25]
    <3>1. /\ DOMAIN m = IrqFields /\ m.forced = irq.forced /\ m.at = 25 /\ m.almost_empty
          /\ m.irq_dealing = irq.irq_dealing /\ m.tx_done = irq.tx_done
          /\ m.packets_incoming = irq.packets_incoming
      BY <1>d DEF IrqFields
    <3>2. Interrupted("almost_empty", m)
      BY <2>1
    <3> HIDE DEF m
    <3>3. Kind = "almost_empty" =>
           Pending("almost_empty") /\ main.tx_state # "RX" /\ main.remain_flag
      BY DEF Kind
    <3>4. QED
      BY <3>1, <3>2, <3>3, <2>i, <2>0 DEF IrqRefills
  <2>2. ASSUME Interrupted("tx", [irq EXCEPT !.at = 4])
        PROVE  IrqSent
    <3> DEFINE m == [irq EXCEPT !.at = 4]
    <3>1. /\ DOMAIN m = IrqFields /\ m.forced = irq.forced /\ m.at = 4
          /\ m.almost_empty = irq.almost_empty
          /\ m.irq_dealing = irq.irq_dealing /\ m.tx_done = irq.tx_done
          /\ m.packets_incoming = irq.packets_incoming
      BY <1>d DEF IrqFields
    <3>2. Interrupted("tx", m)
      BY <2>2
    <3> HIDE DEF m
    <3>3. Kind = "tx" => Pending("tx")
      BY DEF Kind
    <3>4. QED
      BY <3>1, <3>2, <3>3, <2>i, <2>0 DEF IrqSent
  <2>3. ASSUME NEW kind, NEW m, Interrupted(kind, m), DOMAIN m = IrqFields,
               m.forced = irq.forced, m.at \in Receiving \cup {0},
               m.tx_done = irq.tx_done, m.almost_empty = irq.almost_empty,
               m.irq_dealing = irq.irq_dealing \/ (~m.irq_dealing /\ m.at = 0)
        PROVE  IrqBranches
    BY <2>3, <2>i, <2>0 DEF IrqBranches
  <2>4. \A later \in {13, 27} : ByPacket(later) \in Receiving
    BY DEF ByPacket
  <2> HIDE DEF Receiving
  <2>5. {0, 16} \subseteq Receiving \cup {0}
    BY DEF Receiving
  <2>6. CrcInterrupt => IrqBranches
    BY <2>3, <2>5, <1>d DEF CrcInterrupt, IrqFields
  <2>7. ASSUME Interrupted("almost_full", [irq EXCEPT !.almost_full = TRUE,
                       !.at = ByPacket(27),
                       !.packets_incoming = IF @ = 0 THEN 0 ELSE (@ + 1) % 16])
        PROVE  IrqBranches
    BY <2>7, <2>3, <2>4, <1>d DEF IrqFields
  <2>8. Interrupted("rx", [irq EXCEPT !.almost_full = FALSE, !.at = ByPacket(13)]) => IrqBranches
    BY <2>3, <2>4, <1>d DEF IrqFields
  <2>9. Interrupted("sync", [irq EXCEPT !.packets_incoming = 1, !.watchdog = 0,
                                        !.Data_Recv_Pos = 0, !.at = 0]) => IrqBranches
    BY <2>3, <2>5, <1>d DEF IrqFields
  <2>10. Interrupted("none", [irq EXCEPT !.irq_dealing = FALSE, !.at = 0]) => IrqBranches
    BY <2>3, <2>5, <1>d DEF IrqFields
  <2>11. QED
    BY <1>19, <2>1, <2>2, <2>6, <2>7, <2>8, <2>9, <2>10 DEF Classify, IrqDoes
<1>20. QED
  BY <1>1, <1>2, <1>3, <1>4, <1>5, <1>6, <1>7, <1>8, <1>9, <1>10, <1>11, <1>12, <1>13,
     <1>14, <1>15, <1>16, <1>17, <1>18, <1>19 DEF IrqStep

(* The radio and the SRAM: their fields, and FIFO_I as a queue of words.    *)
RamShape == DOMAIN ram = {"fifo_i", "words", "marked"}
RadioShape ==
  /\ DOMAIN radio = {"mode", "receiving", "air", "len", "rxfifo", "txfifo", "txlen",
                     "sent", "pending"}
  /\ radio.txfifo \in Nat /\ radio.sent \in Nat
Queue == ram.fifo_i

(* The engine holds interrupts only at the end of the status it has read,   *)
(* and not for the Main machine; what it runs for the Irq machine is one of *)
(* that machine's operations.                                               *)
PendingShort ==
  engine.pending # {} => engine.at = 0 /\ engine.owner # "main" /\ main.at # 0
EngineOps ==
  /\ irq.start => irq.op.name \in IrqOps
  /\ engine.at = 52 /\ engine.owner = "int" => engine.op.name \in IrqOps

(* The CPU writes into FIFO_I whole frames, in Main state 60.               *)
QueueGrows ==
  \/ Queue' = Queue
  \/ main.at = 60 /\ \E l \in FrameLengths : Queue' = Queue \o FrameWords(l)

(* What the radio does by itself.                                           *)
NoNews == /\ "tx" \in radio'.pending => "tx" \in radio.pending
          /\ "almost_empty" \in radio'.pending => "almost_empty" \in radio.pending
Unseen ==
  /\ radio'.txfifo = radio.txfifo /\ radio'.txlen = radio.txlen /\ radio'.sent = radio.sent
  /\ radio'.mode = "tx" => radio.mode = "tx"
  /\ NoNews
ByteOut ==
  /\ radio.mode = "tx" /\ radio.txfifo > 0 /\ radio.sent < radio.txlen
  /\ radio'.sent = radio.sent + 1 /\ radio'.txfifo = radio.txfifo - 1
  /\ radio'.mode = "tx" /\ radio'.txlen = radio.txlen
  /\ "tx" \in radio'.pending => "tx" \in radio.pending
  /\ "almost_empty" \in radio'.pending =>
       "almost_empty" \in radio.pending \/ radio'.txfifo = MAX_FIFO_SIZE - TX_THRESHOLD
FrameOut ==
  /\ radio.mode = "tx" /\ radio.sent = radio.txlen
  /\ radio'.sent = radio.sent /\ radio'.txfifo = radio.txfifo
  /\ radio'.mode = "ready"
  /\ "almost_empty" \in radio'.pending => "almost_empty" \in radio.pending

(* By itself the radio sends a byte, ends a frame, or does nothing that the *)
(* transmission sees.                                                       *)
LEMMA RadioEdges ==
  ASSUME RadioShape, RadioEvent
  PROVE  /\ Unseen \/ ByteOut \/ FrameOut
         /\ RadioShape'
         /\ main.at # 0 /\ engine.at \in {52, 53, 54}
<1>0. main.at # 0 /\ engine.at \in {52, 53, 54}
  BY DEF RadioEvent, EngineIdle
<1>1. CASE SyncDetected
  <2>1. PICK l : radio' = [radio EXCEPT !.receiving = TRUE, !.len = l, !.air = l + 1,
                              !.pending = @ \cup {"sync"}]
    BY <1>1 DEF SyncDetected
  <2>2. QED
    BY <2>1, <1>0 DEF RadioShape, Unseen, NoNews
<1>2. CASE ByteReceived
  <2>1. PICK p \in {radio.pending, radio.pending \cup {"almost_full"}} :
          radio' = [radio EXCEPT !.air = @ - 1, !.rxfifo = @ + 1, !.pending = p]
    BY <1>2 DEF ByteReceived
  <2>2. QED
    BY <2>1, <1>0 DEF RadioShape, Unseen, NoNews
<1>3. CASE PacketEnds
  <2>1. PICK end \in {"rx", "crc"} :
          radio' = [radio EXCEPT !.receiving = FALSE, !.mode = "ready",
                              !.pending = @ \cup {end}]
    BY <1>3 DEF PacketEnds
  <2>2. QED
    BY <2>1, <1>0 DEF RadioShape, Unseen, NoNews
<1>4. CASE FalseSync
  BY <1>4, <1>0 DEF FalseSync, RadioShape, Unseen, NoNews
<1>5. CASE Tuned
  BY <1>5, <1>0 DEF Tuned, RadioShape, Unseen, NoNews
<1>6. CASE ByteSent
  <2>1. radio.mode = "tx" /\ radio.txfifo > 0 /\ radio.sent < radio.txlen
    BY <1>6 DEF ByteSent
  <2>2. PICK p : /\ p = radio.pending \/ (p = radio.pending \cup {"almost_empty"}
                       /\ radio.txfifo - 1 = MAX_FIFO_SIZE - TX_THRESHOLD)
                 /\ radio' = [radio EXCEPT !.sent = @ + 1, !.txfifo = @ - 1, !.pending = p]
    BY <1>6 DEF ByteSent
  <2>3. /\ radio'.sent = radio.sent + 1 /\ radio'.txfifo = radio.txfifo - 1
        /\ radio'.mode = "tx" /\ radio'.txlen = radio.txlen /\ radio'.pending = p
        /\ DOMAIN radio' = DOMAIN radio
    BY <2>1, <2>2 DEF RadioShape
  <2>4. ByteOut
    BY <2>1, <2>2, <2>3 DEF ByteOut
  <2>5. RadioShape'
    BY <2>1, <2>3 DEF RadioShape
  <2>6. QED
    BY <2>4, <2>5, <1>0
<1>7. CASE FrameSent
  <2>1. /\ radio.mode = "tx" /\ radio.sent = radio.txlen
        /\ radio' = [radio EXCEPT !.mode = "ready", !.txlen = 0,
                             !.pending = @ \cup {"tx"}]
    BY <1>7 DEF FrameSent
  <2>2. QED
    BY <2>1, <1>0 DEF RadioShape, FrameOut
<1>8. QED
  BY <1>1, <1>2, <1>3, <1>4, <1>5, <1>6, <1>7 DEF RadioEvent

(* The mark and the words behind it are not FIFO_I.                         *)
LEMMA RamKeeps ==
  ASSUME NEW r, RamBecomes(r), DOMAIN r = {"fifo_i", "words", "marked"}
  PROVE  RamShape' /\ Queue' = r.fifo_i
<1>1. PICK words, marked : ram' = [r EXCEPT !.marked = marked, !.words = words]
  BY DEF RamBecomes
<1>2. QED
  BY <1>1 DEF RamShape, Queue

(* What the radio, the CPU and SRAM_ctrl do at an edge.                     *)
LEMMA EdgeOutside ==
  ASSUME RamShape, RadioShape, EngineStep
  PROVE  /\ RamShape' /\ RadioShape' /\ QueueGrows
         /\ \/ main.at = 0 /\ radio' = RadioOff
            \/ main.at # 0 /\ radio' = radio
            \/ /\ main.at # 0 /\ engine.at # 0
               /\ Unseen \/ ByteOut \/ FrameOut
<1>1. Outside
  BY DEF EngineStep, Clear, Choose, Run, HeldInReset
<1>2. ASSUME RadioBecomes(radio)
      PROVE  /\ RadioShape'
             /\ (main.at = 0 /\ radio' = RadioOff) \/ (main.at # 0 /\ radio' = radio)
  BY <1>2 DEF RadioBecomes, RadioShape, RadioOff
<1>3. ASSUME RamBecomes(ram)
      PROVE  RamShape' /\ Queue' = Queue
  BY <1>3, RamKeeps DEF RamShape, Queue
<1>4. CASE RadioEvent /\ RamBecomes(ram)
  BY <1>4, <1>3, RadioEdges DEF QueueGrows
<1>5. CASE SlaveStores /\ RadioBecomes(radio)
  <2>1. PICK l \in FrameLengths :
          main.at = 60 /\ RamBecomes([ram EXCEPT !.fifo_i = @ \o FrameWords(l)])
    BY <1>5 DEF SlaveStores
  <2> DEFINE q == Queue \o FrameWords(l)
             r == [ram EXCEPT !.fifo_i = q]
  <2>2. RamBecomes(r)
    BY <2>1 DEF Queue
  <2> HIDE DEF q
  <2>3. DOMAIN r = {"fifo_i", "words", "marked"} /\ r.fifo_i = q
    BY DEF RamShape
  <2> HIDE DEF r
  <2>4. RamShape' /\ Queue' = q
    BY <2>2, <2>3, RamKeeps
  <2>5. QED
    BY <2>1, <2>4, <1>5, <1>2 DEF QueueGrows, q
<1>6. CASE RadioBecomes(radio) /\ RamBecomes(ram)
  BY <1>6, <1>2, <1>3 DEF QueueGrows
<1>7. QED
  BY <1>1, <1>4, <1>5, <1>6 DEF Outside

(* What the engine does at an edge.                                         *)
LEMMA EdgeEngine ==
  ASSUME EngineShape, EngineControl, EngineStep, PendingShort, EngineOps
  PROVE  /\ engine'.pending = {} /\ ~DoneForMain'
         /\ engine'.at = 52 /\ engine'.owner = "int" => engine'.op.name \in IrqOps
<1> USE DEF EngineShape, EngineControl, PendingShort, DoneForMain, DoneFor
<1>1. CASE HeldInReset
  BY <1>1 DEF HeldInReset, EngineReset, EngineInit
<1>2. CASE Clear
  BY <1>2 DEF Clear
<1>3. CASE Choose
  <2>1. CASE main.start /\ Accept("main", main.op)
    BY <2>1, <1>3 DEF Choose, Accept
  <2>2. CASE irq.start /\ Accept("int", irq.op)
    BY <2>2, <1>3 DEF Choose, Accept, EngineOps
  <2>3. CASE engine' = engine
    BY <2>3, <1>3 DEF Choose, EngineOps
  <2>4. QED
    BY <1>3, <2>1, <2>2, <2>3 DEF Choose
<1>4. CASE Run
  BY <1>4 DEF Run, EngineOps
<1>5. QED
  BY <1>1, <1>2, <1>3, <1>4 DEF EngineStep

(* The end of an operation: what it leaves in the engine and in the queue.  *)
LEMMA EndEngine ==
  ASSUME EngineShape, EngineControl, RamShape, Finish
  PROVE  /\ engine'.pending = IF engine.op.name = "int_status" THEN radio.pending ELSE {}
         /\ engine'.word = IF engine.op.name = "word" THEN Head(Queue) ELSE DataWord
         /\ engine'.at = 0 /\ engine'.owner = engine.owner
         /\ DoneForMain' <=> engine.owner = "main"
         /\ engine.owner \in {"main", "int"} /\ ~DoneForMain
         /\ RamShape'
         /\ Queue' = CASE engine.op.name = "word" -> Tail(Queue)
                       [] engine.op.name = "fill" ->
                            SubSeq(Queue, FilledWords(engine.op) + 1, Len(Queue))
                       [] OTHER -> Queue
<1>1. engine.at = 52 /\ engine' = WithAnswer(engine.op)
  BY DEF Finish
<1>2. /\ engine'.pending = IF engine.op.name = "int_status" THEN radio.pending ELSE {}
      /\ engine'.word = IF engine.op.name = "word" THEN Head(Queue) ELSE DataWord
      /\ engine'.at = 0 /\ engine'.owner = engine.owner /\ engine'.spi_op_done
  BY <1>1 DEF WithAnswer, EngineShape, Queue
<1>3. engine.owner \in {"main", "int"} /\ ~DoneForMain
  BY <1>1 DEF EngineControl, DoneForMain, DoneFor
<1>4. /\ DOMAIN RamAfter(engine.op) = {"fifo_i", "words", "marked"}
      /\ RamAfter(engine.op).fifo_i =
           CASE engine.op.name = "word" -> Tail(Queue)
             [] engine.op.name = "fill" ->
                  SubSeq(Queue, FilledWords(engine.op) + 1, Len(Queue))
             [] OTHER -> Queue
  BY DEF RamAfter, RamShape, Queue
<1>5. RamBecomes(RamAfter(engine.op))
  BY DEF Finish
<1>6. QED
  BY <1>2, <1>3, <1>4, <1>5, RamKeeps DEF DoneForMain, DoneFor

(* The radio r has room for a chunk of a refill; it has sent the whole      *)
(* frame of the registers m of the Main machine.                            *)
Low(r) == r.txfifo <= MAX_FIFO_SIZE - TX_THRESHOLD
AllSent(m, r) == r.sent = m.len /\ m.pos = m.len /\ r.txfifo = 0 /\ r.mode # "tx"

Supervised == TxStates \cup {92}

(* An Irq machine that works without irq_dealing was taken to the end of a  *)
(* packet by the watchdog, and in a transmission none is.                   *)
Turns ==
  /\ irq.at # 0 /\ ~irq.irq_dealing => irq.packets_incoming # 0 /\ irq.at \in 16 .. 24
  /\ main.at \in Supervised => ~irq.forced /\ (irq.at # 0 => irq.irq_dealing)
(* What each pulse of the Irq machine, tx_done and almost_empty, and the    *)
(* states around it say of the Main machine.                                *)
Pulses ==
  /\ irq.tx_done <=> irq.at = 5
  /\ irq.almost_empty <=> irq.at \in {25, 26}
  /\ irq.at = 4 => main.at \in {93, 101, 103}
  /\ irq.at = 5 => main.at \in TxStates \/ (main.at = 60 /\ main.tx_state = "RX")
  /\ irq.at = 25 => main.at = 93 /\ main.remain_flag
  /\ irq.at = 26 => main.at = 100
  /\ main.at \in {95, 97} => irq.at = 5

(* What the interrupts of the radio, and those the engine has just read,    *)
(* say of the Main machine.                                                 *)
Notified(m, r, pending) ==
  /\ "tx" \in pending => m.at \in OnAir \cup {0} /\ (m.at # 0 => AllSent(m, r))
  /\ "almost_empty" \in pending => m.at \in {0, 93} /\ (m.at # 0 => Low(r))
ReadOnce ==
  /\ "tx" \in engine.pending =>
       "tx" \notin radio.pending /\ "almost_empty" \notin radio.pending
  /\ "almost_empty" \in engine.pending => "almost_empty" \notin radio.pending
Answering(i, m, r) ==
  /\ i.at \in {4, 5} =>
       /\ "tx" \notin r.pending /\ "almost_empty" \notin r.pending /\ r.mode # "tx"
       /\ m.at \notin {97, 60} => AllSent(m, r)
  /\ i.at = 25 => "almost_empty" \notin r.pending /\ Low(r)

(* The watchdog does not strike during a transmission that is short.        *)
LEMMA NotStruck ==
  ASSUME LongFrames = FALSE, TxStateTells, main.at \in Supervised
  PROVE  ~MayExpire
  BY DEF TxStateTells, MayExpire, Supervised

(* Out of the states of a transmission.                                     *)
LEMMA TurnsOutside ==
  ASSUME IrqControl, MainDoes, IrqDoes, Turns, Pulses, TxStateTells, PendingShort,
         Notified(main, radio, engine.pending), main.at \notin Supervised
  PROVE  Turns' /\ Pulses' /\ irq'.at \notin {4, 5, 25}
<1>1. irq.at \notin {4, 25, 26} /\ (irq.at = 5 => main.tx_state = "RX")
  BY DEF Pulses, Supervised, TxStates
<1>2. ~Pending("tx") /\ ~Pending("almost_empty")
  BY DEF Pending, Notified, PendingShort, Supervised, OnAir, TxStates
<1>3. /\ irq'.at \notin {4, 5, 25, 26} /\ ~irq'.tx_done /\ ~irq'.almost_empty
      /\ irq'.at # 0 /\ ~irq'.irq_dealing => irq'.packets_incoming # 0 /\ irq'.at \in 16 .. 24
  <2> USE <1>1 DEF Turns, Pulses, Arrives, Struck, SameFlags, SameTurn
  <2>1. CASE IrqIdles
    BY <2>1 DEF IrqIdles
  <2>2. CASE IrqWakes
    BY <2>2 DEF IrqWakes
  <2>3. CASE IrqReceives
    BY <2>3 DEF IrqReceives, Receiving
  <2>4. CASE IrqRests
    BY <2>4 DEF IrqRests
  <2>5. CASE IrqRefills \/ IrqSent
    BY <2>5, <1>2 DEF IrqRefills, IrqSent
  <2>6. CASE IrqBranches
    BY <2>6 DEF IrqBranches, Receiving
  <2>7. CASE IrqTells
    BY <2>7 DEF IrqTells
  <2>8. QED
    BY <2>1, <2>2, <2>3, <2>4, <2>5, <2>6, <2>7 DEF IrqDoes
<1>4. main'.at \notin {95, 97} /\ (main'.at \in Supervised => main.at = 90 /\ Quiet)
  <2> USE DEF Supervised, TxStates, From, Takes, Walks, Orders
  <2>1. CASE SetsUp \/ Listens \/ Skips
    BY <2>1 DEF SetsUp, Listens, Skips, Idle
  <2>2. CASE Fetches \/ ListensFirst
    BY <2>2 DEF Fetches, ListensFirst
  <2>3. CASE Fills
    BY <2>3 DEF Fills
  <2>4. CASE Begins \/ Sends
    BY <2>4 DEF Begins, Sends
  <2>5. CASE Refills \/ GivesUp \/ Returns \/ Stands
    BY <2>5 DEF Refills, GivesUp, Returns, Stands
  <2>6. QED
    BY <2>1, <2>2, <2>3, <2>4, <2>5 DEF MainDoes
<1>5. ASSUME Quiet
      PROVE  ~irq'.forced /\ (irq'.at # 0 => irq'.irq_dealing)
  <2>1. ~irq.irq_dealing /\ irq.packets_incoming = 0 /\ irq.at = 0 /\ ~irq.forced
    BY <1>5 DEF Quiet, Turns, IrqControl
  <2> USE <2>1 DEF Arrives, Struck, SameFlags, SameTurn
  <2>2. CASE IrqIdles \/ IrqWakes
    BY <2>2 DEF IrqIdles, IrqWakes
  <2>3. CASE IrqReceives \/ IrqRests \/ IrqRefills \/ IrqSent \/ IrqBranches \/ IrqTells
    BY <2>3 DEF IrqReceives, Receiving, IrqRests, IrqRefills, IrqSent, IrqBranches, IrqTells
  <2>4. QED
    BY <2>2, <2>3 DEF IrqDoes
<1>6. QED
  BY <1>3, <1>4, <1>5 DEF Turns, Pulses

(* In the states of a transmission.                                         *)
LEMMA TurnsInside ==
  ASSUME LongFrames = FALSE, IrqControl, MainDoes, IrqDoes, Turns, Pulses, TxStateTells,
         TxStateTells', PendingShort, EngineControl,
         Notified(main, radio, engine.pending), main.at \in Supervised
  PROVE  /\ Turns' /\ Pulses'
         /\ irq'.at = 4 => irq.at = 3 /\ Pending("tx") /\ main'.at # 0
         /\ irq'.at = 5 => irq.at \in {4, 5} /\ main'.at # 0
         /\ irq'.at = 25 => irq.at = 3 /\ Pending("almost_empty") /\ main'.at = main.at
<1>a. ~MayExpire
  BY NotStruck
<1>b. main.at \in {92, 93, 95, 97, 100, 101, 103}
  BY DEF Supervised, TxStates
<1>0. ~MayExpire /\ main.at \notin {0, 60}
  BY <1>a, <1>b
<1>r. main.tx_state = "RX" => main.at = 92
  BY DEF TxStateTells, Supervised
<1>1. ~irq.forced /\ (irq.at # 0 => irq.irq_dealing)
  BY DEF Turns
<1>2. Pending("tx") \/ Pending("almost_empty") => main.at \in OnAir /\ ~DoneForMain
  BY <1>0 DEF Pending, Notified, PendingShort, DoneForMain, DoneFor, OnAir
<1>3. Pending("almost_empty") => main.at = 93
  BY <1>0 DEF Pending, Notified
(* the Irq machine *)
<1>4. /\ ~irq'.forced /\ (irq'.at # 0 => irq'.irq_dealing)
      /\ irq'.tx_done <=> irq'.at = 5
      /\ irq'.almost_empty <=> irq'.at \in {25, 26}
      /\ irq'.at = 4 => irq.at = 3 /\ Pending("tx")
      /\ irq'.at = 5 => irq.at = 4 \/ (irq.at = 5 /\ main.tx_state # "RX")
      /\ irq'.at = 25 => irq.at = 3 /\ Pending("almost_empty") /\ main.remain_flag
      /\ irq'.at = 26 => irq.at = 25
      /\ irq.at = 5 /\ main.at \in TxStates => irq'.at = 5
  <2> USE <1>0, <1>1 DEF Pulses, Arrives, Struck, SameFlags, SameTurn
  <2>1. CASE IrqIdles
    BY <2>1, <1>r DEF IrqIdles
  <2>2. CASE IrqWakes
    BY <2>2 DEF IrqWakes
  <2>3. CASE IrqReceives
    BY <2>3 DEF IrqReceives, Receiving
  <2>4. CASE IrqRests
    BY <2>4 DEF IrqRests
  <2>5. CASE IrqRefills \/ IrqSent
    BY <2>5 DEF IrqRefills, IrqSent
  <2>6. CASE IrqBranches
    BY <2>6 DEF IrqBranches, Receiving
  <2>7. CASE IrqTells
    BY <2>7, <1>r DEF IrqTells, TxStates
  <2>8. QED
    BY <2>1, <2>2, <2>3, <2>4, <2>5, <2>6, <2>7 DEF IrqDoes
(* the Main machine *)
<1>5. /\ irq.at = 25 => main'.at = 100
      /\ irq.at = 3 /\ main.at \in OnAir /\ ~DoneForMain => main'.at \in {93, 101, 103}
      /\ irq.at = 3 /\ main.at = 93 => main' = main
      /\ irq.at = 4 => main'.at \in {93, 101, 103}
      /\ irq.at = 5 => main'.at \in TxStates \/ (main'.at = 60 /\ main'.tx_state = "RX")
      /\ main'.at \in {95, 97} => irq.at = 5
      /\ main'.at \in Supervised \cup {60, 0}
      /\ irq.at # 0 => main'.at # 0
  <2> USE <1>0, <1>1 DEF Pulses, Supervised, TxStates, OnAir, From, Takes, Walks, Orders
  <2>1. /\ ~SetsUp /\ ~Listens /\ ~Skips /\ ~Fetches /\ ~Fills /\ ~ListensFirst /\ ~Begins
    <3>1. ~SetsUp
      BY <1>b DEF SetsUp, Idle
    <3>2. ~Listens /\ ~Skips
      BY <1>b DEF Listens, Skips
    <3>3. ~Fetches
      BY <1>b DEF Fetches
    <3>4. ~Fills
      BY <1>b DEF Fills
    <3>5. ~ListensFirst /\ ~Begins
      BY <1>b DEF ListensFirst, Begins
    <3>6. QED
      BY <3>1, <3>2, <3>3, <3>4, <3>5
  <2>2. CASE Sends
    BY <2>2 DEF Sends
  <2>3. CASE Refills
    BY <2>3 DEF Refills
  <2>4. CASE GivesUp
    BY <2>4 DEF GivesUp, Stalled
  <2>5. CASE Returns
    BY <2>5 DEF Returns
  <2>6. CASE Stands
    BY <2>6 DEF Stands
  <2>7. QED
    BY <1>0, <2>1, <2>2, <2>3, <2>4, <2>5, <2>6 DEF MainDoes
<1>6. Turns'
  BY <1>4 DEF Turns
<1>7. irq'.at = 25 => main' = main /\ main.at = 93
  BY <1>3, <1>4, <1>5
<1>8. irq'.at = 4 => irq.at = 3 /\ main.at \in OnAir /\ ~DoneForMain
  BY <1>2, <1>4
<1>9. Pulses'
  <2>1. irq'.at = 4 => main'.at \in {93, 101, 103}
    BY <1>8, <1>5
  <2>2. irq'.at = 5 => main'.at \in TxStates \/ (main'.at = 60 /\ main'.tx_state = "RX")
    BY <1>4, <1>5 DEF TxStates
  <2>3. irq'.at = 25 => main'.at = 93 /\ main'.remain_flag
    BY <1>4, <1>7
  <2>4. irq'.at = 26 => main'.at = 100
    BY <1>4, <1>5
  <2>5. main'.at \in {95, 97} => irq'.at = 5
    <3>1. irq.at = 5 => main.at \in TxStates
      BY <1>0 DEF Pulses
    <3>2. QED
      BY <3>1, <1>4, <1>5
  <2>6. QED
    BY <1>4, <2>1, <2>2, <2>3, <2>4, <2>5 DEF Pulses
<1>10. QED
  BY <1>4, <1>5, <1>6, <1>7, <1>8, <1>9, <1>b

(* The bytes of the frame: those sent, those in the FIFO of the radio and   *)
(* those of the chunk under way are no more than what has been handed over; *)
(* fin says that the operation of the Main machine is at its end.           *)
Loaded(m, fin) == m.at \in Prepared \cup OnAir \cup {0} \/ (m.at = 76 /\ fin)
Counted(m, r, fin) ==
  /\ ~Loaded(m, fin) => r.txfifo = 0
  /\ (m.at = 72 /\ fin) \/ m.at \in {73, 74, 76} \cup Prepared => r.txlen = m.len
  /\ (m.at = 76 /\ fin) \/ m.at \in Prepared => r.txfifo <= m.pos
  /\ m.at = 92 /\ fin => r.sent = 0
  /\ m.at \in {93, 100} \/ (m.at = 103 /\ fin) => r.sent + r.txfifo <= m.pos
  /\ m.at = 101 \/ (m.at = 103 /\ ~fin) =>
       r.sent + r.txfifo + (m.op.len - 1) <= m.pos /\ Low(r)
  /\ m.at = 100 => Low(r)
  /\ m.at # 0 => r.txfifo <= MAX_FIFO_SIZE
(* The radio transmits in no other state, and then with the length of the   *)
(* frame.                                                                   *)
InMode(m, r, fin) ==
  r.mode = "tx" =>
    /\ m.at \in OnAir \cup {0} \/ (m.at = 92 /\ fin)
    /\ m.at # 0 => r.txlen = m.len

Numbers(r) == r.txfifo \in Nat /\ r.sent \in Nat

(* What the radio does by itself keeps the accounts, and its interrupts are *)
(* true: PACKET_SENT of the last byte, TX_FIFO_ALMOST_EMPTY of the room.    *)
LEMMA RadioKeeps ==
  ASSUME main.at # 0, RadioShape, RadioShape', MainParts, ~DoneForMain,
         Counted(main, radio, FALSE), InMode(main, radio, FALSE),
         Notified(main, radio, radio.pending), Answering(irq, main, radio),
         Unseen \/ ByteOut \/ FrameOut
  PROVE  /\ Counted(main, radio', FALSE) /\ InMode(main, radio', FALSE)
         /\ Notified(main, radio', radio'.pending) /\ Answering(irq, main, radio')
<1>c. /\ TX_THRESHOLD \in Nat /\ MAX_FIFO_SIZE \in Nat
      /\ \A l \in FrameLengths : l \in Nat /\ l > 0
  BY Constants
<1>n. radio.txfifo \in Nat /\ radio.sent \in Nat /\ radio'.txfifo \in Nat /\ radio'.sent \in Nat
  BY DEF RadioShape
<1>p. /\ main.at \in OnAir => main.pos \in Nat /\ main.len \in Nat /\ main.pos <= main.len
      /\ main.at \in {101, 103} => main.op.len \in Int /\ main.op.len - 1 >= 0
  BY <1>c DEF MainParts, OnAir
<1>1. CASE Unseen
  BY <1>1 DEF Unseen, NoNews, Counted, Loaded, InMode, Notified, Answering, AllSent, Low
<1>2. CASE ByteOut
  <2>1. main.at \in OnAir /\ radio.txlen = main.len
    BY <1>2 DEF ByteOut, InMode
  <2>2. /\ radio.txfifo > 0 /\ radio.mode = "tx"
        /\ radio'.sent = radio.sent + 1 /\ radio'.txfifo = radio.txfifo - 1
        /\ radio'.mode = "tx" /\ radio'.txlen = radio.txlen
        /\ "tx" \in radio'.pending => "tx" \in radio.pending
        /\ "almost_empty" \in radio'.pending =>
             "almost_empty" \in radio.pending \/ radio'.txfifo = MAX_FIFO_SIZE - TX_THRESHOLD
    BY <1>2 DEF ByteOut
  <2>3. Counted(main, radio', FALSE)
    BY <2>1, <2>2, <1>c, <1>n, <1>p DEF Counted, Loaded, OnAir, Prepared, Low
  <2>4. InMode(main, radio', FALSE)
    BY <2>1, <2>2 DEF InMode
  <2>5. Low(radio) => radio'.txfifo # MAX_FIFO_SIZE - TX_THRESHOLD /\ Low(radio')
    BY <2>2, <1>c, <1>n DEF Low
  <2>6. main.at \in {100, 101, 103} => Low(radio)
    BY DEF Counted
  <2>7. "tx" \notin radio'.pending
    BY <2>1, <2>2 DEF Notified, AllSent
  <2>8. "almost_empty" \in radio'.pending => main.at = 93 /\ Low(radio')
    BY <2>1, <2>2, <2>5, <2>6, <1>c, <1>n DEF Notified, OnAir, Low
  <2>9. irq.at \notin {4, 5}
    BY <2>2 DEF Answering
  <2>10. irq.at = 25 => "almost_empty" \notin radio'.pending /\ Low(radio')
    BY <2>2, <2>5 DEF Answering
  <2>11. QED
    BY <2>3, <2>4, <2>7, <2>8, <2>9, <2>10 DEF Notified, Answering
<1>3. CASE FrameOut
  <2>1. main.at \in OnAir /\ radio.txlen = main.len
    BY <1>3 DEF FrameOut, InMode
  <2>2. /\ radio.mode = "tx" /\ radio.sent = main.len
        /\ radio'.sent = radio.sent /\ radio'.txfifo = radio.txfifo
        /\ radio'.mode = "ready"
        /\ "almost_empty" \in radio'.pending => "almost_empty" \in radio.pending
    BY <1>3, <2>1 DEF FrameOut
  <2>3. radio.sent + radio.txfifo <= main.pos
    BY <2>1, <1>n, <1>p DEF Counted, OnAir
  <2>4. AllSent(main, radio')
    BY <2>1, <2>2, <2>3, <1>n, <1>p DEF AllSent
  <2>5. Counted(main, radio', FALSE)
    BY <2>1, <2>2 DEF Counted, Loaded, OnAir, Prepared, Low
  <2>6. InMode(main, radio', FALSE)
    BY <2>2 DEF InMode
  <2>7. Notified(main, radio', radio'.pending)
    BY <2>1, <2>2, <2>4 DEF Notified, Low
  <2>8. Answering(irq, main, radio')
    BY <2>2 DEF Answering, Low
  <2>9. QED
    BY <2>5, <2>6, <2>7, <2>8
<1>4. QED
  BY <1>1, <1>2, <1>3

(* A step of the Main machine, whatever the radio r is like.                *)
LEMMA MainKeeps ==
  ASSUME NEW r, Numbers(r), main.at # 0, MainDoes, MainParts, Pulses,
         Counted(main, r, DoneForMain), InMode(main, r, DoneForMain),
         Notified(main, r, r.pending), Answering(irq, main, r),
         LongFrames = FALSE
  PROVE  /\ Counted(main', r, FALSE) /\ InMode(main', r, FALSE)
         /\ Notified(main', r, r.pending)
<1>c. /\ TX_THRESHOLD \in Nat /\ MAX_FIFO_SIZE \in Nat
      /\ \A l \in FrameLengths : l \in Nat /\ l > 0
  BY Constants
<1>n. r.txfifo \in Nat /\ r.sent \in Nat
  BY DEF Numbers
<1>p. /\ main.at \in OnAir => main.pos \in Nat /\ main.len \in Nat /\ main.pos <= main.len
      /\ main.at \in {101, 103} => main.op.len \in Int /\ main.op.len - 1 >= 0
  BY <1>c DEF MainParts, OnAir
<1>1. main.at = 93 /\ irq.almost_empty => Low(r) /\ "almost_empty" \notin r.pending
  BY DEF Pulses, Answering
<1>2. main.at = 93 /\ irq.tx_done =>
        AllSent(main, r) /\ "almost_empty" \notin r.pending /\ "tx" \notin r.pending
  BY DEF Pulses, Answering
<1> USE DEF From, Takes, Walks, Orders, Keeps, KeepsFrame, Counted, Loaded, InMode, Notified,
            Prepared, OnAir
<1>3. CASE SetsUp
  BY <1>3 DEF SetsUp, Idle
<1>4. CASE Listens \/ Skips
  BY <1>4 DEF Listens, Skips
<1>5. CASE Fetches
  <2>1. CASE From(60, 62)
    BY <2>1
  <2>2. CASE From(62, 63) \/ From(63, 65) \/ From(65, 66)
    BY <2>2
  <2>3. QED
    BY <1>5, <2>1, <2>2 DEF Fetches
<1>6. CASE Fills
  BY <1>6 DEF Fills
<1>7. CASE ListensFirst \/ Begins
  BY <1>7 DEF ListensFirst, Begins
<1>8. CASE Sends
  <2>1. /\ main'.at = 93 /\ main'.pos = main.pos /\ main'.len = main.len
        /\ main.at \in {92, 103} /\ DoneForMain
    BY <1>8 DEF Sends
  <2>2. r.sent + r.txfifo <= main.pos
    <3>1. main.at = 92 => main.pos \in Int
      BY <1>c DEF MainParts, FirstPart
    <3>2. QED
      BY <2>1, <3>1, <1>n, <1>p
  <2>3. Counted(main', r, FALSE)
    BY <2>1, <2>2
  <2>4. InMode(main', r, FALSE)
    BY <2>1
  <2>5. Notified(main', r, r.pending)
    BY <2>1 DEF AllSent
  <2>6. QED
    BY <2>3, <2>4, <2>5
<1>9. CASE Refills
  <2>1. CASE From(93, 100)
    <3>1. main'.pos = main.pos /\ main'.len = main.len /\ irq.almost_empty
      BY <2>1, <1>9 DEF Refills
    <3>2. Counted(main', r, FALSE) /\ InMode(main', r, FALSE)
      BY <2>1, <3>1, <1>1
    <3>3. Notified(main', r, r.pending)
      BY <2>1, <3>1, <1>1 DEF AllSent
    <3>4. QED
      BY <3>2, <3>3
  <2>2. CASE From(100, 101)
    <3>1. /\ main'.len = main.len /\ main.remain = main.len - main.pos
          /\ r.sent + r.txfifo <= main.pos /\ Low(r)
      BY <2>2, <1>9 DEF Refills, MainParts
    <3>2. \/ main'.pos = main.len /\ main'.op.len = main.remain + 1
          \/ /\ ~(main.remain <= TX_THRESHOLD) /\ main'.pos = main.pos + TX_THRESHOLD
             /\ main'.op.len = TX_THRESHOLD + 1
      BY <2>2, <1>9 DEF Refills, Op
    <3>3. r.sent + r.txfifo + (main'.op.len - 1) <= main'.pos
      BY <2>2, <3>1, <3>2, <1>n, <1>p, <1>c
    <3>4. Counted(main', r, FALSE) /\ InMode(main', r, FALSE)
      BY <2>2, <3>1, <3>3
    <3>5. "tx" \in r.pending => AllSent(main', r)
      BY <2>2, <3>1, <3>2, <1>p, <1>c DEF AllSent
    <3>6. Notified(main', r, r.pending)
      BY <2>2, <3>5
    <3>7. QED
      BY <3>4, <3>6
  <2>3. CASE Walks(101, 103)
    <3>1. Counted(main', r, FALSE) /\ InMode(main', r, FALSE)
      BY <2>3
    <3>2. Notified(main', r, r.pending)
      BY <2>3 DEF AllSent
    <3>3. QED
      BY <3>1, <3>2
  <2>4. QED
    BY <1>9, <2>1, <2>2, <2>3 DEF Refills
<1>10. CASE GivesUp
  BY <1>10 DEF GivesUp
<1>11. CASE Returns
  <2>1. CASE irq.tx_done /\ Walks(93, 95)
    BY <2>1, <1>2, <1>c DEF AllSent
  <2>2. CASE From(95, 97) \/ From(97, 60)
    BY <2>2
  <2>3. QED
    BY <1>11, <2>1, <2>2 DEF Returns
<1>12. CASE Stands
  <2>1. main' = main /\ ((main.at \in {72, 76, 92, 103}) => ~DoneForMain)
    BY <1>12 DEF Stands, MainWaiting
  <2>2. Counted(main', r, FALSE)
    BY <2>1
  <2>3. InMode(main', r, FALSE)
    BY <2>1
  <2>4. Notified(main', r, r.pending)
    BY <2>1
  <2>5. QED
    BY <2>2, <2>3, <2>4
<1>13. QED
  BY <1>3, <1>4, <1>5, <1>6, <1>7, <1>8, <1>9, <1>10, <1>11, <1>12 DEF MainDoes

(* A frame begins at place i of the queue q: its sync word, its length and  *)
(* its words, with the end of the queue or the next frame behind.           *)
FrameAt(q, i) ==
  \E l \in FrameLengths :
    LET end == i + 1 + Words(l)
    IN /\ end <= Len(q) /\ q[i + 1] = l
       /\ \A j \in i + 1 .. end : q[j] # SyncWord
       /\ end = Len(q) \/ q[end + 1] = SyncWord
Whole(q) == /\ q \in Seq(Int)
            /\ \A i \in 1 .. Len(q) : q[i] = SyncWord => FrameAt(q, i)

(* A number of bytes takes a number of words.                               *)
LEMMA WordsNat == \A l \in Nat : Words(l) \in Nat
  BY DEF Words

(* Whatever is read from its head, a queue of frames stays one.             *)
LEMMA WholeSuffix ==
  ASSUME NEW q, Whole(q), NEW k \in 0 .. Len(q)
  PROVE  Whole(SubSeq(q, k + 1, Len(q)))
<1> DEFINE s == SubSeq(q, k + 1, Len(q))
<1>0. Len(q) \in Nat /\ q \in Seq(Int)
  BY DEF Whole
<1>1. s \in Seq(Int) /\ Len(s) = Len(q) - k /\ \A i \in 1 .. Len(s) : s[i] = q[i + k]
  BY <1>0
<1> HIDE DEF s
<1>l. Len(s) = Len(q) - k /\ Len(s) \in Nat /\ Len(q) \in Nat /\ k \in Nat
  BY <1>0, <1>1
<1>2. ASSUME NEW i \in 1 .. Len(s), s[i] = SyncWord
      PROVE  FrameAt(s, i)
  <2>1. FrameAt(q, i + k)
    BY <1>0, <1>1, <1>2 DEF Whole
  <2>2. PICK l \in FrameLengths :
          /\ i + k + 1 + Words(l) <= Len(q) /\ q[i + k + 1] = l
          /\ \A j \in i + k + 1 .. i + k + 1 + Words(l) : q[j] # SyncWord
          /\ i + k + 1 + Words(l) = Len(q) \/ q[i + k + 1 + Words(l) + 1] = SyncWord
    BY <2>1 DEF FrameAt
  <2>3. Words(l) \in Nat /\ i \in Nat /\ k \in Nat
    BY Constants, WordsNat, <1>l
  <2>e. i + 1 + Words(l) <= Len(s)
    BY <2>2, <2>3, <1>l
  <2>4. i + 1 + Words(l) <= Len(s) /\ s[i + 1] = l
    <3>1. i + 1 + Words(l) <= Len(s)
      BY <2>2, <2>3, <1>0, <1>1
    <3>2. i + 1 \in 1 .. Len(s) /\ (i + 1) + k = i + k + 1
      BY <2>3, <3>1, <1>0, <1>1
    <3>3. QED
      BY <3>1, <3>2, <1>1, <2>2
  <2>5. ASSUME NEW j \in i + 1 .. i + 1 + Words(l)
        PROVE  s[j] # SyncWord
    <3>1. j \in 1 .. Len(s) /\ j + k \in i + k + 1 .. i + k + 1 + Words(l)
      BY <2>3, <2>e, <1>l
    <3>2. QED
      BY <3>1, <1>1, <2>2
  <2>6. i + 1 + Words(l) = Len(s) \/ s[i + 1 + Words(l) + 1] = SyncWord
    <3>1. CASE i + k + 1 + Words(l) = Len(q)
      BY <3>1, <2>3, <1>l
    <3>2. CASE i + k + 1 + Words(l) # Len(q)
      <4>1. i + 1 + Words(l) + 1 \in 1 .. Len(s)
            /\ (i + 1 + Words(l) + 1) + k = i + k + 1 + Words(l) + 1
        BY <3>2, <2>e, <2>3, <1>l
      <4>2. QED
        BY <4>1, <3>2, <2>2, <1>1
    <3>3. QED
      BY <3>1, <3>2
  <2>7. QED
    BY <2>4, <2>5, <2>6 DEF FrameAt
<1>3. QED
  BY <1>1, <1>2 DEF Whole, s

(* The places of two sequences one after the other.                         *)
LEMMA Joined ==
  ASSUME NEW a \in Seq(Int), NEW b \in Seq(Int)
  PROVE  /\ a \o b \in Seq(Int) /\ Len(a \o b) = Len(a) + Len(b)
         /\ \A j \in 1 .. Len(a) : (a \o b)[j] = a[j]
         /\ \A j \in 1 .. Len(b) : (a \o b)[Len(a) + j] = b[j]
<1>1. a \o b \in Seq(Int) /\ Len(a \o b) = Len(a) + Len(b)
  OBVIOUS
<1>2. ASSUME NEW j \in 1 .. Len(a)
      PROVE  (a \o b)[j] = a[j]
  OBVIOUS
<1>3. ASSUME NEW j \in 1 .. Len(b)
      PROVE  (a \o b)[Len(a) + j] = b[j]
  OBVIOUS
<1>4. QED
  BY <1>1, <1>2, <1>3

(* The words of a frame.                                                    *)
LEMMA OneFrame ==
  ASSUME NEW l \in FrameLengths
  PROVE  /\ FrameWords(l) \in Seq(Int) /\ Len(FrameWords(l)) = 2 + Words(l)
         /\ FrameWords(l)[1] = SyncWord /\ FrameWords(l)[2] = l
         /\ \A j \in 2 .. 2 + Words(l) : FrameWords(l)[j] # SyncWord
<1> DEFINE w == Words(l)
           d == [k \in 1 .. w |-> DataWord]
           h == <<SyncWord, l>>
<1>1. w \in Nat /\ l \in Nat
  BY Constants, WordsNat
<1>2. FrameWords(l) = h \o d
  BY DEF FrameWords
<1> HIDE DEF w
<1>3. d \in Seq(Int) /\ Len(d) = w
  BY <1>1 DEF DataWord
<1>d. \A j \in 1 .. w : d[j] = 0
  BY DEF DataWord
<1> HIDE DEF d
<1>4. h \in Seq(Int) /\ Len(h) = 2 /\ h[1] = -1 /\ h[2] = l
  BY <1>1 DEF SyncWord
<1> HIDE DEF h
<1> DEFINE s == h \o d
<1>j. /\ s \in Seq(Int) /\ Len(s) = Len(h) + Len(d)
      /\ \A j \in 1 .. Len(h) : s[j] = h[j]
      /\ \A j \in 1 .. Len(d) : s[Len(h) + j] = d[j]
  BY <1>3, <1>4, Joined
<1> HIDE DEF s
<1>5. s \in Seq(Int) /\ Len(s) = 2 + w
  BY <1>j, <1>3, <1>4
<1>6. ASSUME NEW j \in 1 .. w
      PROVE  s[2 + j] = 0
  <2>1. j \in 1 .. Len(d) /\ Len(h) + j = 2 + j
    BY <1>3, <1>4
  <2>2. s[Len(h) + j] = d[j]
    BY <2>1, <1>j
  <2>3. QED
    BY <2>1, <2>2, <1>d
<1>7. s[1] = -1 /\ s[2] = l
  <2>1. 1 \in 1 .. Len(h) /\ 2 \in 1 .. Len(h)
    BY <1>4
  <2>2. QED
    BY <2>1, <1>4, <1>j
<1>8. ASSUME NEW j \in 2 .. 2 + w
      PROVE  s[j] # -1
  <2>1. CASE j = 2
    BY <2>1, <1>1, <1>7
  <2>2. CASE j # 2
    <3>1. j - 2 \in 1 .. w /\ 2 + (j - 2) = j
      BY <2>2, <1>1
    <3>2. s[2 + (j - 2)] = 0
      BY <3>1, <1>6
    <3>3. QED
      BY <3>1, <3>2
  <2>3. QED
    BY <2>1, <2>2
<1>9. QED
  BY <1>2, <1>5, <1>7, <1>8 DEF s, w, SyncWord

(* A frame at its end, and it stays a queue of frames.                      *)
LEMMA WholeAppend ==
  ASSUME NEW q, Whole(q), NEW l \in FrameLengths
  PROVE  Whole(q \o FrameWords(l))
<1> DEFINE f == FrameWords(l)
           s == q \o f
           w == Words(l)
<1>0. q \in Seq(Int) /\ Len(q) \in Nat /\ w \in Nat
  BY Constants, WordsNat DEF Whole
<1>1. /\ f \in Seq(Int) /\ Len(f) = 2 + w /\ f[1] = SyncWord /\ f[2] = l
      /\ \A j \in 2 .. 2 + w : f[j] # SyncWord
  BY OneFrame
<1> HIDE DEF f, w
<1>j. /\ s \in Seq(Int) /\ Len(s) = Len(q) + Len(f)
      /\ \A j \in 1 .. Len(q) : s[j] = q[j]
      /\ \A j \in 1 .. Len(f) : s[Len(q) + j] = f[j]
  BY <1>0, <1>1, Joined
<1> HIDE DEF s
<1>2. /\ s \in Seq(Int) /\ Len(s) = Len(q) + 2 + w
      /\ \A j \in 1 .. Len(q) : s[j] = q[j]
      /\ \A j \in 1 .. 2 + w : s[Len(q) + j] = f[j]
  <2>1. 1 .. 2 + w = 1 .. Len(f)
    BY <1>1
  <2>2. \A j \in 1 .. 2 + w : s[Len(q) + j] = f[j]
    BY <2>1, <1>j
  <2>3. QED
    BY <2>2, <1>j, <1>0, <1>1
<1>l. Len(s) = Len(q) + 2 + w /\ Len(q) \in Nat /\ w \in Nat /\ Len(s) \in Nat
  BY <1>0, <1>2
<1>3. ASSUME NEW i \in 1 .. Len(s), s[i] = SyncWord
      PROVE  FrameAt(s, i)
  <2>1. CASE i \in 1 .. Len(q)
    <3>1. FrameAt(q, i)
      BY <2>1, <1>2, <1>3 DEF Whole
    <3>2. PICK m \in FrameLengths :
            /\ i + 1 + Words(m) <= Len(q) /\ q[i + 1] = m
            /\ \A j \in i + 1 .. i + 1 + Words(m) : q[j] # SyncWord
            /\ i + 1 + Words(m) = Len(q) \/ q[i + 1 + Words(m) + 1] = SyncWord
      BY <3>1 DEF FrameAt
    <3>3. Words(m) \in Nat /\ i \in Nat
      BY Constants, WordsNat, <2>1
    <3>e. i + 1 \in 1 .. Len(q) /\ i + 1 + Words(m) <= Len(s) /\ i + 1 + Words(m) <= Len(q)
      BY <3>2, <3>3, <1>l
    <3>4. i + 1 + Words(m) <= Len(s) /\ s[i + 1] = m
      BY <3>2, <3>e, <1>2
    <3>5. ASSUME NEW j \in i + 1 .. i + 1 + Words(m)
          PROVE  s[j] # SyncWord
      <4>1. j \in 1 .. Len(q)
        BY <3>2, <3>3, <1>0
      <4>2. QED
        BY <4>1, <3>2, <1>2
    <3>6. s[i + 1 + Words(m) + 1] = SyncWord
      <4>1. CASE i + 1 + Words(m) = Len(q)
        <5>1. 1 \in 1 .. 2 + w /\ i + 1 + Words(m) + 1 = Len(q) + 1
          BY <4>1, <1>l
        <5>2. QED
          BY <5>1, <1>1, <1>2
      <4>2. CASE i + 1 + Words(m) # Len(q)
        <5>1. i + 1 + Words(m) + 1 \in 1 .. Len(q)
          BY <4>2, <3>e, <3>3, <1>l
        <5>2. QED
          BY <5>1, <4>2, <3>2, <1>2
      <4>3. QED
        BY <4>1, <4>2
    <3>7. QED
      BY <3>4, <3>5, <3>6 DEF FrameAt
  <2>2. CASE i \notin 1 .. Len(q)
    <3>1. i = Len(q) + 1
      <4>1. i - Len(q) \in 1 .. 2 + w /\ i = Len(q) + (i - Len(q))
        BY <2>2, <1>0, <1>2
      <4>2. f[i - Len(q)] = SyncWord
        BY <4>1, <1>2, <1>3
      <4>3. i - Len(q) \notin 2 .. 2 + w
        BY <4>2, <1>1
      <4>4. QED
        BY <4>1, <4>3, <1>0
    <3>2. i + 1 + w = Len(s) /\ s[i + 1] = l
      <4>1. i + 1 = Len(q) + 2 /\ 2 \in 1 .. 2 + w
        BY <3>1, <1>0
      <4>2. QED
        BY <4>1, <1>0, <1>1, <1>2
    <3>3. ASSUME NEW j \in i + 1 .. i + 1 + w
          PROVE  s[j] # SyncWord
      <4>1. j - Len(q) \in 2 .. 2 + w /\ j = Len(q) + (j - Len(q)) /\ j - Len(q) \in 1 .. 2 + w
        BY <3>1, <1>0
      <4>2. QED
        BY <4>1, <1>1, <1>2
    <3>4. QED
      BY <3>2, <3>3, <1>0, <1>2 DEF FrameAt, w
  <2>3. QED
    BY <2>1, <2>2
<1>4. QED
  BY <1>2, <1>3 DEF Whole, s, f

(* Who is about to read the length of a frame finds one at the head.        *)
AtLength == main.at = 63 \/ (main.at = 65 /\ ~DoneForMain)
            \/ (main.at = 62 /\ DoneForMain /\ engine.word = SyncWord)
QueueHead == AtLength => Queue # <<>> /\ Queue[1] \in FrameLengths
QueueWhole == Whole(Queue)

(* The inductive invariant of the transmission.                             *)
TxInv ==
  /\ RamShape /\ RadioShape
  /\ MainOps /\ MainParts /\ TxStateTells /\ HeadOfFrame
  /\ QueueWhole /\ QueueHead
  /\ PendingShort /\ EngineOps /\ ReadOnce
  /\ Turns /\ Pulses
  /\ Counted(main, radio, DoneForMain) /\ InMode(main, radio, DoneForMain)
  /\ Notified(main, radio, radio.pending) /\ Notified(main, radio, engine.pending)
  /\ Answering(irq, main, radio)

(* What is sent to the last byte stays so until the next frame.             *)
LEMMA AllSentKeeps ==
  ASSUME NEW r, MainDoes, MainParts, main.at \in TxStates \ {97}, AllSent(main, r)
  PROVE  main'.at \in {0, 60, 97} \/ AllSent(main', r)
<1>c. /\ TX_THRESHOLD \in Nat /\ \A l \in FrameLengths : l \in Nat /\ l > 0
  BY Constants
<1>b. main.at \in {93, 95, 100, 101, 103}
  BY DEF TxStates
<1>s. main'.pos = main.len /\ main'.len = main.len => AllSent(main', r)
  BY DEF AllSent
<1>p. main.pos = main.len
  BY DEF AllSent
<1> USE DEF From, Takes, Walks, Orders, Keeps, KeepsFrame
<1>1. CASE SetsUp
  BY <1>1, <1>b DEF SetsUp, Idle
<1>2. CASE Listens \/ Skips
  BY <1>2, <1>b DEF Listens, Skips
<1>3. CASE Fetches
  BY <1>3, <1>b DEF Fetches
<1>4. CASE Fills
  BY <1>4, <1>b DEF Fills
<1>5. CASE ListensFirst \/ Begins
  BY <1>5, <1>b DEF ListensFirst, Begins
<1>6. CASE Sends
  BY <1>6, <1>s, <1>p DEF Sends
<1>7. CASE Refills
  <2>1. CASE From(93, 100)
    BY <2>1, <1>7, <1>s, <1>p DEF Refills
  <2>2. CASE From(100, 101)
    <3>1. main.remain = 0
      BY <2>2, <1>p, <1>c DEF MainParts, OnAir
    <3>2. main.remain <= TX_THRESHOLD
      BY <3>1, <1>c
    <3>3. main'.pos = main.len /\ main'.len = main.len
      BY <2>2, <3>2, <1>7 DEF Refills
    <3>4. QED
      BY <3>3, <1>s
  <2>3. CASE Walks(101, 103)
    BY <2>3, <1>s, <1>p
  <2>4. QED
    BY <1>7, <2>1, <2>2, <2>3 DEF Refills
<1>8. CASE GivesUp
  BY <1>8 DEF GivesUp
<1>9. CASE Returns
  BY <1>9, <1>s, <1>p DEF Returns
<1>10. CASE Stands
  BY <1>10, <1>s, <1>p DEF Stands
<1>11. QED
  BY <1>1, <1>2, <1>3, <1>4, <1>5, <1>6, <1>7, <1>8, <1>9, <1>10 DEF MainDoes

(* The Main machine at the head of a frame.                                 *)
LEMMA ReachesLength ==
  ASSUME MainDoes
  PROVE  /\ main'.at = 63 =>
              \/ main.at = 63
              \/ main.at = 62 /\ DoneForMain /\ engine.word = SyncWord
         /\ main'.at = 65 => main.at = 63 \/ (main.at = 65 /\ ~DoneForMain)
         /\ main.at = 97 => main'.at \in {97, 60}
         /\ main.at = 0 => main'.at \in Idle
<1> USE DEF From, Takes, Walks, Orders
<1>1. CASE SetsUp \/ Listens \/ Skips
  BY <1>1 DEF SetsUp, Idle, Listens, Skips
<1>3. CASE Fetches
  BY <1>3 DEF Fetches
<1>4. CASE Fills
  BY <1>4 DEF Fills
<1>5. CASE ListensFirst \/ Begins \/ Sends
  BY <1>5 DEF ListensFirst, Begins, Sends
<1>7. CASE Refills \/ GivesUp
  BY <1>7 DEF Refills, GivesUp
<1>9. CASE Returns
  BY <1>9 DEF Returns
<1>10. CASE Stands
  BY <1>10 DEF Stands, MainWaiting
<1>11. QED
  BY <1>1, <1>3, <1>4, <1>5, <1>7, <1>9, <1>10 DEF MainDoes

(* An edge keeps the queue whole, and its head for who is about to read it. *)
LEMMA QueueEdge ==
  ASSUME MainDoes, QueueWhole, QueueHead, QueueGrows, ~DoneForMain'
  PROVE  QueueWhole' /\ QueueHead'
<1>1. QueueWhole'
  <2>1. CASE Queue' = Queue
    BY <2>1 DEF QueueWhole
  <2>2. ASSUME NEW l \in FrameLengths, Queue' = Queue \o FrameWords(l)
        PROVE  QueueWhole'
    <3>1. Whole(Queue \o FrameWords(l))
      BY WholeAppend DEF QueueWhole
    <3>2. QED
      BY <3>1, <2>2 DEF QueueWhole
  <2>3. QED
    BY <2>1, <2>2 DEF QueueGrows
<1>2. AtLength' => AtLength /\ main.at # 60
  BY ReachesLength DEF AtLength
<1>3. QueueHead'
  BY <1>2 DEF QueueHead, QueueGrows
<1>4. QED
  BY <1>1, <1>3

(* The answers of the Irq machine at an edge.                               *)
LEMMA AnswersKept ==
  ASSUME LongFrames = FALSE, IrqControl, MainDoes, IrqDoes, Turns, Pulses, TxStateTells,
         TxStateTells', PendingShort, EngineControl, ReadOnce, MainParts,
         Notified(main, radio, engine.pending),
         engine.at = 0 => radio' = radio \/ main.at = 0,
         main.at # 0 => Answering(irq, main, radio')
  PROVE  Turns' /\ Pulses' /\ Answering(irq', main', radio')
<1>1. CASE main.at \notin Supervised
  <2>1. Turns' /\ Pulses' /\ irq'.at \notin {4, 5, 25}
    BY <1>1, TurnsOutside
  <2>2. QED
    BY <2>1 DEF Answering
<1>2. CASE main.at \in Supervised
  <2>0. /\ Turns' /\ Pulses'
        /\ irq'.at = 4 => irq.at = 3 /\ Pending("tx") /\ main'.at # 0
        /\ irq'.at = 5 => irq.at \in {4, 5} /\ main'.at # 0
        /\ irq'.at = 25 => irq.at = 3 /\ Pending("almost_empty") /\ main'.at = main.at
    BY <1>2, TurnsInside
  <2>1. main.at \notin {0, 60} /\ Answering(irq, main, radio')
    BY <1>2 DEF Supervised, TxStates
  <2>2. Pending("tx") \/ Pending("almost_empty") => radio' = radio
    BY <2>1 DEF Pending, PendingShort
  <2>3. ASSUME irq'.at = 4
        PROVE  Answering(irq', main', radio')
    <3>1. main.at \in OnAir /\ AllSent(main, radio) /\ radio' = radio
          /\ "tx" \notin radio.pending /\ "almost_empty" \notin radio.pending
      BY <2>0, <2>1, <2>2, <2>3 DEF Notified, ReadOnce, Pending
    <3>2. main.at \in TxStates \ {97} /\ main'.at # 0
      BY <3>1, <2>0, <2>3 DEF OnAir, TxStates
    <3>3. main'.at \in {60, 97} \/ AllSent(main', radio')
      BY <3>1, <3>2, AllSentKeeps
    <3>4. radio'.mode # "tx"
      BY <3>1 DEF AllSent
    <3>5. QED
      BY <2>3, <3>1, <3>3, <3>4 DEF Answering
  <2>4. ASSUME irq'.at = 5
        PROVE  Answering(irq', main', radio')
    <3>1. irq.at \in {4, 5} /\ main'.at # 0
      BY <2>0, <2>4
    <3>2. /\ "tx" \notin radio'.pending /\ "almost_empty" \notin radio'.pending
          /\ radio'.mode # "tx"
          /\ main.at \notin {97, 60} => AllSent(main, radio')
      BY <3>1, <2>1 DEF Answering
    <3>3. main.at \in TxStates
      BY <3>1, <2>1 DEF Pulses, TxStates
    <3>4. main'.at \in {60, 97} \/ AllSent(main', radio')
      <4>1. CASE main.at = 97
        BY <4>1, ReachesLength
      <4>2. CASE main.at # 97
        BY <4>2, <3>1, <3>2, <3>3, <2>1, AllSentKeeps
      <4>3. QED
        BY <4>1, <4>2
    <3>5. QED
      BY <2>4, <3>2, <3>4 DEF Answering
  <2>5. ASSUME irq'.at = 25
        PROVE  Answering(irq', main', radio')
    <3>1. Low(radio) /\ radio' = radio /\ "almost_empty" \notin radio.pending
      BY <2>0, <2>1, <2>2, <2>5 DEF Notified, ReadOnce, Pending
    <3>2. QED
      BY <2>5, <3>1 DEF Answering
  <2>6. CASE irq'.at \notin {4, 5, 25}
    BY <2>0, <2>6 DEF Answering
  <2>7. QED
    BY <2>0, <2>3, <2>4, <2>5, <2>6
<1>3. QED
  BY <1>1, <1>2

(* The Main machine in the states in which it holds the others in reset.    *)
LEMMA StaysIdle ==
  ASSUME MainDoes, main.at \in {0, 249}
  PROVE  main'.at \in Idle
<1> USE DEF From, Takes, Walks, Orders
<1>1. CASE SetsUp
  BY <1>1 DEF SetsUp
<1>2. CASE Listens \/ Skips \/ Fetches
  BY <1>2 DEF Listens, Skips, Fetches
<1>3. CASE Fills
  BY <1>3 DEF Fills
<1>4. CASE ListensFirst \/ Begins \/ Sends
  BY <1>4 DEF ListensFirst, Begins, Sends
<1>5. CASE Refills \/ GivesUp \/ Returns \/ Stands
  BY <1>5 DEF Refills, GivesUp, Returns, Stands
<1>6. QED
  BY <1>1, <1>2, <1>3, <1>4, <1>5 DEF MainDoes

(* An edge of all three machines.                                           *)
LEMMA EdgeTx ==
  ASSUME LongFrames = FALSE, ServedInv, TxInv, Edge
  PROVE  TxInv'
<1> USE DEF ServedInv, TxInv
<1>1. MainDoes /\ MainOps' /\ MainParts' /\ TxStateTells'
  BY MainEdges, MainOwn DEF Edge
<1>2. /\ RamShape' /\ RadioShape' /\ QueueGrows
      /\ \/ main.at = 0 /\ radio' = RadioOff
         \/ main.at # 0 /\ radio' = radio
         \/ /\ main.at # 0 /\ engine.at # 0
            /\ Unseen \/ ByteOut \/ FrameOut
  BY EdgeOutside DEF Edge
<1>3. /\ engine'.pending = {} /\ ~DoneForMain'
      /\ engine'.at = 52 /\ engine'.owner = "int" => engine'.op.name \in IrqOps
  BY EdgeEngine DEF Edge
<1>4. DoneForMain' = FALSE
  BY <1>3 DEF DoneForMain, DoneFor
<1>5. /\ PendingShort' /\ ReadOnce' /\ HeadOfFrame'
      /\ Notified(main', radio', engine'.pending)
  BY <1>3 DEF PendingShort, ReadOnce, HeadOfFrame, Notified
<1>6. QueueWhole' /\ QueueHead'
  BY <1>1, <1>2, <1>3, QueueEdge
<1>7. ASSUME main.at # 0
      PROVE  /\ Counted(main, radio', DoneForMain) /\ InMode(main, radio', DoneForMain)
             /\ Notified(main, radio', radio'.pending) /\ Answering(irq, main, radio')
  <2>1. CASE radio' = radio
    BY <2>1
  <2>2. CASE engine.at # 0 /\ (Unseen \/ ByteOut \/ FrameOut)
    <3>1. ~DoneForMain
      BY <2>2, NotServedIsNotDone
    <3>2. DoneForMain = FALSE
      BY <3>1 DEF DoneForMain, DoneFor
    <3>3. Counted(main, radio, FALSE) /\ InMode(main, radio, FALSE)
      BY <3>2
    <3>4. /\ Counted(main, radio', FALSE) /\ InMode(main, radio', FALSE)
          /\ Notified(main, radio', radio'.pending) /\ Answering(irq, main, radio')
      BY <1>7, <1>2, <2>2, <3>1, <3>3, RadioKeeps
    <3>5. QED
      BY <3>2, <3>4
  <2>3. QED
    BY <1>2, <1>7, <2>1, <2>2
<1>8. /\ Counted(main', radio', FALSE) /\ InMode(main', radio', FALSE)
      /\ Notified(main', radio', radio'.pending)
  <2>1. CASE main.at = 0
    <3>1. radio' = RadioOff /\ main'.at \in Idle
      BY <1>1, <1>2, <2>1, StaysIdle
    <3>2. radio'.txfifo = 0 /\ radio'.pending = {} /\ radio'.mode = "off" /\ radio'.sent = 0
      BY <3>1 DEF RadioOff
    <3>3. Counted(main', radio', FALSE) /\ InMode(main', radio', FALSE)
      <4>1. MAX_FIFO_SIZE \in Nat
        BY Constants
      <4>2. QED
        BY <3>1, <3>2, <4>1 DEF Counted, InMode, Idle, Prepared, OnAir
    <3>4. Notified(main', radio', radio'.pending)
      BY <3>2 DEF Notified
    <3>5. QED
      BY <3>3, <3>4
  <2>2. CASE main.at # 0
    <3>1. Numbers(radio')
      BY <1>2 DEF Numbers, RadioShape
    <3>2. QED
      BY <1>1, <1>7, <2>2, <3>1, MainKeeps
  <2>3. QED
    BY <2>1, <2>2
<1>9. EngineOps' /\ Turns' /\ Pulses' /\ Answering(irq', main', radio')
  <2>1. CASE main.reset_n
    <3>1. IrqDoes
      BY <2>1, IrqEdges DEF Edge
    <3>2. EngineOps'
      <4>1. irq'.start => SameOp \/ irq'.op.name \in IrqOps
        BY <3>1 DEF IrqDoes, IrqIdles, IrqWakes, IrqReceives, IrqRests, IrqRefills, IrqSent,
                    IrqBranches, IrqTells
      <4>2. irq'.start => irq'.op.name \in IrqOps
        BY <4>1 DEF EngineOps, SameOp
      <4>3. QED
        BY <4>2, <1>3 DEF EngineOps
    <3>3. engine.at = 0 => radio' = radio \/ main.at = 0
      BY <1>2
    <3>4. Turns' /\ Pulses' /\ Answering(irq', main', radio')
      BY <1>1, <1>7, <3>1, <3>3, AnswersKept
    <3>5. QED
      BY <3>2, <3>4
  <2>2. CASE ~main.reset_n
    <3>1. main.at \in {0, 249} /\ irq' = IrqReset
      BY <2>2 DEF MainControl, Edge, IrqStep
    <3>2. /\ irq'.at = 0 /\ ~irq'.tx_done /\ ~irq'.almost_empty /\ ~irq'.start /\ ~irq'.forced
      BY <3>1 DEF IrqReset, IrqInit
    <3>3. main'.at \in Idle
      BY <1>1, <3>1, StaysIdle
    <3>4. Turns' /\ Pulses'
      BY <3>2, <3>3 DEF Turns, Pulses, Idle, Supervised, TxStates
    <3>5. EngineOps' /\ Answering(irq', main', radio')
      BY <3>2, <1>3 DEF EngineOps, Answering
    <3>6. QED
      BY <3>4, <3>5
  <2>3. QED
    BY <2>1, <2>2
<1>10. QED
  BY <1>1, <1>2, <1>4, <1>5, <1>6, <1>8, <1>9

(* What the end of an operation leaves in the radio, beside the FIFO of the *)
(* receiver: nothing new for most.                                          *)
Settles(r) ==
  /\ r.sent = radio.sent /\ r.txlen = radio.txlen /\ r.txfifo \in {radio.txfifo, 0}
  /\ r.mode = "tx" => radio.mode = "tx"

(* It is one of these, or an operation of the Main machine's own.           *)
LEMMA RadioEnds ==
  ASSUME RadioShape, Finish, EngineShape, EngineControl
  PROVE  LET op == engine.op IN
         /\ main.at = 0 => radio' = RadioOff
         /\ main.at # 0 =>
              /\ radio'.pending = IF op.name = "int_status" THEN {} ELSE radio.pending
              /\ op.name \in {"config", "fifo_reset", "state", "command", "word"} \cup IrqOps
                 /\ (op.name = "start_rx" => engine.owner = "int") => Settles(radio')
              /\ op.name = "start_rx" =>
                   /\ radio'.mode = "tune" /\ radio'.txfifo = radio.txfifo
                   /\ radio'.sent \in {radio.sent, 0} /\ radio'.txlen = radio.txlen
              /\ op.name = "length" =>
                   /\ radio'.txlen = op.len /\ radio'.mode = radio.mode
                   /\ radio'.txfifo = radio.txfifo /\ radio'.sent = radio.sent
              /\ op.name = "start_tx" =>
                   /\ radio'.txfifo = radio.txfifo /\ radio'.sent = 0
                   /\ radio'.txlen = radio.txlen
              /\ op.name = "fill" =>
                   /\ radio'.txfifo = radio.txfifo + op.len - 1
                   /\ radio'.mode = radio.mode /\ radio'.sent = radio.sent
                   /\ radio'.txlen = radio.txlen
         /\ DOMAIN radio' = DOMAIN radio
<1> DEFINE op == engine.op
           r == RadioAfter(op)
<1>1. radio' = IF main.at = 0 THEN RadioOff ELSE r
  BY DEF Finish, RadioBecomes
<1>2. DOMAIN radio = {"mode", "receiving", "air", "len", "rxfifo", "txfifo", "txlen",
                     "sent", "pending"}
  BY DEF RadioShape
<1>3. DOMAIN r = DOMAIN radio
  BY <1>2 DEF RadioAfter
<1>4. r.pending = IF op.name = "int_status" THEN {} ELSE radio.pending
  BY <1>2 DEF RadioAfter
<1>5. ASSUME op.name \in {"config", "fifo_reset", "state", "command", "word"} \cup IrqOps,
             op.name = "start_rx" => engine.owner = "int"
      PROVE  Settles(r)
  <2>1. CASE op.name = "int_status" \/ op.name = "fifo_reset" \/ op.name = "config"
    BY <2>1, <1>2 DEF RadioAfter, Settles
  <2>2. CASE op.name = "start_rx"
    <3>1. engine.owner # "main"
      BY <2>2, <1>5
    <3>2. QED
      BY <2>2, <3>1, <1>2 DEF RadioAfter, Settles
  <2>3. CASE op.name \in {"head", "rest"}
    BY <2>3, <1>2 DEF RadioAfter, Settles
  <2>4. CASE op.name \in {"state", "command", "word", "rssi", "sync"}
    <3>1. r = radio
      BY <2>4 DEF RadioAfter
    <3>2. QED
      BY <3>1 DEF Settles
  <2>5. QED
    BY <1>5, <2>1, <2>2, <2>3, <2>4 DEF IrqOps
<1>6. op.name = "start_rx" =>
        /\ r.mode = "tune" /\ r.txfifo = radio.txfifo
        /\ r.sent \in {radio.sent, 0} /\ r.txlen = radio.txlen
  BY <1>2 DEF RadioAfter
<1>7. op.name = "length" =>
        /\ r.txlen = op.len /\ r.mode = radio.mode
        /\ r.txfifo = radio.txfifo /\ r.sent = radio.sent
  BY <1>2 DEF RadioAfter
<1>8. op.name = "start_tx" =>
        r.txfifo = radio.txfifo /\ r.sent = 0 /\ r.txlen = radio.txlen
  BY <1>2 DEF RadioAfter
<1>9. op.name = "fill" =>
        /\ r.txfifo = radio.txfifo + op.len - 1
        /\ r.mode = radio.mode /\ r.sent = radio.sent /\ r.txlen = radio.txlen
  BY <1>2 DEF RadioAfter
<1>10. DOMAIN radio' = DOMAIN radio
  BY <1>1, <1>2, <1>3 DEF RadioOff
<1> HIDE DEF r
<1>11. main.at # 0 => radio' = r
  BY <1>1
<1>12. QED
  BY <1>1, <1>4, <1>5, <1>6, <1>7, <1>8, <1>9, <1>10, <1>11

(* What the ends of the operations of the Irq machine leave in the radio    *)
(* disturbs no transmission.                                                *)
LEMMA SettlesKeeps ==
  ASSUME NEW r, Settles(r), NEW i, NEW fin, NEW p, p \subseteq radio.pending,
         r.pending \subseteq radio.pending, MainParts, RadioShape, main.at # 0,
         Counted(main, radio, fin), InMode(main, radio, fin),
         Notified(main, radio, radio.pending), Answering(i, main, radio)
  PROVE  /\ Counted(main, r, fin) /\ InMode(main, r, fin)
         /\ Notified(main, r, p) /\ Answering(i, main, r)
<1>c. /\ TX_THRESHOLD \in Nat /\ MAX_FIFO_SIZE \in Nat
      /\ \A l \in FrameLengths : l \in Nat /\ l > 0
  BY Constants
<1>n. radio.txfifo \in Nat /\ radio.sent \in Nat /\ r.txfifo \in {radio.txfifo, 0}
      /\ r.sent = radio.sent /\ r.txlen = radio.txlen /\ (r.mode = "tx" => radio.mode = "tx")
  BY DEF RadioShape, Settles
<1>m. /\ main.at \in {93, 100, 101, 103} => main.pos \in Nat
      /\ main.at \in {101, 103} => main.op.len \in Int
      /\ main.at \in {76, 80, 81, 82, 90, 92} => main.pos \in Nat
  BY <1>c DEF MainParts, OnAir, Prepared, FirstPart
<1>z. r.txfifo <= radio.txfifo /\ r.txfifo \in Nat
  BY <1>n
<1>l. Low(radio) => Low(r)
  BY <1>z, <1>n, <1>c DEF Low
<1>a. AllSent(main, radio) => AllSent(main, r)
  BY <1>n DEF AllSent
<1>1. Counted(main, r, fin)
  <2> USE DEF Counted, Prepared
  <2>1. ~Loaded(main, fin) => r.txfifo = 0
    BY <1>n
  <2>2. (main.at = 72 /\ fin) \/ main.at \in {73, 74, 76} \cup Prepared => r.txlen = main.len
    BY <1>n
  <2>3. (main.at = 76 /\ fin) \/ main.at \in Prepared => r.txfifo <= main.pos
    BY <1>n, <1>z, <1>m
  <2>4. main.at = 92 /\ fin => r.sent = 0
    BY <1>n
  <2>5. main.at \in {93, 100} \/ (main.at = 103 /\ fin) => r.sent + r.txfifo <= main.pos
    BY <1>n, <1>z, <1>m
  <2>6. main.at = 101 \/ (main.at = 103 /\ ~fin) =>
          r.sent + r.txfifo + (main.op.len - 1) <= main.pos /\ Low(r)
    BY <1>n, <1>z, <1>m, <1>l
  <2>7. main.at = 100 => Low(r)
    BY <1>l
  <2>8. main.at # 0 => r.txfifo <= MAX_FIFO_SIZE
    BY <1>n, <1>z, <1>c
  <2>9. QED
    BY <2>1, <2>2, <2>3, <2>4, <2>5, <2>6, <2>7, <2>8
<1>2. InMode(main, r, fin)
  BY <1>n DEF InMode
<1>3. Notified(main, r, p)
  BY <1>l, <1>a DEF Notified
<1>4. Answering(i, main, r)
  BY <1>l, <1>a, <1>n DEF Answering
<1>5. QED
  BY <1>1, <1>2, <1>3, <1>4

(* The words that leave FIFO_I.                                             *)
LEMMA QueueEnds ==
  ASSUME ServedInv, TxInv, Finish
  PROVE  /\ QueueWhole'
         /\ main.at = 62 /\ engine.owner = "main" /\ engine'.word = SyncWord =>
              Queue' # <<>> /\ Queue'[1] \in FrameLengths
         /\ main.at = 65 /\ engine.owner = "main" => engine'.word \in FrameLengths
<1> USE DEF ServedInv, TxInv
<1>1. /\ engine'.word = IF engine.op.name = "word" THEN Head(Queue) ELSE DataWord
      /\ Queue' = CASE engine.op.name = "word" -> Tail(Queue)
                    [] engine.op.name = "fill" ->
                         SubSeq(Queue, FilledWords(engine.op) + 1, Len(Queue))
                    [] OTHER -> Queue
      /\ engine.at = 52 /\ CanFinish(engine.op) /\ ~DoneForMain
  BY EndEngine DEF Finish
<1>2. engine.owner = "main" => main.start /\ main.op = engine.op
  BY <1>1 DEF MainServed, EngineBusy
<1>q. Queue \in Seq(Int) /\ Len(Queue) \in Nat
  BY DEF QueueWhole, Whole
<1>w. ASSUME engine.op.name = "word"
      PROVE  /\ Queue # <<>> /\ Len(Queue) >= 1 /\ engine'.word = Queue[1]
             /\ Queue' = SubSeq(Queue, 2, Len(Queue))
             /\ Len(Queue) >= 2 => Queue' # <<>> /\ Queue'[1] = Queue[2]
  <2>a. CanFinish(engine.op) => ram.fifo_i # <<>>
    BY <1>w DEF CanFinish, CtsOps
  <2>1. Queue # <<>>
    BY <2>a, <1>1 DEF Queue
  <2>2. Queue' = Tail(Queue) /\ engine'.word = Head(Queue)
    BY <1>1, <1>w
  <2>3. Len(Queue) >= 1 /\ Tail(Queue) = SubSeq(Queue, 2, Len(Queue)) /\ Head(Queue) = Queue[1]
    BY <2>1, <1>q
  <2>4. ASSUME Len(Queue) >= 2
        PROVE  Tail(Queue) # <<>> /\ Tail(Queue)[1] = Queue[2]
    <3>1. Tail(Queue) \in Seq(Int) /\ Len(Tail(Queue)) = Len(Queue) - 1
      BY <2>1, <1>q
    <3>2. Tail(Queue) # <<>>
      <4>1. Len(Tail(Queue)) # 0 /\ Len(<<>>) = 0
        BY <3>1, <2>4, <1>q
      <4>2. QED
        BY <4>1
    <3>3. SubSeq(Queue, 2, Len(Queue))[1] = Queue[2]
      BY <2>4, <1>q
    <3>4. QED
      BY <3>2, <3>3, <2>3
  <2>5. QED
    BY <2>1, <2>2, <2>3, <2>4
<1>3. QueueWhole'
  <2>1. CASE engine.op.name = "word"
    <3>1. 1 \in 0 .. Len(Queue)
      BY <1>q, <1>w, <2>1
    <3>2. Whole(SubSeq(Queue, 1 + 1, Len(Queue))) /\ 1 + 1 = 2
      BY <3>1, WholeSuffix DEF QueueWhole
    <3>3. QED
      BY <1>w, <2>1, <3>2 DEF QueueWhole
  <2>2. CASE engine.op.name = "fill"
    <3> DEFINE k == FilledWords(engine.op)
    <3>1. k <= Len(Queue)
      <4>1. CanFinish(engine.op) => Len(ram.fifo_i) >= k
        BY <2>2 DEF CanFinish, CtsOps
      <4>2. QED
        BY <4>1, <1>1, <1>q DEF Queue
    <3>a. k \in Nat
      <4>1. engine.owner = "main"
        BY <1>1, <2>2 DEF EngineControl, EngineOps, IrqOps
      <4>2. main.at \in MainWaiting /\ main.op = engine.op
        BY <4>1, <1>2 DEF MainControl
      <4>3. main.at \in {76, 103}
        BY <4>2, <2>2 DEF MainOps, MainWaiting
      <4>4. main.op.len - 1 \in Nat
        BY <4>3, Constants DEF MainParts, FirstPart
      <4>5. QED
        BY <4>2, <4>4, WordsNat DEF FilledWords
    <3>2. Whole(SubSeq(Queue, k + 1, Len(Queue)))
      BY <3>1, <3>a, <1>q, WholeSuffix DEF QueueWhole
    <3>3. QED
      BY <1>1, <2>2, <3>2 DEF QueueWhole
  <2>3. CASE engine.op.name \notin {"word", "fill"}
    BY <2>3, <1>1 DEF QueueWhole
  <2>4. QED
    BY <2>1, <2>2, <2>3
<1>4. ASSUME main.at = 62, engine.owner = "main", engine'.word = SyncWord
      PROVE  Queue' # <<>> /\ Queue'[1] \in FrameLengths
  <2>1. engine.op.name = "word"
    BY <1>2, <1>4 DEF MainOps
  <2>2. FrameAt(Queue, 1)
    <3>1. Queue[1] = SyncWord /\ 1 \in 1 .. Len(Queue)
      BY <1>w, <2>1, <1>4, <1>q
    <3>2. QED
      BY <3>1 DEF QueueWhole, Whole
  <2>3. PICK l \in FrameLengths : 1 + 1 + Words(l) <= Len(Queue) /\ Queue[1 + 1] = l
    BY <2>2 DEF FrameAt
  <2>4. Len(Queue) >= 2 /\ Queue[2] \in FrameLengths
    <3>1. Words(l) \in Nat
      BY Constants, WordsNat
    <3>2. 1 + 1 = 2
      OBVIOUS
    <3>3. QED
      BY <2>3, <1>q, <3>1, <3>2
  <2>5. QED
    BY <2>1, <2>4, <1>w
<1>5. ASSUME main.at = 65, engine.owner = "main"
      PROVE  engine'.word \in FrameLengths
  <2>1. engine.op.name = "word"
    BY <1>2, <1>5 DEF MainOps
  <2>2. Queue[1] \in FrameLengths
    BY <1>5, <1>1 DEF QueueHead, AtLength
  <2>3. QED
    BY <2>1, <2>2, <1>w
<1>6. QED
  BY <1>3, <1>4, <1>5

(* What the ends of the operations of the Main machine leave in the radio.  *)
LEMMA MainEnds ==
  ASSUME ServedInv, TxInv, Finish, engine.owner = "main", main.at # 0,
         irq.at \notin {4, 25, 26}, irq.at = 5 => main.tx_state # "RX"
  PROVE  /\ RadioShape'
         /\ Counted(main, radio', TRUE) /\ InMode(main, radio', TRUE)
         /\ Notified(main, radio', radio'.pending) /\ Answering(irq, main, radio')
<1> USE DEF ServedInv, TxInv
<1>c. /\ TX_THRESHOLD \in Nat /\ MAX_FIFO_SIZE \in Nat
      /\ \A l \in FrameLengths : l \in Nat /\ l > 0
  BY Constants
<1>d. engine.at = 52 /\ ~DoneForMain
  BY EndEngine DEF Finish
<1>f. DoneForMain = FALSE
  BY <1>d DEF DoneForMain, DoneFor
<1>0. Counted(main, radio, FALSE) /\ InMode(main, radio, FALSE)
  BY <1>f
<1>1. main.at \in MainWaiting /\ engine.op = main.op
  BY <1>d DEF MainServed, EngineBusy, MainControl
<1>n. engine.op.name # "int_status"
  BY <1>1 DEF MainOps, MainWaiting
<1>2. LET op == main.op IN
      /\ radio'.pending = radio.pending
      /\ op.name \in {"config", "fifo_reset", "state", "command", "word"} => Settles(radio')
      /\ op.name = "start_rx" =>
           /\ radio'.mode = "tune" /\ radio'.txfifo = radio.txfifo
           /\ radio'.sent \in {radio.sent, 0} /\ radio'.txlen = radio.txlen
      /\ op.name = "length" =>
           /\ radio'.txlen = op.len /\ radio'.mode = radio.mode
           /\ radio'.txfifo = radio.txfifo /\ radio'.sent = radio.sent
      /\ op.name = "start_tx" =>
           /\ radio'.txfifo = radio.txfifo /\ radio'.sent = 0
           /\ radio'.txlen = radio.txlen
      /\ op.name = "fill" =>
           /\ radio'.txfifo = radio.txfifo + op.len - 1
           /\ radio'.mode = radio.mode /\ radio'.sent = radio.sent
           /\ radio'.txlen = radio.txlen
      /\ DOMAIN radio' = DOMAIN radio
  BY <1>1, <1>n, RadioEnds
<1>m. radio.txfifo \in Nat /\ radio.sent \in Nat
  BY DEF RadioShape
<1>5. irq.at = 5 => main.at \in TxStates
  BY DEF Pulses
<1>6. CASE main.at \in {6, 42, 52, 77, 62, 65}
  <2>1. Settles(radio')
    BY <1>2, <1>6 DEF MainOps
  <2>2. /\ Counted(main, radio', FALSE) /\ InMode(main, radio', FALSE)
        /\ Notified(main, radio', radio'.pending) /\ Answering(irq, main, radio')
    BY <1>0, <1>2, <2>1, SettlesKeeps
  <2>3. Counted(main, radio', TRUE) /\ InMode(main, radio', TRUE)
    BY <2>2, <1>6 DEF Counted, Loaded, InMode, Prepared, OnAir
  <2>4. RadioShape'
    BY <2>1, <1>2, <1>m DEF Settles, RadioShape
  <2>5. QED
    BY <2>2, <2>3, <2>4
<1>7. CASE main.at \in {56, 97}
  <2>1. /\ radio'.mode = "tune" /\ radio'.txfifo = radio.txfifo
        /\ radio'.sent \in {radio.sent, 0} /\ radio'.txlen = radio.txlen
        /\ radio'.pending = radio.pending /\ DOMAIN radio' = DOMAIN radio
    BY <1>2, <1>7 DEF MainOps
  <2>2. RadioShape'
    BY <2>1, <1>m DEF RadioShape
  <2>3. Counted(main, radio', TRUE)
    BY <2>1, <1>0, <1>7 DEF Counted, Loaded, Prepared, OnAir
  <2>4. InMode(main, radio', TRUE)
    BY <2>1 DEF InMode
  <2>5. Notified(main, radio', radio'.pending)
    BY <2>1, <1>7 DEF Notified, OnAir
  <2>6. Answering(irq, main, radio')
    <3>1. irq.at = 5 => main.at = 97
      BY <1>5, <1>7 DEF TxStates
    <3>2. QED
      BY <2>1, <3>1 DEF Answering
  <2>7. QED
    BY <2>2, <2>3, <2>4, <2>5, <2>6
<1>8. CASE main.at = 72
  <2>1. /\ radio'.txlen = main.len /\ radio'.mode = radio.mode
        /\ radio'.txfifo = radio.txfifo /\ radio'.sent = radio.sent
        /\ radio'.pending = radio.pending /\ DOMAIN radio' = DOMAIN radio
    BY <1>2, <1>8 DEF MainOps
  <2>2. RadioShape'
    BY <2>1, <1>m DEF RadioShape
  <2>3. Counted(main, radio', TRUE)
    BY <2>1, <1>0, <1>8 DEF Counted, Loaded, Prepared, OnAir
  <2>4. InMode(main, radio', TRUE)
    BY <2>1, <1>0, <1>8 DEF InMode
  <2>5. Notified(main, radio', radio'.pending)
    BY <2>1, <1>8 DEF Notified, OnAir
  <2>6. Answering(irq, main, radio')
    BY <1>5, <1>8 DEF Answering, TxStates
  <2>7. QED
    BY <2>2, <2>3, <2>4, <2>5, <2>6
<1>9. CASE main.at = 76
  <2>1. /\ radio'.txfifo = radio.txfifo + main.op.len - 1
        /\ radio'.mode = radio.mode /\ radio'.sent = radio.sent
        /\ radio'.txlen = radio.txlen
        /\ radio'.pending = radio.pending /\ DOMAIN radio' = DOMAIN radio
    BY <1>2, <1>9 DEF MainOps
  <2>2. /\ main.op.len = main.pos + 1 /\ main.pos \in Nat /\ main.pos <= MAX_FIFO_SIZE
        /\ radio.txfifo = 0 /\ radio.txlen = main.len
    BY <1>0, <1>9, <1>c DEF MainParts, FirstPart, Counted, Loaded, Prepared, OnAir
  <2>3. radio'.txfifo = main.pos
    BY <2>1, <2>2
  <2>4. RadioShape'
    BY <2>1, <2>2, <2>3, <1>m DEF RadioShape
  <2>5. Counted(main, radio', TRUE)
    BY <2>1, <2>2, <2>3, <1>9 DEF Counted, Loaded, Prepared, OnAir
  <2>6. InMode(main, radio', TRUE)
    BY <2>1, <1>0, <1>9 DEF InMode
  <2>7. Notified(main, radio', radio'.pending)
    BY <2>1, <1>9 DEF Notified, OnAir
  <2>8. Answering(irq, main, radio')
    BY <1>5, <1>9 DEF Answering, TxStates
  <2>9. QED
    BY <2>4, <2>5, <2>6, <2>7, <2>8
<1>10. CASE main.at = 92
  <2>1. /\ radio'.txfifo = radio.txfifo /\ radio'.sent = 0
        /\ radio'.txlen = radio.txlen
        /\ radio'.pending = radio.pending /\ DOMAIN radio' = DOMAIN radio
    BY <1>2, <1>10 DEF MainOps
  <2>2. RadioShape'
    BY <2>1, <1>m DEF RadioShape
  <2>3. Counted(main, radio', TRUE)
    BY <2>1, <1>0, <1>10 DEF Counted, Loaded, Prepared, OnAir
  <2>4. InMode(main, radio', TRUE)
    BY <2>1, <1>0, <1>10 DEF InMode, Counted, Prepared
  <2>5. Notified(main, radio', radio'.pending)
    BY <2>1, <1>10 DEF Notified, OnAir
  <2>6. Answering(irq, main, radio')
    BY <1>5, <1>10 DEF Answering, TxStates
  <2>7. QED
    BY <2>2, <2>3, <2>4, <2>5, <2>6
<1>11. CASE main.at = 103
  <2>1. /\ radio'.txfifo = radio.txfifo + main.op.len - 1
        /\ radio'.mode = radio.mode /\ radio'.sent = radio.sent
        /\ radio'.txlen = radio.txlen
        /\ radio'.pending = radio.pending /\ DOMAIN radio' = DOMAIN radio
    BY <1>2, <1>11 DEF MainOps
  <2>2. /\ main.op.len \in Int /\ main.op.len - 1 >= 0 /\ main.op.len - 1 <= TX_THRESHOLD
        /\ main.pos \in Nat /\ main.len \in Nat /\ main.pos <= main.len
    BY <1>11, <1>c DEF MainParts, OnAir
  <2>3. /\ radio.sent + radio.txfifo + (main.op.len - 1) <= main.pos
        /\ radio.txfifo <= MAX_FIFO_SIZE - TX_THRESHOLD
    BY <1>0, <1>11 DEF Counted, Low
  <2>4. RadioShape'
    <3>1. radio'.txfifo \in Nat /\ radio'.sent \in Nat
      BY <2>1, <2>2, <1>m
    <3>2. QED
      BY <3>1, <2>1 DEF RadioShape
  <2>5. radio'.sent + radio'.txfifo <= main.pos /\ radio'.txfifo <= MAX_FIFO_SIZE
    BY <2>1, <2>2, <2>3, <1>m, <1>c
  <2>6. Counted(main, radio', TRUE)
    BY <2>5, <1>11 DEF Counted, Loaded, Prepared, OnAir
  <2>7. InMode(main, radio', TRUE)
    BY <2>1, <1>0, <1>11 DEF InMode, OnAir
  <2>8. AllSent(main, radio) => AllSent(main, radio')
    <3>1. AllSent(main, radio) => main.op.len - 1 = 0
      BY <2>2, <2>3, <1>m DEF AllSent
    <3>2. QED
      BY <3>1, <2>1, <2>2, <1>m DEF AllSent
  <2>9. Notified(main, radio', radio'.pending)
    BY <2>1, <2>8, <1>11 DEF Notified
  <2>10. Answering(irq, main, radio')
    BY <2>1, <2>8, <1>11 DEF Answering
  <2>11. QED
    BY <2>4, <2>6, <2>7, <2>9, <2>10
<1>12. QED
  BY <1>1, <1>6, <1>7, <1>8, <1>9, <1>10, <1>11 DEF MainWaiting

(* The end of an operation.                                                 *)
LEMMA EndTx ==
  ASSUME LongFrames = FALSE, ServedInv, TxInv, OperationEnds
  PROVE  TxInv'
<1> USE DEF ServedInv, TxInv
<1>1. main' = main /\ IrqWaits /\ Finish /\ main.reset_n
  BY DEF OperationEnds, MainRests, MainWaits
<1>2. /\ engine'.pending = IF engine.op.name = "int_status" THEN radio.pending ELSE {}
      /\ engine'.at = 0 /\ engine'.owner = engine.owner
      /\ DoneForMain' <=> engine.owner = "main"
      /\ engine.owner \in {"main", "int"} /\ ~DoneForMain /\ RamShape'
  BY <1>1, EndEngine
<1>e. engine.at = 52 /\ CanFinish(engine.op)
  BY <1>1 DEF Finish
<1>f. engine.op.name = "int_status" => main.at # 0
  <2>1. engine.op.name = "int_status" /\ CanFinish(engine.op) => main.at # 0
    BY DEF CanFinish, CtsOps
  <2>2. QED
    BY <2>1, <1>e
<1>g. engine.owner = "int" => engine.op.name \in IrqOps
  BY <1>e DEF EngineOps
<1>h. engine.owner = "main" => main.at \in MainWaiting /\ main.op = engine.op
  BY <1>e DEF MainServed, EngineBusy, MainControl
<1>i. engine.owner = "main" => engine.op.name # "int_status"
  BY <1>h DEF MainOps, MainWaiting
<1>3. MainOps' /\ MainParts' /\ TxStateTells' /\ MainShape'
  BY <1>1 DEF MainOps, MainParts, TxStateTells, MainShape, OnAir, Prepared
(* the Irq machine *)
<1>4. irq.at \notin {4, 25, 26} /\ (irq.at = 5 => main.tx_state # "RX")
  BY <1>1 DEF IrqWaits
<1>5. /\ irq'.start = irq.start /\ irq'.op = irq.op /\ irq'.irq_dealing = irq.irq_dealing
      /\ irq'.packets_incoming = irq.packets_incoming
      /\ irq'.tx_done = irq.tx_done /\ irq'.almost_empty = irq.almost_empty
      /\ Struck \/ (irq'.at = irq.at /\ irq'.forced = irq.forced)
  <2>1. Becomes(irq) /\ DOMAIN irq = IrqFields
    BY <1>1 DEF IrqWaits, IrqShape, IrqFields
  <2>2. QED
    BY <2>1, Becoming
<1>6. main.at \in Supervised => irq'.at = irq.at /\ irq'.forced = irq.forced
  BY <1>5, NotStruck DEF Struck
<1>7. irq'.at \in {4, 5, 25} => irq'.at = 5 /\ irq.at = 5 /\ main.at \in TxStates
  BY <1>4, <1>5 DEF Struck, Pulses
<1>8. Turns' /\ Pulses'
  <2>1. CASE main.at \in Supervised
    BY <1>1, <1>5, <1>6, <2>1 DEF Turns, Pulses
  <2>2. CASE main.at \notin Supervised
    <3>1. irq.at \notin {4, 5, 25, 26}
      BY <2>2, <1>4 DEF Pulses, Supervised
    <3>2. irq'.at \notin {4, 5, 25, 26} /\ ~irq'.tx_done /\ ~irq'.almost_empty
      BY <3>1, <1>5 DEF Struck, Pulses
    <3>3. main.at \notin {95, 97}
      BY <2>2 DEF Supervised, TxStates
    <3>4. Pulses'
      BY <3>2, <3>3, <1>1 DEF Pulses
    <3>5. Turns'
      BY <2>2, <1>1, <1>5 DEF Turns, Struck
    <3>6. QED
      BY <3>4, <3>5
  <2>3. QED
    BY <2>1, <2>2
<1>9. PendingShort' /\ EngineOps'
  BY <1>1, <1>2, <1>5, <1>f, <1>i DEF PendingShort, EngineOps
(* the queue *)
<1>10. QueueWhole' /\ HeadOfFrame' /\ QueueHead'
  <2>1. /\ QueueWhole'
        /\ main.at = 62 /\ engine.owner = "main" /\ engine'.word = SyncWord =>
             Queue' # <<>> /\ Queue'[1] \in FrameLengths
        /\ main.at = 65 /\ engine.owner = "main" => engine'.word \in FrameLengths
    BY <1>1, QueueEnds
  <2>2. HeadOfFrame'
    BY <2>1, <1>1, <1>2 DEF HeadOfFrame
  <2>3. CASE engine.owner = "main"
    BY <2>1, <2>2, <2>3, <1>1, <1>2, <1>h DEF QueueHead, AtLength, MainWaiting
  <2>4. CASE engine.owner = "int"
    <3>1. Queue' = Queue
      BY <2>4, <1>1, <1>g, EndEngine DEF IrqOps
    <3>2. AtLength' => AtLength
      BY <2>4, <1>1, <1>2 DEF AtLength
    <3>3. QED
      BY <3>1, <3>2, <2>1, <2>2 DEF QueueHead
  <2>5. QED
    BY <2>1, <2>2, <2>3, <2>4, <1>2
(* the radio *)
<1>p. /\ RadioShape' /\ ReadOnce'
      /\ Counted(main, radio', DoneForMain') /\ InMode(main, radio', DoneForMain')
      /\ Notified(main, radio', radio'.pending) /\ Notified(main, radio', engine'.pending)
      /\ Answering(irq, main, radio')
  <2>0. ReadOnce'
    <3>1. main.at # 0 /\ engine.op.name = "int_status" => radio'.pending = {}
      BY <1>1, RadioEnds
    <3>2. QED
      BY <3>1, <1>2, <1>f DEF ReadOnce
  <2>f. DoneForMain = FALSE /\ DoneForMain' = (engine.owner = "main")
    BY <1>2 DEF DoneForMain, DoneFor
  <2>1. CASE main.at = 0
    <3>1. radio' = RadioOff /\ DOMAIN radio' = DOMAIN radio
      BY <1>1, <2>1, RadioEnds
    <3>2. radio'.txfifo = 0 /\ radio'.pending = {} /\ radio'.mode = "off" /\ radio'.sent = 0
      BY <3>1 DEF RadioOff
    <3>3. engine'.pending = {} /\ DoneForMain' = FALSE
      BY <2>1, <2>f, <1>2, <1>f, <1>h DEF MainWaiting
    <3>4. Counted(main, radio', FALSE) /\ InMode(main, radio', FALSE)
      BY <2>1, <3>2 DEF Counted, Loaded, InMode, Prepared, OnAir
    <3>5. Notified(main, radio', radio'.pending) /\ Notified(main, radio', engine'.pending)
      BY <3>2, <3>3 DEF Notified
    <3>6. irq.at \notin {4, 5, 25}
      BY <2>1, <1>4 DEF Pulses, TxStates
    <3>7. Answering(irq, main, radio')
      BY <3>6 DEF Answering
    <3>8. RadioShape'
      BY <3>1, <3>2 DEF RadioShape
    <3>9. QED
      BY <2>0, <3>3, <3>4, <3>5, <3>7, <3>8
  <2>2. CASE main.at # 0 /\ engine.owner = "int"
    <3>1. Settles(radio') /\ radio'.pending \subseteq radio.pending /\ DOMAIN radio' = DOMAIN radio
      BY <1>1, <1>g, <2>2, RadioEnds
    <3>2. engine'.pending \subseteq radio.pending
      BY <1>2
    <3>3. Counted(main, radio, FALSE) /\ InMode(main, radio, FALSE) /\ DoneForMain' = FALSE
      BY <2>f, <2>2
    <3>4. /\ Counted(main, radio', FALSE) /\ InMode(main, radio', FALSE)
          /\ Notified(main, radio', radio'.pending) /\ Answering(irq, main, radio')
      BY <2>2, <3>1, <3>3, SettlesKeeps
    <3>5. Notified(main, radio', engine'.pending)
      BY <2>2, <3>1, <3>2, <3>3, SettlesKeeps
    <3>6. RadioShape'
      BY <3>1 DEF Settles, RadioShape
    <3>7. QED
      BY <2>0, <3>3, <3>4, <3>5, <3>6
  <2>3. CASE main.at # 0 /\ engine.owner = "main"
    <3>1. engine'.pending = {} /\ DoneForMain' = TRUE
      BY <2>3, <2>f, <1>2, <1>i
    <3>2. /\ RadioShape' /\ Counted(main, radio', TRUE) /\ InMode(main, radio', TRUE)
          /\ Notified(main, radio', radio'.pending) /\ Answering(irq, main, radio')
      BY <1>1, <1>4, <2>3, MainEnds
    <3>3. Notified(main, radio', engine'.pending)
      BY <3>1 DEF Notified
    <3>4. QED
      BY <2>0, <3>1, <3>2, <3>3
  <2>4. QED
    BY <1>2, <2>1, <2>2, <2>3
<1>q. Answering(irq', main', radio')
  BY <1>1, <1>7, <1>p DEF Answering
<1>r. QED
  BY <1>1, <1>2, <1>3, <1>8, <1>9, <1>10, <1>p, <1>q

(* A reset.                                                                 *)
LEMMA ResetTx ==
  ASSUME ServedInv, TxInv, NEW leftover, ResetAll(leftover),
         RamShape', Queue' \in {Queue, <<>>}
  PROVE  TxInv'
<1> USE DEF TxInv
<1>1. /\ main'.at = 0 /\ main'.tx_state = "none"
      /\ irq'.at = 0 /\ ~irq'.start /\ ~irq'.irq_dealing /\ ~irq'.tx_done /\ ~irq'.almost_empty
      /\ ~irq'.forced
      /\ engine'.at = 0 /\ engine'.pending = {} /\ ~DoneForMain'
      /\ radio' = radio
  BY DEF ResetAll, MainInit, IrqReset, IrqInit, EngineReset, EngineInit, DoneForMain, DoneFor
<1>2. RadioShape' /\ MainOps' /\ MainParts' /\ TxStateTells' /\ HeadOfFrame'
  BY <1>1 DEF RadioShape, MainOps, MainParts, TxStateTells, HeadOfFrame, TxStates, Prepared, OnAir
<1>3. QueueWhole' /\ QueueHead'
  <2>1. Whole(<<>>)
    BY DEF Whole
  <2>2. QueueWhole'
    BY <2>1 DEF QueueWhole
  <2>3. QED
    BY <2>2, <1>1 DEF QueueHead, AtLength
<1>4. PendingShort' /\ EngineOps' /\ ReadOnce'
  BY <1>1 DEF PendingShort, EngineOps, ReadOnce
<1>5. Turns' /\ Pulses'
  BY <1>1 DEF Turns, Pulses, Supervised, TxStates
<1>6. Counted(main', radio', DoneForMain') /\ InMode(main', radio', DoneForMain')
  BY <1>1 DEF Counted, Loaded, InMode, Prepared, OnAir
<1>7. /\ Notified(main', radio', radio'.pending) /\ Notified(main', radio', engine'.pending)
      /\ Answering(irq', main', radio')
  BY <1>1 DEF Notified, Answering, OnAir
<1>8. QED
  BY <1>2, <1>3, <1>4, <1>5, <1>6, <1>7

(* The machines at power-up.                                                *)
LEMMA InitTx == WirelessInit => TxInv
<1> SUFFICES ASSUME WirelessInit
             PROVE  TxInv
  OBVIOUS
<1>1. /\ main.at = 255 /\ main.tx_state = "none"
      /\ irq.at = 0 /\ ~irq.start /\ ~irq.irq_dealing /\ ~irq.tx_done /\ ~irq.almost_empty
      /\ ~irq.forced
      /\ engine.at = 0 /\ engine.pending = {} /\ ~DoneForMain
      /\ radio = RadioOff /\ Queue = <<>> /\ RamShape
  BY DEF WirelessInit, MainInit, IrqInit, EngineInit, DoneForMain, DoneFor, Queue, RamShape
<1>2. /\ radio.txfifo = 0 /\ radio.pending = {} /\ radio.mode = "off" /\ radio.sent = 0
      /\ RadioShape
  BY <1>1 DEF RadioOff, RadioShape
<1>3. MainOps /\ MainParts /\ TxStateTells /\ HeadOfFrame
  BY <1>1 DEF MainOps, MainParts, TxStateTells, HeadOfFrame, TxStates, Prepared, OnAir
<1>4. QueueWhole /\ QueueHead
  <2>1. Whole(<<>>)
    BY DEF Whole
  <2>2. QED
    BY <2>1, <1>1 DEF QueueWhole, QueueHead, AtLength
<1>5. PendingShort /\ EngineOps /\ ReadOnce
  BY <1>1 DEF PendingShort, EngineOps, ReadOnce
<1>6. Turns /\ Pulses
  BY <1>1 DEF Turns, Pulses, Supervised, TxStates
<1>7. Counted(main, radio, DoneForMain) /\ InMode(main, radio, DoneForMain)
  <2>1. MAX_FIFO_SIZE \in Nat
    BY Constants
  <2>2. QED
    BY <2>1, <1>1, <1>2 DEF Counted, Loaded, InMode, Prepared, OnAir
<1>8. /\ Notified(main, radio, radio.pending) /\ Notified(main, radio, engine.pending)
      /\ Answering(irq, main, radio)
  BY <1>1, <1>2 DEF Notified, Answering
<1>9. QED
  BY <1>1, <1>2, <1>3, <1>4, <1>5, <1>6, <1>7, <1>8 DEF TxInv

(* The invariant is inductive.                                              *)
LEMMA NextTx ==
  ASSUME LongFrames = FALSE, ServedInv, TxInv, [WirelessNext]_vars
  PROVE  ServedInv' /\ TxInv'
<1>1. CASE Edge
  BY <1>1, EdgeStep, EdgeTx
<1>2. CASE OperationEnds
  BY <1>2, EndStep, EndTx
<1>3. CASE CtsError
  <2>1. ResetAll(Leftover) /\ RamShape' /\ Queue' = Queue
    BY <1>3 DEF CtsError, TxInv, RamShape, Queue
  <2>2. QED
    BY <2>1, ResetStep, ResetTx
<1>4. CASE NewConfig
  <2>1. ResetAll(FALSE) /\ RamShape' /\ Queue' = <<>>
    BY <1>4 DEF NewConfig, TxInv, RamShape, Queue
  <2>2. QED
    BY <2>1, ResetStep, ResetTx
<1>5. CASE UNCHANGED vars
  <2>1. ServedInv'
    BY <1>5 DEF vars, ServedInv, MainShape, MainControl, IrqShape, IrqControl,
                EngineShape, EngineControl, MainServed, IrqServed, EngineBusy
  <2>2. UNCHANGED <<main, irq, engine, radio, ram>>
    BY <1>5 DEF vars
  <2>3. RamShape' /\ RadioShape' /\ MainOps' /\ MainParts' /\ TxStateTells' /\ HeadOfFrame'
    BY <2>2 DEF TxInv, RamShape, RadioShape, MainOps, MainParts, TxStateTells, HeadOfFrame,
                DoneForMain, DoneFor
  <2>4. QueueWhole' /\ QueueHead'
    BY <2>2 DEF TxInv, QueueWhole, QueueHead, AtLength, Queue, DoneForMain, DoneFor
  <2>5. PendingShort' /\ EngineOps' /\ ReadOnce' /\ Turns' /\ Pulses'
    BY <2>2 DEF TxInv, PendingShort, EngineOps, ReadOnce, Turns, Pulses
  <2>6. /\ Counted(main', radio', DoneForMain') /\ InMode(main', radio', DoneForMain')
        /\ Notified(main', radio', radio'.pending) /\ Notified(main', radio', engine'.pending)
        /\ Answering(irq', main', radio')
    BY <2>2 DEF TxInv, DoneForMain, DoneFor
  <2>7. QED
    BY <2>1, <2>3, <2>4, <2>5, <2>6 DEF TxInv
<1>6. QED
  BY <1>1, <1>2, <1>3, <1>4, <1>5 DEF WirelessNext

-----------------------------------------------------------------------------
(* The end of a transmission that the Main machine takes in state 93 is     *)
(* that of the frame it has just sent, to its last byte: PACKET_SENT of a   *)
(* frame before never reaches it.                                           *)
THEOREM TxDoneAlwaysOwn ==
  ASSUME LongFrames = FALSE
  PROVE  WirelessSpec => []TxDoneOwn
<1>1. WirelessInit => ServedInv /\ TxInv
  BY InitServed, InitTx
<1>2. ServedInv /\ TxInv /\ [WirelessNext]_vars => (ServedInv /\ TxInv)'
  BY NextTx
<1>3. TxInv => TxDoneOwn
  BY DEF TxInv, TxDoneOwn, Pulses, Answering, AllSent
<1>4. QED
  BY <1>1, <1>2, <1>3, PTL DEF WirelessSpec

(* The pulse of states 25 and 26 never passes while the Main machine is     *)
(* elsewhere: it has taken it and is in state 100, to refill.               *)
THEOREM RefillAlwaysSeen ==
  ASSUME LongFrames = FALSE
  PROVE  WirelessSpec => []RefillSeen
<1>1. WirelessInit => ServedInv /\ TxInv
  BY InitServed, InitTx
<1>2. ServedInv /\ TxInv /\ [WirelessNext]_vars => (ServedInv /\ TxInv)'
  BY NextTx
<1>3. TxInv => RefillSeen
  BY DEF TxInv, RefillSeen, Pulses
<1>4. QED
  BY <1>1, <1>2, <1>3, PTL DEF WirelessSpec

-----------------------------------------------------------------------------
(* The queue begins with n words that are no sync words; a frame or nothing *)
(* follows.                                                                 *)
Ahead(q, n) ==
  /\ n \in 0 .. Len(q)
  /\ \A i \in 1 .. n : q[i] # SyncWord
  /\ n = Len(q) \/ q[n + 1] = SyncWord

(* The places of what is left of a sequence.                                *)
LEMMA Suffix ==
  ASSUME NEW q \in Seq(Int), NEW k \in 0 .. Len(q)
  PROVE  LET s == SubSeq(q, k + 1, Len(q))
         IN /\ s \in Seq(Int) /\ Len(s) = Len(q) - k
            /\ \A i \in 1 .. Len(s) : s[i] = q[i + k]
<1> DEFINE s == SubSeq(q, k + 1, Len(q))
<1>0. Len(q) \in Nat
  OBVIOUS
<1>1. s \in Seq(Int) /\ Len(s) = Len(q) - k
  BY <1>0
<1>2. ASSUME NEW i \in 1 .. Len(s)
      PROVE  s[i] = q[i + k]
  BY <1>0, <1>1
<1>3. QED
  BY <1>1, <1>2

(* As many words fewer are ahead as are read.                               *)
LEMMA AheadSuffix ==
  ASSUME NEW q \in Seq(Int), NEW n, Ahead(q, n), NEW k \in 0 .. n
  PROVE  Ahead(SubSeq(q, k + 1, Len(q)), n - k)
<1> DEFINE s == SubSeq(q, k + 1, Len(q))
<1>0. Len(q) \in Nat /\ n \in 0 .. Len(q) /\ k \in 0 .. Len(q)
  BY DEF Ahead
<1>s. s \in Seq(Int) /\ Len(s) = Len(q) - k /\ \A i \in 1 .. Len(s) : s[i] = q[i + k]
  BY <1>0, Suffix
<1> HIDE DEF s
<1>1. ASSUME NEW i \in 1 .. Len(s)
      PROVE  s[i] = q[i + k]
  BY <1>s
<1>l. Len(s) = Len(q) - k /\ Len(s) \in Nat
  BY <1>s, <1>0
<1>2. n - k \in 0 .. Len(s)
  BY <1>0, <1>l
<1>3. ASSUME NEW i \in 1 .. n - k
      PROVE  s[i] # SyncWord
  <2>1. i \in 1 .. Len(s) /\ i + k \in 1 .. n
    BY <1>0, <1>l
  <2>2. QED
    BY <2>1, <1>1 DEF Ahead
<1>4. n - k = Len(s) \/ s[(n - k) + 1] = SyncWord
  <2>1. CASE n = Len(q)
    BY <2>1, <1>0, <1>l
  <2>2. CASE n # Len(q)
    <3>1. (n - k) + 1 \in 1 .. Len(s) /\ ((n - k) + 1) + k = n + 1
      BY <2>2, <1>0, <1>l
    <3>2. s[(n - k) + 1] = q[((n - k) + 1) + k]
      BY <3>1, <1>1
    <3>3. QED
      BY <3>1, <3>2, <2>2 DEF Ahead
  <2>3. QED
    BY <2>1, <2>2
<1>5. QED
  BY <1>2, <1>3, <1>4 DEF Ahead, s

(* A frame behind an empty queue, or behind the next sync word.             *)
LEMMA AheadGrows ==
  ASSUME NEW q \in Seq(Int), Ahead(q, 0), NEW l \in FrameLengths
  PROVE  Ahead(q \o FrameWords(l), 0)
<1> DEFINE f == FrameWords(l)
           s == q \o f
<1>1. f \in Seq(Int) /\ Len(f) = 2 + Words(l) /\ f[1] = SyncWord /\ Words(l) \in Nat
  BY OneFrame, Constants, WordsNat
<1> HIDE DEF f
<1>2. /\ s \in Seq(Int) /\ Len(s) = Len(q) + Len(f)
      /\ \A j \in 1 .. Len(q) : s[j] = q[j]
      /\ \A j \in 1 .. Len(f) : s[Len(q) + j] = f[j]
  BY <1>1, Joined
<1> HIDE DEF s
<1>3. s[1] = SyncWord
  <2>1. CASE Len(q) = 0
    <3>1. 1 \in 1 .. Len(f) /\ Len(q) + 1 = 1
      BY <1>1, <2>1
    <3>2. QED
      BY <3>1, <1>1, <1>2
  <2>2. CASE Len(q) # 0
    <3>1. 1 \in 1 .. Len(q) /\ 0 + 1 = 1
      BY <2>2
    <3>2. QED
      BY <3>1, <2>2, <1>2 DEF Ahead
  <2>3. QED
    BY <2>1, <2>2
<1>4. 0 \in 0 .. Len(s) /\ 0 + 1 = 1
  BY <1>2
<1>5. QED
  BY <1>3, <1>4 DEF Ahead, s, f

(* The head of a frame.                                                     *)
LEMMA AheadOfFrame ==
  ASSUME NEW q, Whole(q), q # <<>>, q[1] = SyncWord
  PROVE  LET s == SubSeq(q, 2, Len(q))
         IN s # <<>> /\ s[1] \in FrameLengths /\ Ahead(s, 1 + Words(s[1]))
<1> DEFINE s == SubSeq(q, 2, Len(q))
<1>q. q \in Seq(Int) /\ Len(q) \in Nat /\ Len(q) >= 1
  BY DEF Whole
<1>0. FrameAt(q, 1)
  BY <1>q DEF Whole
<1>1. PICK l \in FrameLengths :
        /\ 1 + 1 + Words(l) <= Len(q) /\ q[1 + 1] = l
        /\ \A j \in 1 + 1 .. 1 + 1 + Words(l) : q[j] # SyncWord
        /\ 1 + 1 + Words(l) = Len(q) \/ q[1 + 1 + Words(l) + 1] = SyncWord
  BY <1>0 DEF FrameAt
<1> DEFINE w == Words(l)
<1>2. w \in Nat
  BY Constants, WordsNat
<1> HIDE DEF w
<1>3. /\ 2 + w <= Len(q) /\ q[2] = l
      /\ \A j \in 2 .. 2 + w : q[j] # SyncWord
      /\ 2 + w = Len(q) \/ q[3 + w] = SyncWord
  <2>1. 1 + 1 = 2 /\ 1 + 1 + w = 2 + w /\ 1 + 1 + w + 1 = 3 + w
    BY <1>2
  <2>2. QED
    BY <1>1, <2>1 DEF w
<1>t. 1 \in 0 .. Len(q) /\ s = SubSeq(q, 1 + 1, Len(q))
  BY <1>q
<1>4. s \in Seq(Int) /\ Len(s) = Len(q) - 1
  BY <1>q, <1>t, Suffix
<1>5. ASSUME NEW i \in 1 .. Len(s)
      PROVE  s[i] = q[i + 1]
  BY <1>q, <1>t, Suffix
<1> HIDE DEF s
<1>6. Len(s) >= 1 + w
  BY <1>2, <1>3, <1>4, <1>q
<1>7. s # <<>> /\ s[1] = l
  <2>1. Len(s) # 0 /\ Len(<<>>) = 0 /\ 1 \in 1 .. Len(s)
    BY <1>2, <1>4, <1>6, <1>q
  <2>2. s[1] = q[1 + 1] /\ 1 + 1 = 2
    BY <2>1, <1>5
  <2>3. QED
    BY <2>1, <2>2, <1>3
<1>8. 1 + w \in 0 .. Len(s)
  BY <1>2, <1>4, <1>6, <1>q
<1>9. ASSUME NEW i \in 1 .. 1 + w
      PROVE  s[i] # SyncWord
  <2>1. i \in 1 .. Len(s) /\ i + 1 \in 2 .. 2 + w
    BY <1>2, <1>4, <1>6, <1>q
  <2>2. QED
    BY <2>1, <1>3, <1>5
<1>10. 1 + w = Len(s) \/ s[1 + w + 1] = SyncWord
  <2>1. CASE 2 + w = Len(q)
    BY <2>1, <1>2, <1>4, <1>q
  <2>2. CASE 2 + w # Len(q)
    <3>1. 1 + w + 1 \in 1 .. Len(s) /\ (1 + w + 1) + 1 = 3 + w
      BY <2>2, <1>2, <1>3, <1>4, <1>q
    <3>2. s[1 + w + 1] = q[3 + w]
      BY <3>1, <1>5
    <3>3. QED
      BY <2>2, <3>2, <1>3
  <2>3. QED
    BY <2>1, <2>2
<1>11. QED
  BY <1>7, <1>8, <1>9, <1>10 DEF Ahead, s, w

(* The words of the parts of a frame, but for the last part even, add up.   *)
LEMMA WordsSplit ==
  ASSUME NEW a \in Nat, NEW b \in Nat, a <= b, a = b \/ a % 2 = 0
  PROVE  Words(a) \in 0 .. Words(b) /\ Words(b) - Words(a) = Words(b - a)
<1>1. Words(a) \in Nat /\ Words(b) \in Nat
  BY WordsNat
<1>2. CASE a = b
  BY <1>1, <1>2 DEF Words
<1>3. CASE a % 2 = 0
  BY <1>3 DEF Words
<1>4. QED
  BY <1>2, <1>3

(* What of the frame under way is still in FIFO_I, state by state.          *)
Before == Idle \cup {60, 95, 97}
InStep ==
  /\ main.at \in Before \/ (main.at = 62 /\ ~DoneForMain) =>
       main.aborted \/ Ahead(Queue, 0)
  /\ main.at = 62 /\ DoneForMain /\ engine.word # SyncWord => main.aborted
  /\ AtLength => Ahead(Queue, 1 + Words(Queue[1]))
  /\ main.at = 65 /\ DoneForMain => Ahead(Queue, Words(engine.word))
  /\ main.at \in {66, 70, 72, 73, 74} \/ (main.at = 76 /\ ~DoneForMain) =>
       Ahead(Queue, Words(main.len))
  /\ \/ main.at \in {93, 100} \cup Prepared
     \/ main.at \in {76, 103} /\ DoneForMain
     => Ahead(Queue, Words(main.len - main.pos))
  /\ main.at = 101 \/ (main.at = 103 /\ ~DoneForMain) =>
       Ahead(Queue, Words((main.len - main.pos) + (main.op.len - 1)))
(* All chunks but the last have an even number of bytes: FIFO_I gives two   *)
(* at a time.                                                               *)
WholeWords ==
  /\ main.at = 74 \/ main.at = 76 => main.pos = main.len \/ main.pos % 2 = 0
  /\ main.at = 101 \/ main.at = 103 => main.pos = main.len \/ (main.op.len - 1) % 2 = 0

(* The assumption behind it: the FIFO and the threshold are even.           *)
LEMMA EvenParts ==
  /\ MAX_FIFO_SIZE % 2 = 0 /\ TX_THRESHOLD % 2 = 0
  BY WirelessAssumption

(* An edge of the Main machine cuts the frame at a whole word.              *)
LEMMA WordsEdge ==
  ASSUME MainDoes, MainParts, WholeWords
  PROVE  WholeWords'
<1> USE DEF From, Takes, Walks, Orders, Keeps, KeepsFrame, WholeWords
<1>1. CASE SetsUp
  BY <1>1 DEF SetsUp, Idle
<1>2. CASE Listens \/ Skips \/ Fetches
  BY <1>2 DEF Listens, Skips, Fetches
<1>3. CASE Fills
  BY <1>3, EvenParts DEF Fills
<1>4. CASE ListensFirst \/ Begins \/ Sends
  BY <1>4 DEF ListensFirst, Begins, Sends
<1>5. CASE Refills
  <2>1. CASE From(93, 100)
    BY <2>1
  <2>2. CASE From(100, 101)
    <3>1. \/ main'.pos = main.len /\ main'.len = main.len
          \/ main'.op.len = TX_THRESHOLD + 1
      BY <2>2, <1>5 DEF Refills, Op
    <3>2. (TX_THRESHOLD + 1) - 1 = TX_THRESHOLD
      BY Constants
    <3>3. main'.op.len = TX_THRESHOLD + 1 => (main'.op.len - 1) % 2 = 0
      BY <3>2, EvenParts
    <3>4. QED
      BY <2>2, <3>1, <3>3
  <2>3. CASE Walks(101, 103)
    BY <2>3
  <2>4. QED
    BY <1>5, <2>1, <2>2, <2>3 DEF Refills
<1>6. CASE GivesUp \/ Returns \/ Stands
  BY <1>6 DEF GivesUp, Returns, Stands
<1>7. QED
  BY <1>1, <1>2, <1>3, <1>4, <1>5, <1>6 DEF MainDoes

(* No edge changes what of the frame is still in FIFO_I.                    *)
LEMMA FrameEdge ==
  ASSUME MainDoes, MainParts, QueueWhole, QueueGrows, ~DoneForMain', InStep,
         main.at = 93 /\ irq.tx_done => main.pos = main.len
  PROVE  InStep'
<1>c. /\ TX_THRESHOLD \in Nat /\ MAX_FIFO_SIZE \in Nat
      /\ \A l \in FrameLengths : l \in Nat /\ l > 0
  BY Constants
<1>g. /\ main.at # 60 => Queue' = Queue
      /\ Ahead(Queue, 0) => Ahead(Queue', 0)
  BY AheadGrows DEF QueueGrows, QueueWhole, Whole
<1> HIDE DEF Queue
<1> USE <1>g DEF From, Takes, Walks, Orders, Keeps, KeepsFrame, Before, AtLength
<1>l. Leftover \/ Ahead(Queue, 0)
  <2>1. CASE Queue = <<>>
    BY <2>1 DEF Ahead
  <2>2. CASE Queue # <<>> /\ Head(Queue) = SyncWord
    <3>1. Queue[0 + 1] = SyncWord /\ 0 \in 0 .. Len(Queue)
      BY <2>2 DEF QueueWhole, Whole
    <3>2. QED
      BY <3>1 DEF Ahead
  <2>3. QED
    BY <2>1, <2>2 DEF Leftover, Queue
<1>1. CASE SetsUp
  <2>1. main.aborted \/ Ahead(Queue, 0)
    BY <1>1 DEF SetsUp, InStep
  <2>2. main'.at \in Idle /\ main'.aborted = main.aborted
    BY <1>1 DEF SetsUp
  <2>3. QED
    BY <2>1, <2>2 DEF InStep, Idle, Prepared
<1>2. CASE Listens
  <2>1. (main.aborted \/ Ahead(Queue, 0)) /\ main'.at = 60 /\ main'.aborted = main.aborted
    BY <1>2 DEF Listens, InStep, Idle
  <2>2. QED
    BY <2>1 DEF InStep, Idle, Prepared
<1>3. CASE Skips
  <2>1. main'.at = 60 /\ (main'.aborted \/ Ahead(Queue, 0))
    BY <1>3, <1>l DEF Skips, InStep
  <2>2. QED
    BY <2>1 DEF InStep, Idle, Prepared
<1>4. CASE Fetches
  <2>1. CASE main.at = 60
    <3>1. main'.at = 62 /\ main'.aborted = main.aborted
      BY <1>4, <2>1 DEF Fetches
    <3>2. QED
      BY <2>1, <3>1 DEF InStep, Idle, Prepared
  <2>2. CASE main.at \in {62, 63}
    <3>1. main'.at \in {63, 65} /\ AtLength
      BY <1>4, <2>2 DEF Fetches
    <3>2. QED
      BY <2>2, <3>1 DEF InStep, Idle, Prepared
  <2>3. CASE main.at = 65
    <3>1. main'.at = 66 /\ main'.len = engine.word /\ DoneForMain
      BY <1>4, <2>3 DEF Fetches
    <3>2. QED
      BY <2>3, <3>1 DEF InStep, Idle, Prepared
  <2>4. QED
    BY <1>4, <2>1, <2>2, <2>3 DEF Fetches
<1>5. CASE Fills
  <2>1. CASE main.at \in {66, 70, 72, 73, 74}
    <3>1. main'.at \in {70, 72, 73, 74, 76} /\ main'.len = main.len
      BY <1>5, <2>1 DEF Fills
    <3>2. QED
      BY <2>1, <3>1 DEF InStep, Idle, Prepared
  <2>2. CASE main.at = 76
    <3>1. main'.at = 80 /\ main'.len = main.len /\ main'.pos = main.pos /\ DoneForMain
      BY <1>5, <2>2 DEF Fills
    <3>2. QED
      BY <2>2, <3>1 DEF InStep, Idle, Prepared
  <2>3. QED
    BY <1>5, <2>1, <2>2 DEF Fills
<1>6. CASE ListensFirst \/ Begins
  <2>1. /\ main.at \in {80, 81, 82, 90} /\ main'.at \in {80, 81, 82, 90, 92}
        /\ main'.len = main.len /\ main'.pos = main.pos
    BY <1>6 DEF ListensFirst, Begins
  <2>2. QED
    BY <2>1 DEF InStep, Idle, Prepared
<1>7. CASE Sends
  <2>1. /\ main.at = 92 \/ (main.at = 103 /\ DoneForMain)
        /\ main'.at = 93 /\ main'.len = main.len /\ main'.pos = main.pos
    BY <1>7 DEF Sends
  <2>2. QED
    BY <2>1 DEF InStep, Idle, Prepared
<1>8. CASE Refills
  <2>1. CASE From(93, 100)
    <3>1. main'.len = main.len /\ main'.pos = main.pos
      BY <1>8, <2>1 DEF Refills
    <3>2. QED
      BY <2>1, <3>1 DEF InStep, Idle, Prepared
  <2>2. CASE From(100, 101)
    <3>1. /\ main'.len = main.len /\ main.remain = main.len - main.pos
          /\ main.len \in Nat /\ main.pos \in Nat
      BY <2>2, <1>8, <1>c DEF Refills, MainParts, OnAir
    <3>2. \/ main'.pos = main.len /\ main'.op.len = main.remain + 1
          \/ main'.pos = main.pos + TX_THRESHOLD /\ main'.op.len = TX_THRESHOLD + 1
      BY <2>2, <1>8 DEF Refills, Op
    <3>3. (main'.len - main'.pos) + (main'.op.len - 1) = main.len - main.pos
      BY <3>1, <3>2, <1>c
    <3>4. QED
      BY <2>2, <3>3 DEF InStep, Idle, Prepared
  <2>3. CASE Walks(101, 103)
    BY <2>3 DEF InStep, Idle, Prepared
  <2>4. QED
    BY <1>8, <2>1, <2>2, <2>3 DEF Refills
<1>9. CASE GivesUp
  <2>1. main'.at = 0 /\ main.at = 93 /\ (main'.aborted \/ Ahead(Queue, 0))
    BY <1>9, <1>l DEF GivesUp
  <2>2. QED
    BY <2>1 DEF InStep, Idle, Prepared
<1>10. CASE Returns
  <2>1. CASE main.at = 93
    <3>1. main'.at = 95 /\ main.pos = main.len
      BY <1>10, <2>1 DEF Returns
    <3>2. Words(main.len - main.pos) = 0
      <4>1. main.len - main.pos = 0
        BY <3>1, <2>1, <1>c DEF MainParts, OnAir
      <4>2. QED
        BY <4>1 DEF Words
    <3>3. Ahead(Queue, 0)
      BY <2>1, <3>2 DEF InStep
    <3>4. QED
      BY <2>1, <3>1, <3>3 DEF InStep, Idle, Prepared
  <2>2. CASE main.at \in {95, 97}
    <3>1. main'.at \in {97, 60} /\ main'.aborted = main.aborted
      BY <1>10, <2>2 DEF Returns
    <3>2. QED
      BY <2>2, <3>1 DEF InStep, Idle, Prepared
  <2>3. QED
    BY <1>10, <2>1, <2>2 DEF Returns
<1>11. CASE Stands
  <2>1. main' = main /\ (main.at \in MainWaiting => ~DoneForMain)
    BY <1>11 DEF Stands
  <2>2. CASE main.at = 60
    BY <2>1, <2>2 DEF InStep, Idle, Prepared
  <2>3. CASE main.at # 60
    BY <2>1, <2>3 DEF InStep, Idle, Prepared, MainWaiting
  <2>4. QED
    BY <2>2, <2>3
<1>12. QED
  BY <1>1, <1>2, <1>3, <1>4, <1>5, <1>6, <1>7, <1>8, <1>9, <1>10, <1>11 DEF MainDoes

(* What the reading of one word takes out of FIFO_I.                        *)
LEMMA WordTaken ==
  ASSUME EngineShape, EngineControl, RamShape, QueueWhole, Finish, engine.op.name = "word"
  PROVE  /\ Queue # <<>> /\ engine'.word = Queue[1]
         /\ Queue' = SubSeq(Queue, 2, Len(Queue))
<1>1. CanFinish(engine.op) => ram.fifo_i # <<>>
  BY DEF CanFinish, CtsOps
<1>2. Queue # <<>>
  BY <1>1 DEF Finish, Queue
<1>3. Queue' = Tail(Queue) /\ engine'.word = Head(Queue)
  BY EndEngine
<1>4. Queue \in Seq(Int)
  BY DEF QueueWhole, Whole
<1> HIDE DEF Queue
<1>5. Tail(Queue) = SubSeq(Queue, 2, Len(Queue)) /\ Head(Queue) = Queue[1]
  BY <1>2, <1>4
<1>6. QED
  BY <1>2, <1>3, <1>5

(* What the filling of the radio's FIFO takes out of it.                    *)
LEMMA WordsTaken ==
  ASSUME EngineShape, EngineControl, RamShape, Finish, engine.op.name = "fill"
  PROVE  /\ Queue' = SubSeq(Queue, Words(engine.op.len - 1) + 1, Len(Queue))
         /\ Words(engine.op.len - 1) <= Len(Queue)
<1>1. CanFinish(engine.op) => Len(ram.fifo_i) >= FilledWords(engine.op)
  BY DEF CanFinish, CtsOps
<1>2. /\ FilledWords(engine.op) = Words(engine.op.len - 1)
      /\ Queue' = SubSeq(Queue, FilledWords(engine.op) + 1, Len(Queue))
  BY EndEngine DEF FilledWords
<1>3. QED
  BY <1>1, <1>2 DEF Finish, Queue

(* The end of an operation takes out of FIFO_I what the Main machine        *)
(* counts.                                                                  *)
LEMMA FrameEnds ==
  ASSUME ServedInv, TxInv, InStep, WholeWords, OperationEnds
  PROVE  InStep' /\ WholeWords'
<1> USE DEF ServedInv, TxInv
<1>1. main' = main /\ Finish
  BY DEF OperationEnds, MainRests, MainWaits
<1>a. WholeWords'
  BY <1>1 DEF WholeWords
<1>2. /\ DoneForMain' <=> engine.owner = "main"
      /\ engine.owner \in {"main", "int"} /\ ~DoneForMain
      /\ engine.op.name \notin {"word", "fill"} => Queue' = Queue
      /\ engine.at = 52
  BY <1>1, EndEngine DEF Finish
<1>3. engine.owner = "main" => main.at \in MainWaiting /\ main.op = engine.op
  BY <1>2 DEF MainServed, EngineBusy, MainControl
<1>q. Queue \in Seq(Int) /\ Len(Queue) \in Nat
  BY DEF QueueWhole, Whole
<1>c. /\ TX_THRESHOLD \in Nat /\ MAX_FIFO_SIZE \in Nat
      /\ \A l \in FrameLengths : l \in Nat /\ l > 0
  BY Constants
<1> HIDE DEF Queue
<1> USE DEF Before, AtLength
<1>4. CASE engine.owner = "int"
  <2>1. Queue' = Queue
    BY <1>2, <1>4 DEF EngineOps, IrqOps
  <2>2. ~DoneForMain' /\ (AtLength' <=> AtLength)
    BY <1>1, <1>2, <1>4
  <2>3. InStep'
    BY <1>1, <1>2, <2>1, <2>2 DEF InStep
  <2>4. QED
    BY <2>3, <1>a
<1>5. CASE engine.owner = "main"
  <2>0. DoneForMain' /\ main.at \in MainWaiting /\ main.op = engine.op
    BY <1>2, <1>3, <1>5
  <2>1. CASE main.at \in {6, 42, 52, 56, 77, 97, 72, 92}
    <3>1. Queue' = Queue
      BY <1>2, <2>0, <2>1 DEF MainOps
    <3>2. InStep'
      BY <1>1, <1>2, <2>0, <2>1, <3>1 DEF InStep, Idle, Prepared
    <3>3. QED
      BY <3>2, <1>a
  <2>2. CASE main.at = 62
    <3>1. Queue # <<>> /\ engine'.word = Queue[1] /\ Queue' = SubSeq(Queue, 2, Len(Queue))
      BY <1>1, <2>0, <2>2, WordTaken DEF MainOps
    <3>2. engine'.word # SyncWord => main.aborted
      <4>1. Ahead(Queue, 0) => Queue[1] = SyncWord
        <5>1. 0 # Len(Queue) /\ 0 + 1 = 1
          BY <3>1, <1>q
        <5>2. QED
          BY <5>1 DEF Ahead
      <4>2. QED
        BY <4>1, <3>1, <2>2, <1>2 DEF InStep
    <3>3. engine'.word = SyncWord => Ahead(Queue', 1 + Words(Queue'[1]))
      BY <3>1, AheadOfFrame DEF QueueWhole
    <3>4. InStep'
      BY <1>1, <2>0, <2>2, <3>2, <3>3 DEF InStep, Idle, Prepared
    <3>5. QED
      BY <3>4, <1>a
  <2>3. CASE main.at = 65
    <3>1. Queue # <<>> /\ engine'.word = Queue[1] /\ Queue' = SubSeq(Queue, 2, Len(Queue))
      BY <1>1, <2>0, <2>3, WordTaken DEF MainOps
    <3>2. Queue[1] \in FrameLengths /\ Ahead(Queue, 1 + Words(Queue[1]))
      BY <1>2, <2>3 DEF InStep, QueueHead
    <3> DEFINE n == Words(Queue[1])
    <3>3. n \in Nat
      BY <3>2, <1>c, WordsNat
    <3>4. Ahead(Queue, 1 + n)
      BY <3>2
    <3> HIDE DEF n
    <3>5. 1 \in 0 .. (1 + n) /\ (1 + n) - 1 = n /\ 1 + 1 = 2
      BY <3>3
    <3>6. Ahead(SubSeq(Queue, 1 + 1, Len(Queue)), (1 + n) - 1)
      BY <3>4, <3>5, <1>q, AheadSuffix
    <3>7. Ahead(Queue', n)
      BY <3>1, <3>5, <3>6
    <3>8. Ahead(Queue', Words(engine'.word))
      BY <3>7, <3>1 DEF n
    <3>9. InStep'
      BY <1>1, <2>0, <2>3, <3>8 DEF InStep, Idle, Prepared
    <3>10. QED
      BY <3>9, <1>a
  <2>4. CASE main.at \in {76, 103}
    <3> DEFINE a == main.op.len - 1
               b == (main.len - main.pos) + a
    <3>1. /\ Queue' = SubSeq(Queue, Words(a) + 1, Len(Queue))
      BY <1>1, <2>0, <2>4, WordsTaken DEF MainOps
    <3>2. main.len \in Nat /\ main.pos \in Nat /\ main.pos <= main.len /\ a \in Nat
      BY <2>4, <1>c DEF MainParts, Prepared, OnAir, FirstPart
    <3>3. a <= b /\ (a = b \/ a % 2 = 0) /\ b \in Nat /\ b - a = main.len - main.pos
      <4>1. a <= b /\ b \in Nat /\ b - a = main.len - main.pos
        BY <3>2
      <4>2. CASE main.at = 76
        <5>1. a = main.pos
          BY <4>2, <3>2 DEF MainParts
        <5>2. QED
          BY <4>1, <4>2, <5>1, <3>2 DEF WholeWords
      <4>3. CASE main.at = 103
        BY <4>1, <4>3, <3>2 DEF WholeWords
      <4>4. QED
        BY <2>4, <4>2, <4>3
    <3>4. Ahead(Queue, Words(b))
      <4>1. CASE main.at = 76
        <5>1. b = main.len
          BY <4>1, <3>2 DEF MainParts
        <5>2. QED
          BY <4>1, <5>1, <1>2 DEF InStep
      <4>2. CASE main.at = 103
        BY <4>2, <1>2 DEF InStep
      <4>3. QED
        BY <2>4, <4>1, <4>2
    <3> HIDE DEF a, b
    <3>5. Words(a) \in 0 .. Words(b) /\ Words(b) - Words(a) = Words(b - a)
      BY <3>2, <3>3, WordsSplit
    <3>6. Ahead(SubSeq(Queue, Words(a) + 1, Len(Queue)), Words(b) - Words(a))
      BY <3>4, <3>5, <1>q, AheadSuffix
    <3>7. Ahead(Queue', Words(main.len - main.pos))
      BY <3>1, <3>3, <3>5, <3>6
    <3>8. InStep'
      BY <1>1, <2>0, <2>4, <3>7 DEF InStep, Idle, Prepared
    <3>9. QED
      BY <3>8, <1>a
  <2>5. QED
    BY <2>0, <2>1, <2>2, <2>3, <2>4 DEF MainWaiting
<1>6. QED
  BY <1>2, <1>4, <1>5

(* The second invariant is inductive on top of the first.                   *)
LEMMA FrameNext ==
  ASSUME LongFrames = FALSE, ServedInv, TxInv, InStep, WholeWords, [WirelessNext]_vars
  PROVE  InStep' /\ WholeWords'
<1> USE DEF ServedInv, TxInv
<1>l. Leftover \/ Ahead(Queue, 0)
  <2>1. CASE Queue = <<>>
    BY <2>1 DEF Ahead
  <2>2. CASE Queue # <<>> /\ Head(Queue) = SyncWord
    <3>q. Queue \in Seq(Int)
      BY DEF QueueWhole, Whole
    <3> HIDE DEF Queue
    <3>1. Queue[0 + 1] = SyncWord /\ 0 \in 0 .. Len(Queue)
      BY <2>2, <3>q
    <3>2. QED
      BY <3>1 DEF Ahead
  <2>3. QED
    BY <2>1, <2>2 DEF Leftover, Queue
<1>1. CASE Edge
  <2>1. MainDoes /\ QueueGrows
    BY <1>1, MainEdges, EdgeOutside DEF Edge
  <2>2. ~DoneForMain'
    BY <1>1, EdgeEngine DEF Edge
  <2>3. main.at = 93 /\ irq.tx_done => main.pos = main.len
    BY DEF Pulses, Answering, AllSent
  <2>4. QED
    BY <2>1, <2>2, <2>3, WordsEdge, FrameEdge
<1>2. CASE OperationEnds
  BY <1>2, FrameEnds
<1>3. ASSUME NEW leftover, ResetAll(leftover), leftover \/ Ahead(Queue', 0)
      PROVE  InStep' /\ WholeWords'
  <2>1. main'.at = 0 /\ main'.aborted = leftover
    BY <1>3 DEF ResetAll, MainInit
  <2>2. InStep'
    BY <2>1, <1>3 DEF InStep, Before, Idle, Prepared, AtLength
  <2>3. QED
    BY <2>1, <2>2 DEF WholeWords
<1>4. CASE CtsError
  <2>1. ResetAll(Leftover) /\ Queue' = Queue
    BY <1>4 DEF CtsError, Queue
  <2>2. QED
    BY <2>1, <1>l, <1>3
<1>5. CASE NewConfig
  <2>1. ResetAll(FALSE) /\ Queue' = <<>>
    BY <1>5 DEF NewConfig, RamShape, Queue
  <2>2. Ahead(Queue', 0)
    BY <2>1 DEF Ahead
  <2>3. QED
    BY <2>1, <2>2, <1>3
<1>6. CASE UNCHANGED vars
  <2>1. UNCHANGED <<main, engine, ram>>
    BY <1>6 DEF vars
  <2>2. QED
    BY <2>1 DEF InStep, WholeWords, AtLength, DoneForMain, DoneFor, Queue
<1>7. QED
  BY <1>1, <1>2, <1>4, <1>5, <1>6 DEF WirelessNext

(* Where the Main machine looks for a sync word it finds one, unless a      *)
(* frame was given up before its end: no chunk leaves a word of a frame in  *)
(* FIFO_I nor takes one of the next.                                        *)
THEOREM FramesAlwaysInStep ==
  ASSUME LongFrames = FALSE
  PROVE  WirelessSpec => []FrameInStep
<1>1. WirelessInit => ServedInv /\ TxInv /\ InStep /\ WholeWords
  <2>1. WirelessInit => InStep /\ WholeWords
    <3> SUFFICES ASSUME WirelessInit
                 PROVE  InStep /\ WholeWords
      OBVIOUS
    <3>1. main.at = 255 /\ Queue = <<>>
      BY DEF WirelessInit, MainInit, Queue
    <3>2. Ahead(Queue, 0)
      BY <3>1 DEF Ahead
    <3>3. QED
      BY <3>1, <3>2 DEF InStep, WholeWords, Before, Idle, Prepared, AtLength
  <2>2. QED
    BY <2>1, InitServed, InitTx
<1>2. ServedInv /\ TxInv /\ InStep /\ WholeWords /\ [WirelessNext]_vars
        => (ServedInv /\ TxInv /\ InStep /\ WholeWords)'
  BY NextTx, FrameNext
<1>3. InStep => FrameInStep
  BY DEF InStep, FrameInStep
<1>4. QED
  BY <1>1, <1>2, <1>3, PTL DEF WirelessSpec

-----------------------------------------------------------------------------
(* The reception of a packet.  The radio hears, or may hear soon; nothing   *)
(* more comes from it.                                                      *)
Live(r)   == r.mode \in {"rx", "tune"}
Silent(r) == ~r.receiving /\ ~Live(r)
(* Nothing has been taken of what is in its FIFO; of the packet under way,  *)
(* or just over, t bytes have been taken; or that packet is given up, and   *)
(* no other has begun.                                                      *)
Fresh(r) ==
  /\ r.receiving => r.mode = "rx" /\ r.rxfifo + r.air = r.len + 1
  /\ ~r.receiving /\ Live(r) => r.rxfifo = 0
Packet(r, t) ==
  /\ r.rxfifo + r.air + t = r.len + 1
  /\ r.receiving => r.mode = "rx"
  /\ ~r.receiving => r.air = 0 /\ ~Live(r)
Late(r, q) ==
  /\ "sync" \notin q
  /\ (r.receiving /\ r.mode = "rx" /\ r.air <= r.len) \/ Silent(r)
Dark(r) ==
  /\ ~r.receiving /\ r.air = 0 /\ r.rxfifo = 0 /\ r.pending = {}
  /\ r.mode \notin {"rx", "tune", "tx"}

(* What the interrupts q promise: a chunk, and the end of the packet.       *)
Sound(r, t, q) ==
  /\ "almost_full" \in q => r.rxfifo >= RX_THRESHOLD /\ Packet(r, t)
  /\ "rx" \in q => Packet(r, t) /\ ~r.receiving

(* Where chunks end: of full ones, the length byte among them.              *)
Grid(t) == t \in 1 .. 255 /\ t % 2 = 1 /\ \E k \in Nat : t + 1 = k * RX_THRESHOLD
Amid(r, t, q) ==
  Grid(t) /\ Packet(r, t) /\ Sound(r, t, q) /\ "sync" \notin q
ChunkWaits(r) == r.rxfifo >= RX_THRESHOLD /\ "almost_full" \notin r.pending

(* The places of the Irq machine: between its turns, from the mark to the   *)
(* first chunk, and after a packet.                                         *)
Rest    == {0, 1, 2, 3, 4, 5, 25, 26}
Opening == {6, 7, 8, 9, 10, 11, 12}
Closing == {16, 17, 18, 19, 20, 21, 22, 23, 24}
Follows(i) == i.packets_incoming \notin {0, 1}
Asked(i, d) == i.at \in {13, 14} \/ (i.at = 15 /\ ~d)
AskedMore(i, d) == i.at = 28 \/ (i.at = 29 /\ ~d)
HasMore(i, d) == i.at \in {27, 30} \/ (i.at = 29 /\ d) \/ (i.at = 15 /\ d /\ i.almost_full)

(* Its registers by themselves.                                             *)
Within(at, full, packets, pos) ==
  /\ full \in BOOLEAN /\ packets \in 0 .. 15 /\ pos \in Nat
  /\ full => at \in Opening \cup {13, 14, 15, 27, 28, 29, 30} \cup Closing
  /\ at \in {27, 28, 29, 30} => full /\ packets # 1
  /\ packets = 1 => pos = 0
  /\ at \in Opening => (full \/ packets = 1) /\ pos = 0
  /\ at \in Opening \cup {13, 14, 15} => packets # 0 /\ (full => packets = 2)
  /\ full /\ at = 13 => pos = 0
  /\ full /\ at \in {14, 15} => pos = RX_THRESHOLD - 1
Registers(i) == Within(i.at, i.almost_full, i.packets_incoming, i.Data_Recv_Pos)

(* A packet of which the Irq machine has taken note.                        *)
Inside(i, r, q, d) ==
  /\ i.at \in Rest /\ Follows(i) => Amid(r, i.Data_Recv_Pos, q)
  /\ i.at \in Opening \/ Asked(i, d) =>
       /\ i.almost_full =>
            Packet(r, 0) /\ Sound(r, 0, q) /\ "sync" \notin q /\ ChunkWaits(r)
       /\ ~i.almost_full /\ i.packets_incoming = 1 => Packet(r, 0) /\ ~r.receiving
       /\ ~i.almost_full /\ Follows(i) => Amid(r, i.Data_Recv_Pos, q) /\ ~r.receiving
  /\ HasMore(i, d) => Amid(r, i.Data_Recv_Pos, q)
  /\ i.at = 27 => ChunkWaits(r)
  /\ AskedMore(i, d) => Amid(r, i.Data_Recv_Pos - RX_THRESHOLD, q) /\ ChunkWaits(r)

(* recv_pkt_len is that of the packet.                                      *)
Told(i, r, d, n) ==
  \/ i.at \in Rest /\ Follows(i)
  \/ Asked(i, d) /\ ~i.almost_full /\ Follows(i)
  \/ (HasMore(i, d) \/ AskedMore(i, d)) /\ i.packets_incoming # 0
  => n = r.len

(* No packet of which it has taken note, while the Main machine listens.    *)
Outset(i, r, q, d) ==
  /\ r.receiving => r.mode = "rx"
  /\ i.at \in Rest /\ i.packets_incoming = 0 => Fresh(r) \/ Late(r, q)
  /\ i.at \in Rest /\ i.packets_incoming = 1 => Fresh(r) /\ Sound(r, 0, q)
  /\ i.at \in {22, 23, 24} \/ (i.at = 21 /\ d) => Fresh(r)

Starting == {255, 249, 2, 6, 40, 42, 50, 52, 53, 54}
Up == main.at \notin Starting \cup {0} /\ (main.at = 56 => DoneForMain)

(* While it does not, none begins.                                          *)
Down(r) ==
  ~Up =>
    /\ irq.at \in {0, 1, 2, 3} \cup Closing /\ ~Follows(irq)
    /\ main.at = 0 /\ irq.at = 3 => ~DoneForIrq
    /\ main.at # 0 =>
         /\ ~main.enable_irq
         /\ irq.at \in {1, 2, 3} \/ (irq.at = 0 /\ irq.packets_incoming = 1) =>
              Dark(r) /\ engine.pending = {}

(* A transmission and what is left of the packet before it.                 *)
TxNews == {"tx", "almost_empty"}
Apart(i) == i.packets_incoming # 0 /\ i.at \notin Closing
Answered4(m, fin) == m.at \in OnAir \cup {95} \/ (m.at = 97 /\ ~fin)
TxAlone(i, m, r, q, fin) ==
  /\ Apart(i) /\ r.mode = "tx" => r.pending \subseteq TxNews
  /\ Apart(i) /\ "tx" \in q => Silent(r) /\ q \subseteq TxNews
  /\ Apart(i) /\ i.at \in {4, 5} /\ Answered4(m, fin) => Silent(r) /\ r.pending = {}
TxGuards ==
  /\ main.at \in Supervised => ~Follows(irq)
  /\ main.at = 92 /\ ~DoneForMain =>
       /\ irq.at \in {0, 1, 2, 3} /\ irq.packets_incoming = 0 /\ ~DoneForIrq
       /\ ~(engine.at = 52 /\ engine.owner = "int")

(* What the Irq machine has asked for.                                      *)
IrqAsked ==
  /\ irq.at \in {2, 3} => irq.op.name = "int_status"
  /\ irq.at \in {8, 9} => irq.op.name = "rssi"
  /\ irq.at \in {11, 12} => irq.op.name = "sync"
  /\ irq.at \in {14, 15} =>
       irq.op = IF irq.almost_full THEN HeadChunk
                ELSE IF irq.packets_incoming = 1 THEN Op("head", 0)
                ELSE Op("rest", (engine.recv_pkt_len - irq.Data_Recv_Pos + 1) % 256)
  /\ irq.at \in {28, 29} => irq.op = Op("rest", RX_THRESHOLD)
  /\ irq.at \in {17, 18} => irq.op.name = "fifo_reset"
  /\ irq.at = 21 => irq.op.name = "start_rx"
  /\ irq.at \in {23, 24} => irq.op.name = "state"
EngineFollows(r) ==
  /\ irq.at = 3 /\ DoneForIrq => r.pending = {}
  /\ irq.at \in {14, 28} => ~DoneForIrq

Bounded(r, op) ==
  op.name \in {"head", "rest"} =>
    /\ Up /\ main.at # 97 /\ op.len \in Nat
    /\ op.len # 0 => (IF op.name = "head" THEN op.len + 1 ELSE op.len) <= r.rxfifo
    /\ op.len = 0 => op.name = "head" /\ r.len + 1 <= r.rxfifo /\ Silent(r)
Bounds(r) ==
  /\ irq.start /\ ~DoneForIrq => Bounded(r, irq.op)
  /\ engine.at = 52 => Bounded(r, engine.op)

RxNumbers(r) ==
  /\ r.rxfifo \in Nat /\ r.air \in Nat /\ r.len \in 0 .. 254 /\ r.receiving \in BOOLEAN
  /\ r.len # 0 => r.len \in PacketLengths
  /\ r.receiving => r.len # 0

(* What the radio does by itself, as far as a reception sees it: a packet   *)
(* begins, a byte of it comes, it ends, there was none; or the rest.        *)
SameAir == /\ radio'.air = radio.air /\ radio'.len = radio.len
           /\ radio'.receiving = radio.receiving /\ radio'.rxfifo = radio.rxfifo
Begun ==
  /\ radio.mode = "rx" /\ ~radio.receiving /\ radio'.receiving
  /\ radio'.len \in PacketLengths /\ radio'.air = radio'.len + 1
  /\ radio'.rxfifo = radio.rxfifo /\ radio'.mode = radio.mode
  /\ radio'.pending = radio.pending \cup {"sync"}
ByteIn ==
  /\ radio.receiving /\ radio'.receiving /\ radio.air > 0
  /\ radio'.air = radio.air - 1 /\ radio'.rxfifo = radio.rxfifo + 1
  /\ radio'.len = radio.len /\ radio'.mode = radio.mode
  /\ \/ radio'.pending = radio.pending
     \/ /\ radio'.pending = radio.pending \cup {"almost_full"}
        /\ radio'.rxfifo = RX_THRESHOLD
Over ==
  /\ radio.receiving /\ radio.air = 0 /\ radio'.receiving = FALSE /\ radio'.mode = "ready"
  /\ radio'.air = 0 /\ radio'.len = radio.len /\ radio'.rxfifo = radio.rxfifo
  /\ \/ radio'.pending = radio.pending \cup {"rx"}
     \/ radio'.pending = radio.pending \cup {"crc"}
NotBegun ==
  /\ radio.receiving /\ radio.air = radio.len + 1 /\ radio'.receiving = FALSE
  /\ radio'.air = 0 /\ radio'.len = radio.len /\ radio'.rxfifo = radio.rxfifo
  /\ radio'.mode = radio.mode /\ radio'.pending = radio.pending
OutgoingSeen ==
  /\ SameAir
  /\ \/ /\ radio.mode = "tx" /\ radio'.mode = "tx"
        /\ \/ radio'.pending = radio.pending
           \/ radio'.pending = radio.pending \cup {"almost_empty"}
     \/ /\ radio.mode = "tx" /\ radio'.mode = "ready"
        /\ radio'.pending = radio.pending \cup {"tx"}
     \/ /\ radio.mode = "tune" /\ radio'.mode = "rx" /\ radio'.pending = radio.pending
Heard == Begun \/ ByteIn \/ Over \/ NotBegun \/ OutgoingSeen

(* Between two operations the radio does one of these.                      *)
LEMMA RadioHears ==
  ASSUME RadioShape, RadioEvent
  PROVE  Heard
<1> USE DEF RadioShape, Heard
<1>1. CASE SyncDetected
  BY <1>1 DEF SyncDetected, Begun
<1>2. CASE ByteReceived
  <2>1. PICK p : /\ p = radio.pending \/ (p = radio.pending \cup {"almost_full"}
                       /\ radio.rxfifo + 1 = RX_THRESHOLD)
                 /\ radio' = [radio EXCEPT !.air = @ - 1, !.rxfifo = @ + 1, !.pending = p]
    BY <1>2 DEF ByteReceived
  <2>2. radio.receiving /\ radio.air > 0
    BY <1>2 DEF ByteReceived
  <2>3. QED
    BY <2>1, <2>2 DEF ByteIn
<1>3. CASE PacketEnds
  <2>1. PICK end \in {"rx", "crc"} :
          radio' = [radio EXCEPT !.receiving = FALSE, !.mode = "ready",
                              !.pending = @ \cup {end}]
    BY <1>3 DEF PacketEnds
  <2>2. radio.receiving /\ radio.air = 0
    BY <1>3 DEF PacketEnds
  <2>3. QED
    BY <2>1, <2>2 DEF Over
<1>4. CASE FalseSync
  BY <1>4 DEF FalseSync, NotBegun
<1>5. CASE Tuned
  BY <1>5 DEF Tuned, OutgoingSeen, SameAir
<1>6. CASE ByteSent
  <2>1. radio.mode = "tx"
    BY <1>6 DEF ByteSent
  <2>2. PICK p : /\ p = radio.pending \/ p = radio.pending \cup {"almost_empty"}
                 /\ radio' = [radio EXCEPT !.sent = @ + 1, !.txfifo = @ - 1, !.pending = p]
    BY <1>6 DEF ByteSent
  <2>3. QED
    BY <2>1, <2>2 DEF OutgoingSeen, SameAir
<1>7. CASE FrameSent
  BY <1>7 DEF FrameSent, OutgoingSeen, SameAir
<1>8. QED
  BY <1>1, <1>2, <1>3, <1>4, <1>5, <1>6, <1>7 DEF RadioEvent

(* The threshold of the receiver.                                           *)
LEMMA RxConstants ==
  /\ RX_THRESHOLD \in Nat /\ RX_THRESHOLD > 2 /\ RX_THRESHOLD % 2 = 0
  /\ MAX_FIFO_SIZE \in Nat
  /\ \A l \in PacketLengths : l \in 1 .. 254
  BY WirelessAssumption

(* Each of these keeps what is said of the radio by itself, ...             *)
LEMMA HeardNumbers ==
  ASSUME RxNumbers(radio), Heard
  PROVE  RxNumbers(radio')
<1> USE DEF RxNumbers
<1>1. CASE Begun
  BY <1>1, RxConstants DEF Begun
<1>2. CASE ByteIn
  BY <1>2 DEF ByteIn
<1>3. CASE Over
  BY <1>3 DEF Over
<1>a. CASE NotBegun
  <2>1. /\ radio'.receiving = FALSE /\ radio'.air = 0
        /\ radio'.len = radio.len /\ radio'.rxfifo = radio.rxfifo
    BY <1>a DEF NotBegun
  <2>2. radio'.air \in Nat /\ radio'.rxfifo \in Nat
    BY <2>1
  <2>3. radio'.len \in 0 .. 254
    BY <2>1
  <2>4. radio'.receiving \in BOOLEAN
    BY <2>1
  <2>5. QED
    BY <2>1, <2>2, <2>3, <2>4
<1>4. CASE OutgoingSeen
  BY <1>4 DEF OutgoingSeen, SameAir
<1>5. QED
  BY <1>1, <1>2, <1>3, <1>a, <1>4 DEF Heard

(* ... of a packet of which t bytes have been taken, ...                    *)
LEMMA HeardPacket ==
  ASSUME RxNumbers(radio), Heard, NEW t \in Nat, Packet(radio, t),
         t # 0 \/ radio.rxfifo > 0 \/ ~radio.receiving
  PROVE  /\ Packet(radio', t)
         /\ radio'.len = radio.len
         /\ radio'.rxfifo >= radio.rxfifo
         /\ ~radio.receiving => ~radio'.receiving
         /\ "sync" \in radio'.pending => "sync" \in radio.pending
         /\ "almost_full" \in radio'.pending =>
              "almost_full" \in radio.pending \/ (radio'.rxfifo = RX_THRESHOLD
                  /\ radio.rxfifo < RX_THRESHOLD)
         /\ "rx" \in radio'.pending => "rx" \in radio.pending \/ ~radio'.receiving
<1> USE RxConstants DEF RxNumbers, Packet, Live
<1>1. CASE Begun
  BY <1>1 DEF Begun
<1>2. CASE ByteIn
  BY <1>2 DEF ByteIn
<1>3. CASE Over
  BY <1>3 DEF Over
<1>a. CASE NotBegun
  BY <1>a DEF NotBegun
<1>4. CASE OutgoingSeen
  BY <1>4 DEF OutgoingSeen, SameAir
<1>5. QED
  BY <1>1, <1>2, <1>3, <1>a, <1>4 DEF Heard

(* A packet of which some chunks have been taken is as it was told,         *)
(* whatever comes in, ...                                                   *)
LEMMA HeardAmid ==
  ASSUME RxNumbers(radio), Heard, NEW t, Amid(radio, t, radio.pending)
  PROVE  /\ Amid(radio', t, radio'.pending) /\ radio'.len = radio.len
         /\ ~radio.receiving => ~radio'.receiving
         /\ ChunkWaits(radio) => ChunkWaits(radio')
<1>1. Grid(t) /\ Packet(radio, t) /\ t \in Nat /\ t # 0
  BY DEF Amid, Grid
<1>2. /\ Packet(radio', t)
      /\ radio'.len = radio.len
      /\ radio'.rxfifo >= radio.rxfifo
      /\ ~radio.receiving => ~radio'.receiving
      /\ "sync" \in radio'.pending => "sync" \in radio.pending
      /\ "almost_full" \in radio'.pending =>
           "almost_full" \in radio.pending \/ (radio'.rxfifo = RX_THRESHOLD
                  /\ radio.rxfifo < RX_THRESHOLD)
      /\ "rx" \in radio'.pending => "rx" \in radio.pending \/ ~radio'.receiving
  BY <1>1, HeardPacket
<1>n. radio.rxfifo \in Nat /\ radio'.rxfifo \in Nat /\ RX_THRESHOLD \in Nat
  BY HeardNumbers, RxConstants DEF RxNumbers
<1>3. Sound(radio', t, radio'.pending)
  BY <1>2, <1>n DEF Sound, Amid
<1>4. ChunkWaits(radio) => ChunkWaits(radio')
  BY <1>2, <1>n DEF ChunkWaits
<1>5. QED
  BY <1>1, <1>2, <1>3, <1>4 DEF Amid

(* ... one of which nothing has been taken keeps its bytes in the FIFO, ... *)
LEMMA HeardWhole ==
  ASSUME RxNumbers(radio), Heard, Packet(radio, 0), Sound(radio, 0, radio.pending),
         "sync" \notin radio.pending, ChunkWaits(radio)
  PROVE  /\ Packet(radio', 0) /\ Sound(radio', 0, radio'.pending)
         /\ "sync" \notin radio'.pending /\ ChunkWaits(radio')
<1>n. radio.rxfifo \in Nat /\ radio'.rxfifo \in Nat /\ RX_THRESHOLD \in Nat
      /\ RX_THRESHOLD > 2
  BY HeardNumbers, RxConstants DEF RxNumbers
<1>1. radio.rxfifo > 0
  BY <1>n DEF ChunkWaits
<1>2. /\ Packet(radio', 0)
      /\ radio'.rxfifo >= radio.rxfifo
      /\ "sync" \in radio'.pending => "sync" \in radio.pending
      /\ "almost_full" \in radio'.pending =>
           "almost_full" \in radio.pending \/ (radio'.rxfifo = RX_THRESHOLD
                  /\ radio.rxfifo < RX_THRESHOLD)
      /\ "rx" \in radio'.pending => "rx" \in radio.pending \/ ~radio'.receiving
  BY <1>1, HeardPacket
<1>3. ChunkWaits(radio') /\ "sync" \notin radio'.pending
  BY <1>2, <1>n DEF ChunkWaits
<1>4. "rx" \in radio'.pending => ~radio'.receiving
  <2>1. "rx" \in radio.pending => ~radio.receiving
    BY DEF Sound
  <2>2. ~radio.receiving => ~radio'.receiving
    BY <1>1, HeardPacket
  <2>3. QED
    BY <1>2, <2>1, <2>2
<1>5. QED
  BY <1>2, <1>3, <1>4 DEF Sound, ChunkWaits

(* ... and one that is over is over.                                        *)
LEMMA HeardEnded ==
  ASSUME RxNumbers(radio), Heard, Packet(radio, 0), ~radio.receiving
  PROVE  Packet(radio', 0) /\ ~radio'.receiving
  BY HeardPacket

(* ... of the packet of which the Irq machine has taken note, ...           *)
LEMMA HeardInside ==
  ASSUME RxNumbers(radio), Heard, Inside(irq, radio, radio.pending, FALSE)
  PROVE  Inside(irq, radio', radio'.pending, FALSE)
<1> DEFINE pos == irq.Data_Recv_Pos
<1>1. ASSUME NEW t, Amid(radio, t, radio.pending)
      PROVE  /\ Amid(radio', t, radio'.pending)
             /\ ~radio.receiving => ~radio'.receiving
             /\ ChunkWaits(radio) => ChunkWaits(radio')
  BY <1>1, HeardAmid
<1>2. irq.at \in Rest /\ Follows(irq) => Amid(radio', pos, radio'.pending)
  BY <1>1 DEF Inside
<1>3. ASSUME irq.at \in Opening \/ Asked(irq, FALSE)
      PROVE  /\ irq.almost_full =>
                  /\ Packet(radio', 0) /\ Sound(radio', 0, radio'.pending)
                  /\ "sync" \notin radio'.pending /\ ChunkWaits(radio')
             /\ ~irq.almost_full /\ irq.packets_incoming = 1 =>
                  Packet(radio', 0) /\ ~radio'.receiving
             /\ ~irq.almost_full /\ Follows(irq) =>
                  Amid(radio', pos, radio'.pending) /\ ~radio'.receiving
  BY <1>1, <1>3, HeardWhole, HeardEnded DEF Inside
<1>4. HasMore(irq, FALSE) => Amid(radio', pos, radio'.pending)
  BY <1>1 DEF Inside
<1>5. irq.at = 27 => ChunkWaits(radio')
  <2>1. irq.at = 27 => HasMore(irq, FALSE)
    BY DEF HasMore
  <2>2. QED
    BY <1>1, <2>1 DEF Inside
<1>6. AskedMore(irq, FALSE) => Amid(radio', pos - RX_THRESHOLD, radio'.pending)
                               /\ ChunkWaits(radio')
  BY <1>1 DEF Inside
<1>7. QED
  BY <1>2, <1>3, <1>4, <1>5, <1>6 DEF Inside

(* ... or has not yet.                                                      *)
LEMMA HeardFresh ==
  ASSUME RxNumbers(radio), Heard, Fresh(radio)
  PROVE  /\ Fresh(radio')
         /\ Sound(radio, 0, radio.pending) => Sound(radio', 0, radio'.pending)
<1> USE HeardNumbers, RxConstants DEF RxNumbers, Fresh, Live, Sound, Packet
<1>1. CASE Begun
  BY <1>1 DEF Begun
<1>2. CASE ByteIn
  BY <1>2 DEF ByteIn
<1>3. CASE Over
  BY <1>3 DEF Over
<1>a. CASE NotBegun
  BY <1>a DEF NotBegun
<1>4. CASE OutgoingSeen
  BY <1>4 DEF OutgoingSeen, SameAir
<1>5. QED
  BY <1>1, <1>2, <1>3, <1>a, <1>4 DEF Heard

(* A sync word that comes after its packet stays behind it.                 *)
LEMMA HeardLate ==
  ASSUME RxNumbers(radio), Heard, Late(radio, radio.pending)
  PROVE  Late(radio', radio'.pending)
<1> USE DEF RxNumbers, Late, Silent, Live
<1>1. CASE Begun
  BY <1>1 DEF Begun
<1>2. CASE ByteIn
  BY <1>2 DEF ByteIn
<1>3. CASE Over
  BY <1>3 DEF Over
<1>a. CASE NotBegun
  BY <1>a DEF NotBegun
<1>4. CASE OutgoingSeen
  BY <1>4 DEF OutgoingSeen, SameAir
<1>5. QED
  BY <1>1, <1>2, <1>3, <1>a, <1>4 DEF Heard

(* What is known while the radio listens stays known, ...                   *)
LEMMA HeardOutset ==
  ASSUME RxNumbers(radio), Heard, Outset(irq, radio, radio.pending, FALSE)
  PROVE  Outset(irq, radio', radio'.pending, FALSE)
<1>1. radio'.receiving => radio'.mode = "rx"
  <2>1. radio.receiving => radio.mode = "rx"
    BY DEF Outset
  <2>2. QED
    BY <2>1 DEF Heard, Begun, ByteIn, Over, NotBegun, OutgoingSeen, SameAir
<1>2. QED
  BY <1>1, HeardFresh, HeardLate DEF Outset

(* It hears nothing while it is set up, and after a frame is sent.          *)
LEMMA HeardDark ==
  ASSUME Dark(radio)
  PROVE  ~Heard
  BY DEF Dark, Heard, Begun, ByteIn, Over, NotBegun, OutgoingSeen

(* ... and so does what keeps reception and sending apart.                  *)
LEMMA HeardTx ==
  ASSUME Heard, TxAlone(irq, main, radio, radio.pending, FALSE), Answering(irq, main, radio),
         Apart(irq) /\ radio.receiving => radio.mode = "rx"
  PROVE  TxAlone(irq, main, radio', radio'.pending, FALSE)
<1> USE DEF TxAlone, Silent, Live, TxNews
<1>1. CASE Begun
  BY <1>1 DEF Begun
<1>2. CASE ByteIn
  BY <1>2 DEF ByteIn
<1>3. CASE Over
  BY <1>3 DEF Over
<1>a. CASE NotBegun
  BY <1>a DEF NotBegun
<1>4. CASE OutgoingSeen
  BY <1>4 DEF OutgoingSeen, SameAir, Answering
<1>5. QED
  BY <1>1, <1>2, <1>3, <1>a, <1>4 DEF Heard

-----------------------------------------------------------------------------
(* What the Irq machine does with the registers of a reception: at every    *)
(* edge the watchdog may end it.                                            *)
TurnsTo(next, full, packets, pos) ==
  /\ irq'.packets_incoming = packets
  /\ \/ /\ irq'.at = 16 /\ irq'.almost_full = FALSE /\ irq'.Data_Recv_Pos = 0
        /\ packets # 0 /\ MayExpire
     \/ irq'.at = next /\ irq'.almost_full = full /\ irq'.Data_Recv_Pos = pos
StaysTo(next) == TurnsTo(next, irq.almost_full, irq.packets_incoming, irq.Data_Recv_Pos)
Marks(start, received, rollback) ==
  /\ irq'.Pkt_Start_flag = start /\ irq'.Pkt_Received_flag = received
  /\ irq'.Crc_Error_Rollback = rollback
SameMarks == Marks(irq.Pkt_Start_flag, irq.Pkt_Received_flag, irq.Crc_Error_Rollback)
Asking(op) == irq'.start /\ irq'.op = op

RxWaits ==
  /\ irq.at \in {0, 1, 3, 5, 7, 9, 12, 15, 16, 18, 21, 24, 29}
  /\ irq.at \in {3, 9, 12, 15, 18, 21, 24, 29} => ~DoneForIrq
  /\ irq.at = 16 => engine.spi_Using
  /\ irq.at = 5 => main.tx_state # "RX"
  /\ StaysTo(irq.at) /\ SameOp /\ SameMarks
RxWakes == irq.at = 0 /\ main.enable_irq /\ StaysTo(1) /\ SameOp /\ SameMarks
RxAsks ==
  /\ SameMarks
  /\ \/ irq.at = 1 /\ StaysTo(2) /\ Asking(Op("int_status", 4))
     \/ irq.at = 7 /\ StaysTo(8) /\ Asking(Op("rssi", 1))
     \/ irq.at = 10 /\ StaysTo(11) /\ Asking(Op("sync", 2))
     \/ irq.at = 16 /\ StaysTo(17) /\ Asking(Op("fifo_reset", 2))
     \/ irq.at = 22 /\ StaysTo(23) /\ Asking(Op("state", 1))
RxStarts ==
  /\ irq.at = 20 /\ StaysTo(21) /\ Asking(Op("start_rx", 1))
  /\ Marks(irq.Pkt_Start_flag, FALSE, irq.Crc_Error_Rollback)
RxWalks ==
  /\ SameOp /\ SameMarks
  /\ \/ irq.at = 2 /\ StaysTo(3)
     \/ irq.at = 4 /\ StaysTo(5)
     \/ irq.at = 11 /\ StaysTo(12)
     \/ irq.at = 14 /\ StaysTo(15)
     \/ irq.at = 23 /\ StaysTo(24)
     \/ irq.at = 25 /\ StaysTo(26)
     \/ irq.at = 28 /\ StaysTo(29)
     \/ irq.at = 6 /\ StaysTo(16)
     \/ irq.at = 5 /\ StaysTo(0)
     \/ irq.at = 26 /\ StaysTo(0)
MarksTurn ==
  /\ irq.at = 6 => irq'.Pkt_Start_flag
  /\ irq.at = 8 => ~irq'.Pkt_Start_flag
  /\ irq.at \notin {6, 8} => irq'.Pkt_Start_flag = irq.Pkt_Start_flag
  /\ irq.at = 17 => ~irq'.Crc_Error_Rollback
  /\ irq.at # 17 => irq'.Crc_Error_Rollback = irq.Crc_Error_Rollback
  /\ irq.at = 19 => irq'.Pkt_Received_flag
  /\ irq.at # 19 => irq'.Pkt_Received_flag = irq.Pkt_Received_flag
RxMarks ==
  /\ SameOp /\ MarksTurn
  /\ \/ irq.at = 6 /\ StaysTo(7)
     \/ irq.at = 8 /\ StaysTo(9)
     \/ irq.at = 17 /\ StaysTo(18)
     \/ irq.at = 19 /\ StaysTo(20)
RxTakes ==
  /\ DoneForIrq /\ ~irq'.start /\ SameMarks
  /\ \/ irq.at = 9 /\ StaysTo(10)
     \/ irq.at = 12 /\ StaysTo(13)
     \/ irq.at = 18 /\ StaysTo(20)
     \/ irq.at = 21 /\ StaysTo(22)
     \/ irq.at = 29 /\ StaysTo(30)
     \/ irq.at = 15 /\ irq.almost_full /\ StaysTo(30)
     \/ irq.at = 15 /\ ~irq.almost_full /\ StaysTo(19)
     \/ irq.at = 24 /\ StaysTo(19)
     \/ irq.at = 24 /\ TurnsTo(0, FALSE, 0, 0)
RxReads ==
  /\ irq.at = 13 /\ SameMarks
  /\ Asking(IF irq.almost_full THEN HeadChunk
            ELSE IF irq.packets_incoming = 1 THEN Op("head", 0)
            ELSE Op("rest", (engine.recv_pkt_len - irq.Data_Recv_Pos + 1) % 256))
  /\ TurnsTo(14, irq.almost_full, irq.packets_incoming,
             IF irq.almost_full THEN irq.Data_Recv_Pos + RX_THRESHOLD - 1
             ELSE irq.Data_Recv_Pos)
RxReadsMore ==
  /\ irq.at = 27 /\ SameMarks /\ Asking(Op("rest", RX_THRESHOLD))
  /\ TurnsTo(28, irq.almost_full, irq.packets_incoming,
             (irq.Data_Recv_Pos + RX_THRESHOLD) % 256)
RxEndsChunk ==
  /\ irq.at = 30 /\ SameMarks /\ SameOp
  /\ TurnsTo(0, FALSE, irq.packets_incoming, irq.Data_Recv_Pos)

(* State 3.                                                                 *)
TakesIn == irq.at = 3 /\ DoneForIrq /\ ~irq'.start
SortsTx ==
  /\ TakesIn /\ SameMarks
  /\ \/ Pending("almost_empty") /\ StaysTo(25)
     \/ Pending("tx") /\ StaysTo(4)
     \/ StaysTo(0)
SortsCrc ==
  /\ TakesIn /\ StaysTo(16)
  /\ Marks(irq.Pkt_Start_flag, irq.Pkt_Received_flag,
           irq.Crc_Error_Rollback \/ irq.packets_incoming > 1)
SortsFull ==
  /\ TakesIn /\ SameMarks /\ Pending("almost_full") /\ main.tx_state = "RX"
  /\ \/ irq.packets_incoming = 0 /\ TurnsTo(16, TRUE, 0, irq.Data_Recv_Pos)
     \/ irq.packets_incoming = 1 /\ TurnsTo(6, TRUE, 2, irq.Data_Recv_Pos)
     \/ Follows(irq) /\ TurnsTo(27, TRUE, (irq.packets_incoming + 1) % 16, irq.Data_Recv_Pos)
SortsRx ==
  /\ TakesIn /\ SameMarks /\ Pending("rx")
  /\ \/ irq.packets_incoming = 0 /\ TurnsTo(16, FALSE, 0, irq.Data_Recv_Pos)
     \/ irq.packets_incoming = 1 /\ TurnsTo(6, FALSE, 1, irq.Data_Recv_Pos)
     \/ Follows(irq) /\ TurnsTo(13, FALSE, irq.packets_incoming, irq.Data_Recv_Pos)
SortsSync ==
  /\ TakesIn /\ SameMarks /\ Pending("sync") /\ TurnsTo(0, irq.almost_full, 1, 0)

RxDoes ==
  \/ RxWaits \/ RxWakes \/ RxAsks \/ RxStarts \/ RxWalks \/ RxMarks \/ RxTakes
  \/ RxReads \/ RxReadsMore \/ RxEndsChunk \/ SortsTx \/ SortsCrc \/ SortsFull
  \/ SortsRx \/ SortsSync

(* What an edge leaves of n, whether the watchdog strikes or not.           *)
RxLands(n) ==
  /\ irq'.start = n.start /\ irq'.op = n.op
  /\ Marks(n.Pkt_Start_flag, n.Pkt_Received_flag, n.Crc_Error_Rollback)
  /\ TurnsTo(n.at, n.almost_full, n.packets_incoming, n.Data_Recv_Pos)
(* These are the registers it leaves.                                       *)
LEMMA RxBecoming ==
  ASSUME NEW n, Becomes(n), DOMAIN n = IrqFields
  PROVE  RxLands(n)
<1> USE DEF RxLands, Marks, TurnsTo
<1>1. CASE irq' = n
  BY <1>1
<1>2. CASE n.packets_incoming # 0 /\ MayExpire
           /\ irq' = [n EXCEPT !.at = 16, !.watchdog = 3, !.forced = TRUE,
                         !.almost_full = FALSE, !.Data_Recv_Pos = 0]
  <2>1. /\ irq'.start = n.start /\ irq'.op = n.op
        /\ irq'.packets_incoming = n.packets_incoming
        /\ irq'.Pkt_Start_flag = n.Pkt_Start_flag
        /\ irq'.Pkt_Received_flag = n.Pkt_Received_flag
        /\ irq'.Crc_Error_Rollback = n.Crc_Error_Rollback
        /\ irq'.at = 16 /\ irq'.almost_full = FALSE /\ irq'.Data_Recv_Pos = 0
    BY <1>2 DEF IrqFields
  <2>2. QED
    BY <1>2, <2>1
<1>3. QED
  BY <1>1, <1>2 DEF Becomes

(* The Irq machine does nothing else to the registers of a reception.       *)
LEMMA RxEdges ==
  ASSUME IrqShape, main.reset_n, irq.packets_incoming \in 0 .. 15, IrqStep
  PROVE  RxDoes
<1>d. DOMAIN irq = IrqFields
  BY DEF IrqShape, IrqFields
<1>b. ASSUME NEW n, Becomes(n), DOMAIN n = IrqFields
      PROVE  RxLands(n)
  BY <1>b, RxBecoming
<1> USE DEF SameOp, SameMarks, StaysTo, Asking
<1>q. ASSUME NEW op, NEW next, Request(op, next)
      PROVE  StaysTo(next) /\ Asking(op) /\ SameMarks
  <2>1. ASSUME NEW n, n = [irq EXCEPT !.start = TRUE, !.op = op, !.at = next], Becomes(n)
        PROVE  StaysTo(next) /\ Asking(op) /\ SameMarks
    <3>1. RxLands(n)
      BY <2>1, <1>b, <1>d DEF IrqFields
    <3>2. QED
      BY <2>1, <3>1, <1>d DEF RxLands, IrqFields
  <2>2. QED
    BY <1>q, <2>1 DEF Request
<1>a. ASSUME NEW next, Answered(next)
      PROVE  DoneForIrq /\ ~irq'.start /\ SameMarks /\ StaysTo(next)
  <2>1. ASSUME NEW n, n = [irq EXCEPT !.start = FALSE, !.op = NoOp, !.at = next], Becomes(n)
        PROVE  ~irq'.start /\ SameMarks /\ StaysTo(next)
    <3>1. RxLands(n)
      BY <2>1, <1>b, <1>d DEF IrqFields
    <3>2. QED
      BY <2>1, <3>1, <1>d DEF RxLands, IrqFields
  <2>2. QED
    BY <1>a, <2>1 DEF Answered
<1>1. CASE WaitForInterrupt
  <2>1. ASSUME irq.at = 0, NEW n, n = [irq EXCEPT !.irq_dealing = TRUE, !.at = 1],
               Becomes(n)
        PROVE  StaysTo(1) /\ SameOp /\ SameMarks
    <3>1. RxLands(n)
      BY <2>1, <1>b, <1>d DEF IrqFields
    <3>2. QED
      BY <2>1, <3>1, <1>d DEF RxLands, IrqFields
  <2>2. RxWakes
    BY <1>1, <2>1 DEF RxWakes, WaitForInterrupt
  <2>3. QED
    BY <2>2 DEF RxDoes
<1>2. CASE AskStatus \/ AskRssi \/ StoreSync \/ ResetFifos \/ AskState
  <2>1. RxAsks
    BY <1>2, <1>q DEF RxAsks, AskStatus, AskRssi, StoreSync, ResetFifos, AskState
  <2>2. QED
    BY <2>1 DEF RxDoes
<1>3. CASE IrqEdge
  <2>1. ASSUME NEW next, next = irq.at + 1, NEW n, n = [irq EXCEPT !.at = @ + 1],
               Becomes(n)
        PROVE  StaysTo(next) /\ SameOp /\ SameMarks
    <3>1. RxLands(n)
      BY <2>1, <1>b, <1>d DEF IrqFields
    <3>2. n.at = next
      BY <2>1, <1>d DEF IrqFields
    <3>3. QED
      BY <2>1, <3>1, <3>2, <1>d DEF RxLands, IrqFields
  <2>2. ASSUME irq.at = 8, NEW n, n = [irq EXCEPT !.Pkt_Start_flag = FALSE, !.at = 9],
               Becomes(n)
        PROVE  StaysTo(9) /\ SameOp /\ MarksTurn
    <3>1. RxLands(n)
      BY <2>2, <1>b, <1>d DEF IrqFields
    <3>2. /\ StaysTo(9) /\ SameOp
          /\ Marks(FALSE, irq.Pkt_Received_flag, irq.Crc_Error_Rollback)
      BY <2>2, <3>1, <1>d DEF RxLands, IrqFields
    <3>3. MarksTurn
      BY <2>2, <3>2 DEF MarksTurn, Marks
    <3>4. QED
      BY <3>2, <3>3
  <2>3. ASSUME irq.at = 17, NEW n, n = [irq EXCEPT !.Crc_Error_Rollback = FALSE, !.at = 18],
               Becomes(n)
        PROVE  StaysTo(18) /\ SameOp /\ MarksTurn
    <3>1. RxLands(n)
      BY <2>3, <1>b, <1>d DEF IrqFields
    <3>2. /\ StaysTo(18) /\ SameOp
          /\ Marks(irq.Pkt_Start_flag, irq.Pkt_Received_flag, FALSE)
      BY <2>3, <3>1, <1>d DEF RxLands, IrqFields
    <3>3. MarksTurn
      BY <2>3, <3>2 DEF MarksTurn, Marks
    <3>4. QED
      BY <3>2, <3>3
  <2> HIDE DEF SameOp, SameMarks, StaysTo
  <2>4. ASSUME NEW next, next = irq.at + 1, Becomes([irq EXCEPT !.at = @ + 1])
        PROVE  StaysTo(next) /\ SameOp /\ SameMarks
    BY <2>1, <2>4
  <2>5. CASE irq.at \in {2, 11, 14, 23, 25, 28} /\ Becomes([irq EXCEPT !.at = @ + 1])
    <3>1. irq.at = 2 => StaysTo(3) /\ SameOp /\ SameMarks
      BY <2>4, <2>5
    <3>2. irq.at = 11 => StaysTo(12) /\ SameOp /\ SameMarks
      BY <2>4, <2>5
    <3>3. irq.at = 14 => StaysTo(15) /\ SameOp /\ SameMarks
      BY <2>4, <2>5
    <3>4. irq.at = 23 => StaysTo(24) /\ SameOp /\ SameMarks
      BY <2>4, <2>5
    <3>5. irq.at = 25 => StaysTo(26) /\ SameOp /\ SameMarks
      BY <2>4, <2>5
    <3>6. irq.at = 28 => StaysTo(29) /\ SameOp /\ SameMarks
      BY <2>4, <2>5
    <3>7. SameOp /\ SameMarks
      BY <2>5, <3>1, <3>2, <3>3, <3>4, <3>5, <3>6
    <3>8. QED
      BY <2>5, <3>1, <3>2, <3>3, <3>4, <3>5, <3>6, <3>7 DEF RxWalks, RxDoes
  <2>6. RxDoes
    <3>1. CASE irq.at = 8 /\ Becomes([irq EXCEPT !.Pkt_Start_flag = FALSE, !.at = 9])
      BY <2>2, <3>1 DEF RxMarks, RxDoes
    <3>2. CASE irq.at = 17 /\ Becomes([irq EXCEPT !.Crc_Error_Rollback = FALSE, !.at = 18])
      BY <2>3, <3>2 DEF RxMarks, RxDoes
    <3>3. QED
      BY <1>3, <2>5, <3>1, <3>2 DEF IrqEdge
  <2>7. QED
    BY <2>6 DEF RxDoes
<1>4. CASE TxDone
  <2>1. ASSUME irq.at = 4, NEW n, n = [irq EXCEPT !.tx_done = TRUE, !.at = 5],
               Becomes(n)
        PROVE  StaysTo(5) /\ SameOp /\ SameMarks
    <3>1. RxLands(n)
      BY <2>1, <1>b, <1>d DEF IrqFields
    <3>2. QED
      BY <2>1, <3>1, <1>d DEF RxLands, IrqFields
  <2>2. ASSUME irq.at = 5, NEW n, Becomes(n),
               n = [irq EXCEPT !.tx_done = FALSE, !.irq_dealing = FALSE, !.at = 0]
        PROVE  StaysTo(0) /\ SameOp /\ SameMarks
    <3>1. RxLands(n)
      BY <2>2, <1>b, <1>d DEF IrqFields
    <3>2. QED
      BY <2>2, <3>1, <1>d DEF RxLands, IrqFields
  <2>3. RxWalks
    BY <1>4, <2>1, <2>2 DEF RxWalks, TxDone
  <2>4. QED
    BY <2>3 DEF RxDoes
<1>5. CASE MarkPacket
  <2>1. ASSUME irq.at = 6, NEW n, n = [irq EXCEPT !.Pkt_Start_flag = TRUE, !.at = 7],
               Becomes(n)
        PROVE  RxMarks
    <3>1. RxLands(n)
      BY <2>1, <1>b, <1>d DEF IrqFields
    <3>2. /\ StaysTo(7) /\ SameOp
          /\ Marks(TRUE, irq.Pkt_Received_flag, irq.Crc_Error_Rollback)
      BY <2>1, <3>1, <1>d DEF RxLands, IrqFields
    <3> HIDE DEF StaysTo, SameOp
    <3>3. MarksTurn
      BY <2>1, <3>2 DEF MarksTurn, Marks
    <3>4. QED
      BY <2>1, <3>2, <3>3 DEF RxMarks
  <2>2. ASSUME irq.at = 6, NEW n, n = [irq EXCEPT !.at = 16],
               Becomes(n)
        PROVE  RxWalks
    <3>1. RxLands(n)
      BY <2>2, <1>b, <1>d DEF IrqFields
    <3>2. StaysTo(16) /\ SameOp /\ SameMarks
      BY <2>2, <3>1, <1>d DEF RxLands, IrqFields
    <3> HIDE DEF StaysTo, SameOp, SameMarks
    <3>3. QED
      BY <2>2, <3>2 DEF RxWalks
  <2>3. QED
    BY <1>5, <2>1, <2>2 DEF RxDoes, MarkPacket
<1>8. CASE ReadMore
  <2> DEFINE pos == (irq.Data_Recv_Pos + RX_THRESHOLD) % 256
             n == [irq EXCEPT !.start = TRUE, !.op = Op("rest", RX_THRESHOLD),
                              !.Data_Recv_Pos = pos, !.at = 28]
  <2>1. irq.at = 27 /\ Becomes(n)
    BY <1>8 DEF ReadMore
  <2> HIDE DEF pos
  <2>2. /\ DOMAIN n = IrqFields /\ n.at = 28 /\ n.op = Op("rest", RX_THRESHOLD)
        /\ n.start = TRUE /\ n.Data_Recv_Pos = pos
        /\ n.packets_incoming = irq.packets_incoming /\ n.almost_full = irq.almost_full
        /\ n.Pkt_Start_flag = irq.Pkt_Start_flag
        /\ n.Pkt_Received_flag = irq.Pkt_Received_flag
        /\ n.Crc_Error_Rollback = irq.Crc_Error_Rollback
    BY <1>d DEF IrqFields
  <2> HIDE DEF n
  <2>3. /\ SameMarks /\ Asking(Op("rest", RX_THRESHOLD))
        /\ TurnsTo(28, irq.almost_full, irq.packets_incoming, pos)
    BY <2>1, <2>2, <1>b DEF RxLands
  <2>4. RxReadsMore
    BY <2>1, <2>3 DEF RxReadsMore, pos
  <2>5. QED
    BY <2>4 DEF RxDoes
<1>9. CASE EndChunk
  <2>1. ASSUME irq.at = 30, NEW n, Becomes(n),
               n = [irq EXCEPT !.almost_full = FALSE, !.irq_dealing = FALSE, !.at = 0]
        PROVE  RxEndsChunk
    <3>1. RxLands(n)
      BY <2>1, <1>b, <1>d DEF IrqFields
    <3>2. QED
      BY <2>1, <3>1, <1>d DEF RxLands, RxEndsChunk, IrqFields
  <2>2. QED
    BY <1>9, <2>1 DEF RxDoes, EndChunk
<1>11. CASE AnnouncePacket
  <2>1. ASSUME irq.at = 19, NEW n, n = [irq EXCEPT !.Pkt_Received_flag = TRUE, !.at = 20],
               Becomes(n)
        PROVE  RxMarks
    <3>1. RxLands(n)
      BY <2>1, <1>b, <1>d DEF IrqFields
    <3>2. /\ StaysTo(20) /\ SameOp
          /\ Marks(irq.Pkt_Start_flag, TRUE, irq.Crc_Error_Rollback)
      BY <2>1, <3>1, <1>d DEF RxLands, IrqFields
    <3> HIDE DEF StaysTo, SameOp
    <3>3. MarksTurn
      BY <2>1, <3>2 DEF MarksTurn, Marks
    <3>4. QED
      BY <2>1, <3>2, <3>3 DEF RxMarks
  <2>2. QED
    BY <1>11, <2>1 DEF RxDoes, AnnouncePacket
<1>12. CASE StartRx
  <2> DEFINE n == [irq EXCEPT !.Pkt_Received_flag = FALSE, !.forced = FALSE, !.start = TRUE,
                              !.op = Op("start_rx", 1), !.at = 21]
  <2>1. irq.at = 20 /\ Becomes(n)
    BY <1>12 DEF StartRx
  <2>2. /\ DOMAIN n = IrqFields /\ n.at = 21 /\ n.op = Op("start_rx", 1)
        /\ n.start = TRUE /\ n.Data_Recv_Pos = irq.Data_Recv_Pos
        /\ n.packets_incoming = irq.packets_incoming /\ n.almost_full = irq.almost_full
        /\ n.Pkt_Start_flag = irq.Pkt_Start_flag
        /\ n.Pkt_Received_flag = FALSE
        /\ n.Crc_Error_Rollback = irq.Crc_Error_Rollback
    BY <1>d DEF IrqFields
  <2> HIDE DEF n
  <2>3. RxStarts
    BY <2>1, <2>2, <1>b DEF RxLands, RxStarts
  <2>4. QED
    BY <2>3 DEF RxDoes
<1>14. CASE EndAlmostEmpty
  <2>1. ASSUME irq.at = 26, NEW n, Becomes(n),
               n = [irq EXCEPT !.almost_empty = FALSE, !.irq_dealing = FALSE, !.at = 0]
        PROVE  RxWalks
    <3>1. RxLands(n)
      BY <2>1, <1>b, <1>d DEF IrqFields
    <3>2. QED
      BY <2>1, <3>1, <1>d DEF RxLands, RxWalks, IrqFields
  <2>2. QED
    BY <1>14, <2>1 DEF RxDoes, EndAlmostEmpty
<1>15. CASE EndReception
  <2>1. ASSUME irq.at = 24, DoneForIrq, NEW n, Becomes(n),
               n = [irq EXCEPT !.start = FALSE, !.op = NoOp, !.packets_incoming = 0,
                               !.Data_Recv_Pos = 0, !.watchdog = 3, !.irq_dealing = FALSE,
                               !.almost_full = FALSE, !.at = 0]
        PROVE  RxTakes
    <3>1. RxLands(n)
      BY <2>1, <1>b, <1>d DEF IrqFields
    <3>2. QED
      BY <2>1, <3>1, <1>d DEF RxLands, RxTakes, IrqFields
  <2>2. ASSUME irq.at = 24, DoneForIrq, NEW n, Becomes(n),
               n = [irq EXCEPT !.start = FALSE, !.op = NoOp, !.at = 19]
        PROVE  RxTakes
    <3>1. RxLands(n)
      BY <2>2, <1>b, <1>d DEF IrqFields
    <3>2. QED
      BY <2>2, <3>1, <1>d DEF RxLands, RxTakes, IrqFields
  <2>3. QED
    BY <1>15, <2>1, <2>2 DEF RxDoes, EndReception
<1>16. CASE ReadChunk
  <2> DEFINE op == IF irq.almost_full THEN HeadChunk
                   ELSE IF irq.packets_incoming = 1 THEN Op("head", 0) ELSE LastChunk
             pos == IF irq.almost_full THEN irq.Data_Recv_Pos + RX_THRESHOLD - 1
                    ELSE irq.Data_Recv_Pos
             n == [irq EXCEPT !.start = TRUE, !.op = op, !.at = 14, !.Data_Recv_Pos = pos]
  <2>1. irq.at = 13 /\ Becomes(n)
    BY <1>16 DEF ReadChunk
  <2>2. op = IF irq.almost_full THEN HeadChunk
            ELSE IF irq.packets_incoming = 1 THEN Op("head", 0)
            ELSE Op("rest", (engine.recv_pkt_len - irq.Data_Recv_Pos + 1) % 256)
    BY DEF LastChunk
  <2> HIDE DEF op, pos
  <2>3. /\ DOMAIN n = IrqFields /\ n.at = 14 /\ n.op = op
        /\ n.start = TRUE /\ n.Data_Recv_Pos = pos
        /\ n.packets_incoming = irq.packets_incoming /\ n.almost_full = irq.almost_full
        /\ n.Pkt_Start_flag = irq.Pkt_Start_flag
        /\ n.Pkt_Received_flag = irq.Pkt_Received_flag
        /\ n.Crc_Error_Rollback = irq.Crc_Error_Rollback
    BY <1>d DEF IrqFields
  <2> HIDE DEF n
  <2>4. /\ SameMarks /\ Asking(op)
        /\ TurnsTo(14, irq.almost_full, irq.packets_incoming, pos)
    BY <2>1, <2>3, <1>b DEF RxLands
  <2>5. RxReads
    BY <2>1, <2>2, <2>4 DEF RxReads, pos
  <2>6. QED
    BY <2>5 DEF RxDoes
<1>17. CASE ChunkRead
  <2>1. RxTakes
    BY <1>17, <1>a DEF ChunkRead, RxTakes
  <2>2. QED
    BY <2>1 DEF RxDoes
<1>18. CASE IrqAnswered
  <2>1. ASSUME NEW here \in {9, 12, 21, 29}, irq.at = here, Answered(here + 1)
        PROVE  RxTakes
    <3>1. DoneForIrq /\ ~irq'.start /\ SameMarks /\ StaysTo(here + 1)
      BY <2>1, <1>a
    <3> HIDE DEF StaysTo
    <3>2. CASE here = 9
      BY <2>1, <3>1, <3>2, 9 + 1 = 10 DEF RxTakes
    <3>3. CASE here = 12
      BY <2>1, <3>1, <3>3, 12 + 1 = 13 DEF RxTakes
    <3>4. CASE here = 21
      BY <2>1, <3>1, <3>4, 21 + 1 = 22 DEF RxTakes
    <3>5. CASE here = 29
      BY <2>1, <3>1, <3>5, 29 + 1 = 30 DEF RxTakes
    <3>6. QED
      BY <3>2, <3>3, <3>4, <3>5
  <2>2. CASE irq.at = 18 /\ Answered(20)
    BY <2>2, <1>a DEF RxTakes, RxDoes
  <2>3. QED
    BY <1>18, <2>1, <2>2 DEF IrqAnswered, RxDoes
<1>19. CASE IrqWaits
  <2>1. Becomes(irq)
    BY <1>19 DEF IrqWaits
  <2>2. RxLands(irq)
    BY <2>1, <1>b, <1>d
  <2>3. RxWaits
    BY <1>19, <2>2 DEF RxLands, RxWaits, IrqWaits
  <2>4. QED
    BY <2>3 DEF RxDoes
<1>20. CASE Classify
  <2>0. irq.at = 3 /\ DoneForIrq
    BY <1>20 DEF Classify
  <2>i. ASSUME NEW kind, NEW m, Interrupted(kind, m), DOMAIN m = IrqFields
        PROVE  /\ TakesIn /\ Kind = kind
               /\ Marks(m.Pkt_Start_flag, m.Pkt_Received_flag, m.Crc_Error_Rollback)
               /\ TurnsTo(m.at, m.almost_full, m.packets_incoming, m.Data_Recv_Pos)
    <3> DEFINE n == [m EXCEPT !.start = FALSE, !.op = NoOp]
    <3>1. /\ DOMAIN n = IrqFields /\ n.at = m.at /\ ~n.start
          /\ n.packets_incoming = m.packets_incoming
          /\ n.almost_full = m.almost_full /\ n.Data_Recv_Pos = m.Data_Recv_Pos
          /\ n.Pkt_Start_flag = m.Pkt_Start_flag
          /\ n.Pkt_Received_flag = m.Pkt_Received_flag
          /\ n.Crc_Error_Rollback = m.Crc_Error_Rollback
      BY <2>i DEF IrqFields
    <3>2. Becomes(n) /\ Kind = kind
      BY <2>i DEF Interrupted
    <3> HIDE DEF n
    <3>3. QED
      BY <3>1, <3>2, <1>b, <2>0 DEF RxLands, TakesIn
  <2>1. ASSUME Interrupted("almost_empty", [irq EXCEPT !.almost_empty = TRUE, !.at = 25])
        PROVE  SortsTx
    <3> DEFINE m == [irq EXCEPT !.almost_empty = TRUE, !.at = 25]
    <3>1. /\ DOMAIN m = IrqFields /\ m.at = 25
          /\ m.packets_incoming = irq.packets_incoming
          /\ m.almost_full = irq.almost_full /\ m.Data_Recv_Pos = irq.Data_Recv_Pos
          /\ m.Pkt_Start_flag = irq.Pkt_Start_flag
          /\ m.Pkt_Received_flag = irq.Pkt_Received_flag
          /\ m.Crc_Error_Rollback = irq.Crc_Error_Rollback
      BY <1>d DEF IrqFields
    <3>2. Interrupted("almost_empty", m)
      BY <2>1
    <3> HIDE DEF m
    <3>3. Kind = "almost_empty" => Pending("almost_empty")
      BY DEF Kind
    <3>4. QED
      BY <3>1, <3>2, <3>3, <2>i DEF SortsTx
  <2>2. ASSUME Interrupted("tx", [irq EXCEPT !.at = 4])
        PROVE  SortsTx
    <3> DEFINE m == [irq EXCEPT !.at = 4]
    <3>1. /\ DOMAIN m = IrqFields /\ m.at = 4
          /\ m.packets_incoming = irq.packets_incoming
          /\ m.almost_full = irq.almost_full /\ m.Data_Recv_Pos = irq.Data_Recv_Pos
          /\ m.Pkt_Start_flag = irq.Pkt_Start_flag
          /\ m.Pkt_Received_flag = irq.Pkt_Received_flag
          /\ m.Crc_Error_Rollback = irq.Crc_Error_Rollback
      BY <1>d DEF IrqFields
    <3>2. Interrupted("tx", m)
      BY <2>2
    <3> HIDE DEF m
    <3>3. Kind = "tx" => Pending("tx")
      BY DEF Kind
    <3>4. QED
      BY <3>1, <3>2, <3>3, <2>i DEF SortsTx
  <2>3. ASSUME Interrupted("none", [irq EXCEPT !.irq_dealing = FALSE, !.at = 0])
        PROVE  SortsTx
    <3> DEFINE m == [irq EXCEPT !.irq_dealing = FALSE, !.at = 0]
    <3>1. /\ DOMAIN m = IrqFields /\ m.at = 0
          /\ m.packets_incoming = irq.packets_incoming
          /\ m.almost_full = irq.almost_full /\ m.Data_Recv_Pos = irq.Data_Recv_Pos
          /\ m.Pkt_Start_flag = irq.Pkt_Start_flag
          /\ m.Pkt_Received_flag = irq.Pkt_Received_flag
          /\ m.Crc_Error_Rollback = irq.Crc_Error_Rollback
      BY <1>d DEF IrqFields
    <3>2. Interrupted("none", m)
      BY <2>3
    <3> HIDE DEF m
    <3>3. QED
      BY <3>1, <3>2, <2>i DEF SortsTx
  <2>4. ASSUME CrcInterrupt
        PROVE  SortsCrc
    <3> DEFINE back == irq.Crc_Error_Rollback \/ irq.packets_incoming > 1
               m == [irq EXCEPT !.at = 16, !.Crc_Error_Rollback = back]
    <3>2. Interrupted("crc", m)
      BY <2>4 DEF CrcInterrupt
    <3> HIDE DEF back
    <3>1. /\ DOMAIN m = IrqFields /\ m.at = 16
          /\ m.packets_incoming = irq.packets_incoming
          /\ m.almost_full = irq.almost_full /\ m.Data_Recv_Pos = irq.Data_Recv_Pos
          /\ m.Pkt_Start_flag = irq.Pkt_Start_flag
          /\ m.Pkt_Received_flag = irq.Pkt_Received_flag
          /\ m.Crc_Error_Rollback = back
      BY <1>d DEF IrqFields
    <3> HIDE DEF m
    <3>3. /\ TakesIn /\ StaysTo(16)
          /\ Marks(irq.Pkt_Start_flag, irq.Pkt_Received_flag, back)
      BY <3>1, <3>2, <2>i
    <3>4. QED
      BY <3>3 DEF SortsCrc, back
  <2>5. ASSUME Interrupted("almost_full", [irq EXCEPT !.almost_full = TRUE,
                       !.at = ByPacket(27),
                       !.packets_incoming = IF @ = 0 THEN 0 ELSE (@ + 1) % 16])
        PROVE  SortsFull
    <3> DEFINE more == IF irq.packets_incoming = 0 THEN 0
                       ELSE (irq.packets_incoming + 1) % 16
               next == ByPacket(27)
               m == [irq EXCEPT !.almost_full = TRUE, !.at = next,
                                !.packets_incoming = more]
    <3>2. Interrupted("almost_full", m)
      BY <2>5
    <3>v. /\ irq.packets_incoming = 0 => more = 0 /\ next = 16
          /\ irq.packets_incoming = 1 => more = 2 /\ next = 6
          /\ Follows(irq) => more = (irq.packets_incoming + 1) % 16 /\ next = 27
      BY DEF ByPacket, Follows
    <3> HIDE DEF more, next
    <3>1. /\ DOMAIN m = IrqFields /\ m.at = next
          /\ m.packets_incoming = more
          /\ m.almost_full = TRUE /\ m.Data_Recv_Pos = irq.Data_Recv_Pos
          /\ m.Pkt_Start_flag = irq.Pkt_Start_flag
          /\ m.Pkt_Received_flag = irq.Pkt_Received_flag
          /\ m.Crc_Error_Rollback = irq.Crc_Error_Rollback
      BY <1>d DEF IrqFields
    <3> HIDE DEF m
    <3>3. /\ TakesIn /\ SameMarks /\ Kind = "almost_full"
          /\ TurnsTo(next, TRUE, more, irq.Data_Recv_Pos)
      BY <3>1, <3>2, <2>i
    <3>4. Kind = "almost_full" => Pending("almost_full") /\ main.tx_state = "RX"
      BY DEF Kind
    <3>5. CASE irq.packets_incoming = 0
      BY <3>3, <3>4, <3>5, <3>v DEF SortsFull
    <3>6. CASE irq.packets_incoming = 1
      BY <3>3, <3>4, <3>6, <3>v DEF SortsFull
    <3>7. CASE Follows(irq)
      <4>1. TurnsTo(27, TRUE, (irq.packets_incoming + 1) % 16, irq.Data_Recv_Pos)
        BY <3>3, <3>7, <3>v
      <4>2. QED
        BY <3>3, <3>4, <3>7, <4>1 DEF SortsFull
    <3>8. QED
      BY <3>5, <3>6, <3>7 DEF Follows
  <2>6. ASSUME Interrupted("rx", [irq EXCEPT !.almost_full = FALSE, !.at = ByPacket(13)])
        PROVE  SortsRx
    <3> DEFINE next == ByPacket(13)
               m == [irq EXCEPT !.almost_full = FALSE, !.at = next]
    <3>2. Interrupted("rx", m)
      BY <2>6
    <3>v. /\ irq.packets_incoming = 0 => next = 16
          /\ irq.packets_incoming = 1 => next = 6
          /\ Follows(irq) => next = 13
      BY DEF ByPacket, Follows
    <3> HIDE DEF next
    <3>1. /\ DOMAIN m = IrqFields /\ m.at = next
          /\ m.packets_incoming = irq.packets_incoming
          /\ m.almost_full = FALSE /\ m.Data_Recv_Pos = irq.Data_Recv_Pos
          /\ m.Pkt_Start_flag = irq.Pkt_Start_flag
          /\ m.Pkt_Received_flag = irq.Pkt_Received_flag
          /\ m.Crc_Error_Rollback = irq.Crc_Error_Rollback
      BY <1>d DEF IrqFields
    <3> HIDE DEF m
    <3>3. /\ TakesIn /\ SameMarks /\ Kind = "rx"
          /\ TurnsTo(next, FALSE, irq.packets_incoming, irq.Data_Recv_Pos)
      BY <3>1, <3>2, <2>i
    <3>4. Kind = "rx" => Pending("rx")
      BY DEF Kind
    <3>5. CASE irq.packets_incoming = 0
      BY <3>3, <3>4, <3>5, <3>v DEF SortsRx
    <3>6. CASE irq.packets_incoming = 1
      BY <3>3, <3>4, <3>6, <3>v DEF SortsRx
    <3>7. CASE Follows(irq)
      BY <3>3, <3>4, <3>7, <3>v DEF SortsRx
    <3>8. QED
      BY <3>5, <3>6, <3>7 DEF Follows
  <2>7. ASSUME Interrupted("sync", [irq EXCEPT !.packets_incoming = 1, !.watchdog = 0,
                                        !.Data_Recv_Pos = 0, !.at = 0])
        PROVE  SortsSync
    <3> DEFINE m == [irq EXCEPT !.packets_incoming = 1, !.watchdog = 0,
                                !.Data_Recv_Pos = 0, !.at = 0]
    <3>1. /\ DOMAIN m = IrqFields /\ m.at = 0
          /\ m.packets_incoming = 1
          /\ m.almost_full = irq.almost_full /\ m.Data_Recv_Pos = 0
          /\ m.Pkt_Start_flag = irq.Pkt_Start_flag
          /\ m.Pkt_Received_flag = irq.Pkt_Received_flag
          /\ m.Crc_Error_Rollback = irq.Crc_Error_Rollback
      BY <1>d DEF IrqFields
    <3>2. Interrupted("sync", m)
      BY <2>7
    <3> HIDE DEF m
    <3>3. Kind = "sync" => Pending("sync")
      BY DEF Kind
    <3>4. QED
      BY <3>1, <3>2, <3>3, <2>i DEF SortsSync
  <2>8. QED
    BY <1>20, <2>1, <2>2, <2>3, <2>4, <2>5, <2>6, <2>7 DEF Classify, RxDoes
<1>21. QED
  BY <1>1, <1>2, <1>3, <1>4, <1>5, <1>8, <1>9, <1>11, <1>12, <1>14, <1>15, <1>16, <1>17,
     <1>18, <1>19, <1>20 DEF IrqStep

(* How the Main machine comes to listen, and stops: it is set up from state *)
(* 0 on, and starts over when it gives a frame up.  A command in state 77   *)
(* changes nothing that is modelled of the radio.                           *)
Commanded == main.at = 77 => main.op.name = "command"
SettingUp == Starting \cup {0, 56}
RxSetsUp ==
  \/ main.at = 0 /\ main'.at \in {0, 249} /\ ~main'.enable_irq
  \/ /\ main.at \in Starting /\ main'.at \in SettingUp
     /\ main'.enable_irq = main.enable_irq
  \/ main.at = 56 /\ ~DoneForMain /\ main' = main
  \/ main.at = 56 /\ DoneForMain /\ main'.at = 60
  \/ main.at \notin SettingUp /\ main'.at \notin SettingUp
  \/ GivesUp

(* The Main machine does nothing else with what makes the radio listen.     *)
LEMMA RxMain ==
  ASSUME MainShape, MainStep, TRUE \notin EmptyCommands, Commanded
  PROVE  RxSetsUp /\ Commanded'
<1> USE DEF MainShape, SettingUp, Starting, RxSetsUp, Commanded
<1>1. CASE StartUp
  <2>1. ASSUME main.at = 0, NEW next \in {0, 249},
               main' = [main EXCEPT !.enable_irq = FALSE, !.tx_state = "none",
                                    !.start = FALSE, !.at = next]
        PROVE  RxSetsUp /\ Commanded'
    BY <2>1
  <2>2. ASSUME main.at = 249, main' = [main EXCEPT !.reset_n = TRUE, !.at = 2]
        PROVE  RxSetsUp /\ Commanded'
    BY <2>2
  <2>3. QED
    BY <1>1, <2>1, <2>2 DEF StartUp
<1>2. CASE Configure
  <2>1. ASSUME main.at = 2, main' = main
        PROVE  RxSetsUp /\ Commanded'
    BY <2>1
  <2>2. ASSUME main.at = 2, Begin(Op("config", 0), 6)
        PROVE  RxSetsUp /\ Commanded'
    BY <2>2 DEF Begin
  <2>3. ASSUME main.at = 6, NEW next \in {2, 40}, Ended(next)
        PROVE  RxSetsUp /\ Commanded'
    BY <2>3 DEF Ended
  <2>4. QED
    BY <1>2, <2>1, <2>2, <2>3 DEF Configure
<1>3. CASE CheckAndListen
  <2>1. ASSUME main.at = 40, Begin(Op("fifo_reset", 2), 42)
        PROVE  RxSetsUp /\ Commanded'
    BY <2>1 DEF Begin
  <2>2. ASSUME NEW here \in {42, 52}, main.at = here, NEW next \in {50, 53, 54}, Ended(next)
        PROVE  RxSetsUp /\ Commanded'
    BY <2>2 DEF Ended
  <2>3. ASSUME main.at = 50, Begin(Op("state", 1), 52)
        PROVE  RxSetsUp /\ Commanded'
    BY <2>3 DEF Begin
  <2>4. ASSUME main.at = 53, main' = [main EXCEPT !.reset_n = FALSE, !.at = 0]
        PROVE  RxSetsUp /\ Commanded'
    BY <2>4
  <2>5. ASSUME main.at = 54, Begin(Op("start_rx", 8), 56)
        PROVE  RxSetsUp /\ Commanded'
    BY <2>5 DEF Begin
  <2>6. ASSUME main.at = 56, DoneForMain,
               main' = [main EXCEPT !.op = NoOp, !.start = FALSE, !.enable_irq = TRUE,
                                    !.tx_state = "RX", !.at = 60]
        PROVE  RxSetsUp /\ Commanded'
    BY <2>6
  <2>7. QED
    BY <1>3, <2>1, <2>2, <2>3, <2>4, <2>5, <2>6 DEF CheckAndListen
<1>4. CASE SendCommand
  <2>1. ASSUME main.at = 60, NEW next \in AfterLength, Goes(next)
        PROVE  RxSetsUp /\ Commanded'
    <3>1. next = 69
      BY <2>1 DEF AfterLength
    <3>2. QED
      BY <2>1, <3>1 DEF Goes
  <2>2. ASSUME main.at = 69, Begin(Op("command", 0), 77)
        PROVE  RxSetsUp /\ Commanded'
    BY <2>2 DEF Begin, Op
  <2>3. ASSUME main.at = 77, Ended(60)
        PROVE  RxSetsUp /\ Commanded'
    BY <2>3 DEF Ended
  <2>4. QED
    BY <1>4, <2>1, <2>2, <2>3 DEF SendCommand
<1>5. CASE MainWaits
  <2>1. main' = main /\ (main.at = 56 => ~DoneForMain)
    BY <1>5, WaitsStay DEF MainStays, MainWaiting
  <2>2. CASE main.at = 0
    BY <1>5, <2>2 DEF MainWaits
  <2>3. QED
    BY <2>1, <2>2
<1>6. ASSUME main.at \notin SettingUp, main'.at \notin SettingUp, main'.at # 77
      PROVE  RxSetsUp /\ Commanded'
  BY <1>6
<1>7. CASE main.at = 60 /\ FetchFrame
  <2>1. Begin(Op("word", 1), 62)
    BY <1>7 DEF FetchFrame
  <2>2. main'.at = 62
    BY <2>1 DEF Begin
  <2>3. QED
    BY <1>7, <2>2, <1>6
<1>8. CASE main.at \notin Idle \cup {60}
  <2>1. MainDoes
    BY MainEdges
  <2>2. CASE GivesUp
    BY <2>2 DEF GivesUp, From
  <2>3. CASE Stands
    BY <2>3, <1>8 DEF Stands, Idle
  <2>4. ASSUME ~GivesUp, ~Stands
        PROVE  main'.at \notin SettingUp /\ main'.at # 77
    <3> USE DEF Idle, From, Takes, Walks, Orders
    <3>1. CASE SetsUp \/ Listens \/ Skips
      BY <1>8, <3>1 DEF SetsUp, Listens, Skips
    <3>2. CASE Fetches
      BY <3>2 DEF Fetches
    <3>3. CASE Fills
      BY <3>3 DEF Fills
    <3>4. CASE ListensFirst \/ Begins \/ Sends
      BY <3>4 DEF ListensFirst, Begins, Sends
    <3>5. CASE Refills
      BY <3>5 DEF Refills
    <3>6. CASE Returns
      BY <3>6 DEF Returns
    <3>7. QED
      BY <2>1, <2>4, <3>1, <3>2, <3>3, <3>4, <3>5, <3>6 DEF MainDoes
  <2>5. QED
    BY <1>8, <2>2, <2>3, <2>4, <1>6 DEF Idle
<1>9. CASE main.at \in Idle \cup {60}
  <2> HIDE DEF RxSetsUp, Commanded, MainShape, SettingUp, Starting
  <2>1. ~FillFifo /\ ~ListenBeforeTalk /\ ~Transmit /\ ~Supervise
    BY <1>9 DEF Idle, FillFifo, ListenBeforeTalk, Transmit, Supervise
  <2>2. ~Refill /\ ~BackToRx
    BY <1>9 DEF Idle, Refill, BackToRx
  <2>3. FetchFrame => main.at = 60
    <3>1. FetchFrame => main.at \in {60, 62, 63, 65, 66, 70, 72}
      BY DEF FetchFrame
    <3>2. QED
      BY <1>9, <3>1 DEF Idle
  <2>4. \/ StartUp \/ Configure \/ CheckAndListen \/ SendCommand \/ MainWaits
        \/ main.at = 60 /\ FetchFrame
    BY <2>1, <2>2, <2>3, Zenon DEF MainStep
  <2>5. QED
    BY <2>4, <1>1, <1>2, <1>3, <1>4, <1>5, <1>7, Zenon
<1>10. QED
  BY <1>8, <1>9

(* All of it, of a radio r: what the interrupts that are pending and those  *)
(* that the engine has just read promise.                                   *)
News(r) == r.pending \cup engine.pending
RxInv(r) ==
  /\ RxNumbers(r) /\ Registers(irq)
  /\ Inside(irq, r, News(r), DoneForIrq)
  /\ Told(irq, r, DoneForIrq, engine.recv_pkt_len)
  /\ Up => Outset(irq, r, News(r), DoneForIrq)
  /\ Down(r)
  /\ TxAlone(irq, main, r, News(r), DoneForMain)
  /\ TxGuards /\ IrqAsked /\ EngineFollows(r) /\ Bounds(r) /\ Commanded

(* A chunk asked for is still there when the radio has heard more.          *)
LEMMA HeardBounded ==
  ASSUME RxNumbers(radio), Heard, NEW op, Bounded(radio, op)
  PROVE  Bounded(radio', op)
<1>1. Silent(radio) => Silent(radio') /\ radio'.len = radio.len
                       /\ radio'.rxfifo = radio.rxfifo
  <2> USE DEF Silent, Live
  <2>1. CASE Begun \/ ByteIn \/ Over \/ NotBegun
    BY <2>1 DEF Begun, ByteIn, Over, NotBegun
  <2>2. CASE OutgoingSeen
    BY <2>2 DEF OutgoingSeen, SameAir
  <2>3. QED
    BY <2>1, <2>2 DEF Heard
<1>2. radio'.rxfifo >= radio.rxfifo /\ radio.rxfifo \in Nat /\ radio'.rxfifo \in Nat
  BY HeardNumbers DEF RxNumbers, Heard, Begun, ByteIn, Over, NotBegun, OutgoingSeen, SameAir
<1>3. ASSUME op.name \in {"head", "rest"}
      PROVE  /\ Up /\ main.at # 97 /\ op.len \in Nat
             /\ op.len # 0 => (IF op.name = "head" THEN op.len + 1 ELSE op.len) <= radio'.rxfifo
             /\ op.len = 0 => op.name = "head" /\ radio'.len + 1 <= radio'.rxfifo
                              /\ Silent(radio')
  BY <1>1, <1>2, <1>3 DEF Bounded
<1>4. QED
  BY <1>3 DEF Bounded

(* What the radio does by itself keeps all of it.                           *)
LEMMA RxHears ==
  ASSUME RxInv(radio), Heard, EngineControl, PendingShort, Answering(irq, main, radio),
         main.at # 0, engine.at # 0
  PROVE  RxInv(radio')
<1>1. DoneForIrq = FALSE /\ DoneForMain = FALSE
  BY NotServedIsNotDone DEF DoneForIrq, DoneForMain, DoneFor, EngineControl
<1>2. engine.pending = {}
  BY DEF PendingShort
<1>3. News(radio) = radio.pending /\ News(radio') = radio'.pending
  BY <1>2 DEF News
<1>4. RxNumbers(radio) /\ RxNumbers(radio') /\ Registers(irq)
  BY HeardNumbers DEF RxInv
<1>5. Inside(irq, radio', News(radio'), DoneForIrq)
  BY <1>1, <1>3, <1>4, HeardInside DEF RxInv
<1>6. Told(irq, radio', DoneForIrq, engine.recv_pkt_len)
  <2>1. ASSUME NEW t, Amid(radio, t, radio.pending)
        PROVE  radio'.len = radio.len
    BY <2>1, <1>4, HeardAmid
  <2>2. irq.at \in Rest /\ Follows(irq) => radio'.len = radio.len
    BY <2>1, <1>3 DEF RxInv, Inside
  <2>3. Asked(irq, DoneForIrq) /\ ~irq.almost_full /\ Follows(irq) => radio'.len = radio.len
    BY <2>1, <1>3 DEF RxInv, Inside
  <2>4. HasMore(irq, DoneForIrq) \/ AskedMore(irq, DoneForIrq) => radio'.len = radio.len
    BY <2>1, <1>3 DEF RxInv, Inside
  <2>5. QED
    BY <2>2, <2>3, <2>4 DEF RxInv, Told
<1>7. Up => Outset(irq, radio', News(radio'), DoneForIrq)
  BY <1>1, <1>3, <1>4, HeardOutset DEF RxInv
<1>8. Down(radio')
  BY HeardDark DEF RxInv, Down
<1>9. TxAlone(irq, main, radio', News(radio'), DoneForMain)
  <2>1. Apart(irq) /\ radio.receiving => radio.mode = "rx"
    <3>1. CASE Up
      BY <3>1 DEF RxInv, Outset
    <3>2. CASE ~Up
      <4>1. Apart(irq) => irq.at \in {1, 2, 3} \/ (irq.at = 0 /\ irq.packets_incoming = 1)
        BY <3>2, <1>4 DEF RxInv, Down, Apart, Follows, Registers, Within
      <4>2. QED
        BY <3>2, <4>1, HeardDark DEF RxInv, Down
    <3>3. QED
      BY <3>1, <3>2
  <2>2. QED
    BY <2>1, <1>1, <1>3, HeardTx DEF RxInv
<1>10. EngineFollows(radio')
  BY <1>1 DEF RxInv, EngineFollows
<1>11. Bounds(radio')
  BY <1>4, HeardBounded DEF RxInv, Bounds
<1>12. QED
  BY <1>4, <1>5, <1>6, <1>7, <1>8, <1>9, <1>10, <1>11 DEF RxInv

(* State 0 of the Main machine shuts it down.                               *)
LEMMA RxShutDown ==
  ASSUME RxInv(radio), main.at = 0, PendingShort
  PROVE  RxInv(RadioOff)
<1>1. engine.pending = {} /\ ~Up
  BY DEF PendingShort, Up
<1>2. /\ RadioOff.mode = "off" /\ RadioOff.receiving = FALSE /\ RadioOff.air = 0
      /\ RadioOff.len = 0 /\ RadioOff.rxfifo = 0 /\ RadioOff.pending = {}
  BY DEF RadioOff
<1> HIDE DEF RadioOff
<1>3. RxNumbers(RadioOff) /\ Registers(irq)
  <2>a. RadioOff.rxfifo \in Nat /\ RadioOff.air \in Nat /\ RadioOff.len \in 0 .. 254
    BY <1>2
  <2>b. RadioOff.receiving \in BOOLEAN
    BY <1>2
  <2>1. RxNumbers(RadioOff)
    BY <1>2, <2>a, <2>b DEF RxNumbers
  <2>2. QED
    BY <2>1 DEF RxInv
<1>4. irq.at \in {0, 1, 2, 3} \cup Closing /\ ~Follows(irq)
      /\ (main.at = 0 /\ irq.at = 3 => ~DoneForIrq)
  BY <1>1 DEF RxInv, Down
<1>5. /\ ~(irq.at \in Opening \/ Asked(irq, DoneForIrq))
      /\ ~HasMore(irq, DoneForIrq) /\ ~AskedMore(irq, DoneForIrq)
  BY <1>4 DEF Opening, Closing, Asked, AskedMore, HasMore
<1>6. irq.at # 27
  BY <1>4 DEF Closing
<1>7. Inside(irq, RadioOff, News(RadioOff), DoneForIrq)
  BY <1>4, <1>5, <1>6 DEF Inside
<1>8. Told(irq, RadioOff, DoneForIrq, engine.recv_pkt_len)
  BY <1>4, <1>5 DEF Told
<1>9. Dark(RadioOff)
  BY <1>2 DEF Dark
<1>10. Down(RadioOff)
  BY <1>1, <1>4, <1>9 DEF Down
<1>11. TxAlone(irq, main, RadioOff, News(RadioOff), DoneForMain)
  <2>1. News(RadioOff) = {}
    BY <1>1, <1>2 DEF News
  <2>2. ~Answered4(main, DoneForMain)
    BY DEF Answered4, OnAir
  <2>3. QED
    BY <2>1, <2>2, <1>2 DEF TxAlone
<1>12. EngineFollows(RadioOff)
  BY <1>2 DEF RxInv, EngineFollows
<1>13. Bounds(RadioOff)
  BY <1>1 DEF RxInv, Bounds, Bounded
<1>14. QED
  BY <1>1, <1>3, <1>7, <1>8, <1>10, <1>11, <1>12, <1>13 DEF RxInv

(* What comes from outside at an edge.                                      *)
LEMMA RxOutside ==
  ASSUME RxInv(radio), RadioShape, EngineStep, EngineControl, PendingShort,
         Answering(irq, main, radio)
  PROVE  /\ RxInv(radio')
         /\ main.at = 0 => radio' = RadioOff
         /\ main.at # 0 /\ engine.at = 0 => radio' = radio
<1>1. CASE RadioEvent
  BY <1>1, RadioHears, RadioEdges, RxHears
<1>2. CASE RadioBecomes(radio)
  BY <1>2, RxShutDown DEF RadioBecomes
<1>3. QED
  BY <1>1, <1>2 DEF EngineStep, HeldInReset, Clear, Choose, Run, Outside

(* An edge keeps the registers within their bounds.                         *)
LEMMA EdgeRegisters ==
  ASSUME Registers(irq), RxDoes
  PROVE  Registers(irq')
<1> DEFINE full == irq.almost_full
           packets == irq.packets_incoming
           pos == irq.Data_Recv_Pos
<1>c. RX_THRESHOLD \in Nat /\ RX_THRESHOLD > 2
  BY RxConstants
<1>w. Within(irq.at, full, packets, pos)
  BY DEF Registers
<1>s. ASSUME NEW p \in 0 .. 15
      PROVE  Within(16, FALSE, p, 0)
  BY DEF Within, Opening, Closing
<1>g. ASSUME NEW next, NEW f, NEW p, NEW q, TurnsTo(next, f, p, q), Within(next, f, p, q)
      PROVE  Registers(irq')
  <2>1. p \in 0 .. 15
    BY <1>g DEF Within
  <2>2. CASE irq'.at = 16 /\ irq'.almost_full = FALSE /\ irq'.Data_Recv_Pos = 0
             /\ irq'.packets_incoming = p
    BY <2>1, <2>2, <1>s DEF Registers
  <2>3. CASE irq'.at = next /\ irq'.almost_full = f /\ irq'.Data_Recv_Pos = q
             /\ irq'.packets_incoming = p
    BY <2>3, <1>g DEF Registers
  <2>4. QED
    BY <1>g, <2>2, <2>3 DEF TurnsTo
<1> HIDE DEF full, packets, pos
<1>1. ASSUME NEW next, StaysTo(next), Within(next, full, packets, pos)
      PROVE  Registers(irq')
  BY <1>1, <1>g DEF StaysTo, full, packets, pos
(* where it goes with the registers as they are *)
<1>a. ASSUME irq.at \in Rest, NEW next \in Rest \cup {16}
      PROVE  Within(next, full, packets, pos)
  BY <1>w, <1>a DEF Rest, Within, Opening, Closing
<1>b. ASSUME irq.at \in Opening, NEW next \in Opening
      PROVE  Within(next, full, packets, pos)
  BY <1>w, <1>b DEF Within, Opening
<1>d. ASSUME irq.at \in Opening \cup Closing \cup {15}, NEW next \in Closing
      PROVE  Within(next, full, packets, pos)
  BY <1>w, <1>d DEF Within, Opening, Closing
<1>e. ASSUME irq.at \in {27, 28, 29, 30}, NEW next \in {27, 28, 29, 30}
      PROVE  Within(next, full, packets, pos)
  BY <1>w, <1>e DEF Within, Opening, Closing
<1>h. irq.at = 12 => Within(13, full, packets, pos)
  BY <1>w DEF Within, Opening, Closing
<1>i. irq.at = 14 => Within(15, full, packets, pos)
  BY <1>w DEF Within, Opening, Closing
<1>j. irq.at = 15 /\ full => Within(30, full, packets, pos)
  BY <1>w DEF Within, Opening, Closing
<1>2. CASE RxWaits
  BY <1>2, <1>1, <1>w DEF RxWaits
<1>3. CASE RxWakes
  BY <1>3, <1>1, <1>a DEF RxWakes, Rest
<1>4. CASE RxAsks
  BY <1>4, <1>1, <1>a, <1>b, <1>d DEF RxAsks, Rest, Opening, Closing
<1>5. CASE RxStarts
  BY <1>5, <1>1, <1>d DEF RxStarts, Closing
<1>6. CASE RxWalks
  <2>1. /\ irq.at = 2 /\ StaysTo(3) => Registers(irq')
        /\ irq.at = 4 /\ StaysTo(5) => Registers(irq')
        /\ irq.at = 25 /\ StaysTo(26) => Registers(irq')
    BY <1>1, <1>a DEF Rest
  <2>2. /\ irq.at = 11 /\ StaysTo(12) => Registers(irq')
        /\ irq.at = 14 /\ StaysTo(15) => Registers(irq')
        /\ irq.at = 23 /\ StaysTo(24) => Registers(irq')
        /\ irq.at = 28 /\ StaysTo(29) => Registers(irq')
    BY <1>1, <1>b, <1>d, <1>e, <1>i DEF Opening, Closing
  <2>3. irq.at = 6 /\ StaysTo(16) => Registers(irq')
    BY <1>1, <1>d DEF Opening, Closing
  <2>4. irq.at \in {5, 26} /\ StaysTo(0) => Registers(irq')
    BY <1>1, <1>a DEF Rest
  <2>5. QED
    BY <1>6, <2>1, <2>2, <2>3, <2>4 DEF RxWalks
<1>16. CASE RxMarks
  BY <1>16, <1>1, <1>b, <1>d DEF RxMarks, Opening, Closing
<1>7. CASE RxTakes
  <2>1. TurnsTo(0, FALSE, 0, 0) => Registers(irq')
    <3>1. Within(0, FALSE, 0, 0)
      BY DEF Within, Opening, Closing
    <3>2. QED
      BY <3>1, <1>g
  <2>2. irq.at = 9 /\ StaysTo(10) => Registers(irq')
    BY <1>1, <1>b DEF Opening
  <2>3. irq.at = 12 /\ StaysTo(13) => Registers(irq')
    BY <1>1, <1>h
  <2>4. ASSUME NEW next \in Closing, irq.at \in Closing \cup {15}, StaysTo(next)
        PROVE  Registers(irq')
    BY <2>4, <1>1, <1>d
  <2>5. irq.at = 29 /\ StaysTo(30) => Registers(irq')
    BY <1>1, <1>e
  <2>6. irq.at = 15 /\ full /\ StaysTo(30) => Registers(irq')
    BY <1>1, <1>j
  <2>7. QED
    BY <1>7, <2>1, <2>2, <2>3, <2>4, <2>5, <2>6 DEF RxTakes, Closing, full
<1>8. CASE RxReads
  <2>1. irq.at = 13 /\ TurnsTo(14, full, packets, IF full THEN pos + RX_THRESHOLD - 1 ELSE pos)
    BY <1>8 DEF RxReads, full, packets, pos
  <2>2. Within(14, full, packets, IF full THEN pos + RX_THRESHOLD - 1 ELSE pos)
    BY <2>1, <1>w, <1>c DEF Within, Opening
  <2>3. QED
    BY <2>1, <2>2, <1>g
<1>9. CASE RxReadsMore
  <2>1. irq.at = 27 /\ TurnsTo(28, full, packets, (pos + RX_THRESHOLD) % 256)
    BY <1>9 DEF RxReadsMore, full, packets, pos
  <2>2. (pos + RX_THRESHOLD) % 256 \in Nat
    BY <1>c, <1>w DEF Within
  <2>3. Within(28, full, packets, (pos + RX_THRESHOLD) % 256)
    BY <2>1, <2>2, <1>w DEF Within, Opening
  <2>4. QED
    BY <2>1, <2>3, <1>g
<1>10. CASE RxEndsChunk
  <2>1. irq.at = 30 /\ TurnsTo(0, FALSE, packets, pos)
    BY <1>10 DEF RxEndsChunk, packets, pos
  <2>2. Within(0, FALSE, packets, pos)
    BY <2>1, <1>w DEF Within, Opening
  <2>3. QED
    BY <2>1, <2>2, <1>g
<1>11. CASE SortsTx \/ SortsCrc
  BY <1>11, <1>1, <1>a DEF SortsTx, SortsCrc, TakesIn, Rest
<1>12. CASE SortsFull
  <2>1. irq.at = 3
    BY <1>12 DEF SortsFull, TakesIn
  <2>2. ASSUME packets = 0, TurnsTo(16, TRUE, 0, pos)
        PROVE  Registers(irq')
    <3>1. Within(16, TRUE, 0, pos)
      BY <1>w DEF Within, Opening, Closing
    <3>2. QED
      BY <2>2, <3>1, <1>g
  <2>3. ASSUME packets = 1, TurnsTo(6, TRUE, 2, pos)
        PROVE  Registers(irq')
    <3>1. Within(6, TRUE, 2, pos)
      BY <2>3, <1>w DEF Within, Opening, Closing
    <3>2. QED
      BY <2>3, <3>1, <1>g
  <2>4. ASSUME Follows(irq), TurnsTo(27, TRUE, (packets + 1) % 16, pos)
        PROVE  Registers(irq')
    <3> DEFINE more == (packets + 1) % 16
    <3>1. more \in 0 .. 15 /\ more # 1
      BY <1>w, <2>4 DEF Within, Follows, packets
    <3> HIDE DEF more
    <3>2. Within(27, TRUE, more, pos)
      BY <3>1, <1>w DEF Within, Opening, Closing
    <3>3. QED
      BY <2>4, <3>2, <1>g DEF more
  <2>5. QED
    BY <1>12, <2>2, <2>3, <2>4 DEF SortsFull, packets, pos
<1>13. CASE SortsRx
  <2>1. irq.at = 3
    BY <1>13 DEF SortsRx, TakesIn
  <2>2. packets = 0 /\ TurnsTo(16, FALSE, 0, pos) => Registers(irq')
    <3>1. Within(16, FALSE, 0, pos)
      BY <1>w DEF Within, Opening, Closing
    <3>2. QED
      BY <3>1, <1>g
  <2>3. packets = 1 /\ TurnsTo(6, FALSE, 1, pos) => Registers(irq')
    <3>1. packets = 1 => Within(6, FALSE, 1, pos)
      BY <1>w DEF Within, Opening, Closing
    <3>2. QED
      BY <3>1, <1>g
  <2>4. Follows(irq) /\ TurnsTo(13, FALSE, packets, pos) => Registers(irq')
    <3>1. Follows(irq) => Within(13, FALSE, packets, pos)
      BY <1>w DEF Within, Opening, Closing, Follows, packets
    <3>2. QED
      BY <3>1, <1>g
  <2>5. QED
    BY <1>13, <2>2, <2>3, <2>4 DEF SortsRx, packets, pos
<1>14. CASE SortsSync
  <2>1. irq.at = 3 /\ TurnsTo(0, full, 1, 0)
    BY <1>14 DEF SortsSync, TakesIn, full
  <2>2. Within(0, full, 1, 0)
    BY <2>1, <1>w DEF Within, Opening, Closing
  <2>3. QED
    BY <2>1, <2>2, <1>g
<1>17. QED
  BY <1>2, <1>3, <1>4, <1>5, <1>6, <1>7, <1>8, <1>9, <1>10, <1>11, <1>12, <1>13, <1>14,
     <1>16
     DEF RxDoes

(* Where the Irq machine has come from: to a rest with a packet under way,  *)
LEMMA RestFrom ==
  ASSUME RxDoes, irq'.at \in Rest, Follows(irq')
  PROVE  /\ Follows(irq) /\ irq'.Data_Recv_Pos = irq.Data_Recv_Pos
         /\ irq'.packets_incoming = irq.packets_incoming
         /\ irq.at \in Rest \cup {30}
<1> USE DEF StaysTo, TurnsTo, TakesIn, Rest, Follows
<1>1. CASE RxWaits
  BY <1>1 DEF RxWaits
<1>2. CASE RxWakes
  BY <1>2 DEF RxWakes
<1>3. CASE RxAsks
  BY <1>3 DEF RxAsks
<1>4. CASE RxStarts
  BY <1>4 DEF RxStarts
<1>5. CASE RxWalks
  BY <1>5 DEF RxWalks
<1>6. CASE RxTakes
  BY <1>6 DEF RxTakes
<1>7. CASE RxReads
  BY <1>7 DEF RxReads
<1>8. CASE RxReadsMore
  BY <1>8 DEF RxReadsMore
<1>9. CASE RxEndsChunk
  BY <1>9 DEF RxEndsChunk
<1>10. CASE SortsTx
  BY <1>10 DEF SortsTx
<1>11. CASE SortsCrc
  BY <1>11 DEF SortsCrc
<1>12. CASE SortsFull
  BY <1>12 DEF SortsFull
<1>13. CASE SortsRx
  BY <1>13 DEF SortsRx
<1>14. CASE SortsSync
  BY <1>14 DEF SortsSync
<1>15. CASE RxMarks
  BY <1>15 DEF RxMarks
<1>16. QED
  BY <1>1, <1>2, <1>3, <1>4, <1>5, <1>6, <1>7, <1>8, <1>9, <1>10,
     <1>11, <1>12, <1>13, <1>14, <1>15 DEF RxDoes

(* ... to a rest with none, or with one that has only begun, ...            *)
LEMMA RestFromNone ==
  ASSUME RxDoes, irq'.at \in Rest, ~Follows(irq')
  PROVE  /\ irq'.packets_incoming = 0 =>
              irq.at = 24 \/ (irq.at \in Rest \cup {30} /\ irq.packets_incoming = 0)
         /\ irq'.packets_incoming = 1 =>
              \/ irq.at = 3 /\ DoneForIrq /\ Pending("sync")
              \/ irq.at \in Rest \cup {30} /\ irq.packets_incoming = 1
<1> USE DEF StaysTo, TurnsTo, TakesIn, Rest, Follows
<1>1. CASE RxWaits
  BY <1>1 DEF RxWaits
<1>2. CASE RxWakes
  BY <1>2 DEF RxWakes
<1>3. CASE RxAsks
  BY <1>3 DEF RxAsks
<1>4. CASE RxStarts
  BY <1>4 DEF RxStarts
<1>5. CASE RxWalks
  BY <1>5 DEF RxWalks
<1>6. CASE RxTakes
  BY <1>6 DEF RxTakes
<1>7. CASE RxReads
  BY <1>7 DEF RxReads
<1>8. CASE RxReadsMore
  BY <1>8 DEF RxReadsMore
<1>9. CASE RxEndsChunk
  BY <1>9 DEF RxEndsChunk
<1>10. CASE SortsTx
  BY <1>10 DEF SortsTx
<1>11. CASE SortsCrc
  BY <1>11 DEF SortsCrc
<1>12. CASE SortsFull
  BY <1>12 DEF SortsFull
<1>13. CASE SortsRx
  BY <1>13 DEF SortsRx
<1>14. CASE SortsSync
  BY <1>14 DEF SortsSync
<1>15. CASE RxMarks
  BY <1>15 DEF RxMarks
<1>16. QED
  BY <1>1, <1>2, <1>3, <1>4, <1>5, <1>6, <1>7, <1>8, <1>9, <1>10,
     <1>11, <1>12, <1>13, <1>14, <1>15 DEF RxDoes

(* ... to the beginning of a packet and its last part, ...                  *)
LEMMA OpeningFrom ==
  ASSUME RxDoes, irq'.at \in Opening \cup {13, 14, 15}
  PROVE  \/ /\ irq.at \in Opening \cup {13, 14} \/ (irq.at = 15 /\ ~DoneForIrq)
            /\ irq'.almost_full = irq.almost_full
            /\ irq'.packets_incoming = irq.packets_incoming
            /\ ~irq.almost_full => irq'.Data_Recv_Pos = irq.Data_Recv_Pos
         \/ /\ irq.at = 3 /\ DoneForIrq
            /\ \/ /\ Pending("almost_full") /\ irq.packets_incoming = 1
                  /\ irq'.almost_full = TRUE /\ irq'.packets_incoming = 2
               \/ /\ Pending("rx") /\ irq'.almost_full = FALSE
                  /\ irq.packets_incoming = 1 \/ Follows(irq)
                  /\ irq'.packets_incoming = irq.packets_incoming
                  /\ irq'.Data_Recv_Pos = irq.Data_Recv_Pos
<1> USE DEF StaysTo, TurnsTo, TakesIn, Opening
<1>1. CASE RxWaits
  BY <1>1 DEF RxWaits
<1>2. CASE RxWakes
  BY <1>2 DEF RxWakes
<1>3. CASE RxAsks
  BY <1>3 DEF RxAsks
<1>4. CASE RxStarts
  BY <1>4 DEF RxStarts
<1>5. CASE RxWalks
  BY <1>5 DEF RxWalks
<1>6. CASE RxTakes
  BY <1>6 DEF RxTakes
<1>7. CASE RxReads
  BY <1>7 DEF RxReads
<1>8. CASE RxReadsMore
  BY <1>8 DEF RxReadsMore
<1>9. CASE RxEndsChunk
  BY <1>9 DEF RxEndsChunk
<1>10. CASE SortsTx
  BY <1>10 DEF SortsTx
<1>11. CASE SortsCrc
  BY <1>11 DEF SortsCrc
<1>12. CASE SortsFull
  BY <1>12 DEF SortsFull
<1>13. CASE SortsRx
  BY <1>13 DEF SortsRx
<1>14. CASE SortsSync
  BY <1>14 DEF SortsSync
<1>15. CASE RxMarks
  BY <1>15 DEF RxMarks
<1>16. QED
  BY <1>1, <1>2, <1>3, <1>4, <1>5, <1>6, <1>7, <1>8, <1>9, <1>10,
     <1>11, <1>12, <1>13, <1>14, <1>15 DEF RxDoes

(* ... to a further chunk, ...                                              *)
LEMMA ChunkFrom ==
  ASSUME RxDoes, irq'.at \in {27, 28, 29, 30}
  PROVE  /\ irq'.at = 27 =>
              /\ irq.at = 3 /\ DoneForIrq /\ Pending("almost_full") /\ Follows(irq)
              /\ irq'.Data_Recv_Pos = irq.Data_Recv_Pos
         /\ irq'.at # 27 => irq'.packets_incoming = irq.packets_incoming
         /\ irq'.at \in {28, 29} =>
              \/ /\ irq.at = 27
                 /\ irq'.Data_Recv_Pos = (irq.Data_Recv_Pos + RX_THRESHOLD) % 256
              \/ /\ irq.at = 28 \/ (irq.at = 29 /\ ~DoneForIrq)
                 /\ irq'.Data_Recv_Pos = irq.Data_Recv_Pos
         /\ irq'.at = 30 =>
              /\ DoneForIrq /\ (irq.at = 29 \/ (irq.at = 15 /\ irq.almost_full))
              /\ irq'.Data_Recv_Pos = irq.Data_Recv_Pos
<1> USE DEF StaysTo, TurnsTo, TakesIn, Follows
<1>1. CASE RxWaits
  BY <1>1 DEF RxWaits
<1>2. CASE RxWakes
  BY <1>2 DEF RxWakes
<1>3. CASE RxAsks
  BY <1>3 DEF RxAsks
<1>4. CASE RxStarts
  BY <1>4 DEF RxStarts
<1>5. CASE RxWalks
  BY <1>5 DEF RxWalks
<1>6. CASE RxTakes
  BY <1>6 DEF RxTakes
<1>7. CASE RxReads
  BY <1>7 DEF RxReads
<1>8. CASE RxReadsMore
  BY <1>8 DEF RxReadsMore
<1>9. CASE RxEndsChunk
  BY <1>9 DEF RxEndsChunk
<1>10. CASE SortsTx
  BY <1>10 DEF SortsTx
<1>11. CASE SortsCrc
  BY <1>11 DEF SortsCrc
<1>12. CASE SortsFull
  BY <1>12 DEF SortsFull
<1>13. CASE SortsRx
  BY <1>13 DEF SortsRx
<1>14. CASE SortsSync
  BY <1>14 DEF SortsSync
<1>15. CASE RxMarks
  BY <1>15 DEF RxMarks
<1>16. QED
  BY <1>1, <1>2, <1>3, <1>4, <1>5, <1>6, <1>7, <1>8, <1>9, <1>10,
     <1>11, <1>12, <1>13, <1>14, <1>15 DEF RxDoes

(* ... and to the end of a packet; once there it stays until there is none. *)
LEMMA ClosingFrom ==
  ASSUME RxDoes
  PROVE  /\ irq'.at \in {22, 23, 24} =>
              irq.at \in {22, 23, 24} \/ (irq.at = 21 /\ DoneForIrq)
         /\ irq.at \in Closing =>
              irq'.at \in Closing \/ (irq'.at = 0 /\ irq'.packets_incoming = 0)
         /\ irq.at \in Closing /\ irq'.at \in Closing =>
              irq'.packets_incoming = irq.packets_incoming
<1> USE DEF StaysTo, TurnsTo, TakesIn, Closing
<1>1. CASE RxWaits
  BY <1>1 DEF RxWaits
<1>2. CASE RxWakes
  BY <1>2 DEF RxWakes
<1>3. CASE RxAsks
  BY <1>3 DEF RxAsks
<1>4. CASE RxStarts
  BY <1>4 DEF RxStarts
<1>5. CASE RxWalks
  BY <1>5 DEF RxWalks
<1>6. CASE RxTakes
  BY <1>6 DEF RxTakes
<1>7. CASE RxReads
  BY <1>7 DEF RxReads
<1>8. CASE RxReadsMore
  BY <1>8 DEF RxReadsMore
<1>9. CASE RxEndsChunk
  BY <1>9 DEF RxEndsChunk
<1>10. CASE SortsTx
  BY <1>10 DEF SortsTx
<1>11. CASE SortsCrc
  BY <1>11 DEF SortsCrc
<1>12. CASE SortsFull
  BY <1>12 DEF SortsFull
<1>13. CASE SortsRx
  BY <1>13 DEF SortsRx
<1>14. CASE SortsSync
  BY <1>14 DEF SortsSync
<1>15. CASE RxMarks
  BY <1>15 DEF RxMarks
<1>16. QED
  BY <1>1, <1>2, <1>3, <1>4, <1>5, <1>6, <1>7, <1>8, <1>9, <1>10,
     <1>11, <1>12, <1>13, <1>14, <1>15 DEF RxDoes

(* What fewer interrupts promise.                                           *)
LEMMA AmidLess ==
  ASSUME NEW r, NEW t, NEW q, NEW p, p \subseteq q, Amid(r, t, q)
  PROVE  Amid(r, t, p)
  BY DEF Amid, Sound

(* A status with an interrupt in it is looked at only while the Main        *)
(* machine listens.                                                         *)
LEMMA NewsWhenUp ==
  ASSUME NEW r, Down(r), irq.at = 3, DoneForIrq, engine.pending # {}
  PROVE  Up
  BY DEF Down

(* An edge keeps what is known of the packet of which the Irq machine has   *)
(* taken note: the status it has just looked at is news no more.            *)
LEMMA EdgeInside ==
  ASSUME NEW r, RxNumbers(r), Registers(irq), Down(r), EngineFollows(r), RxDoes,
         Inside(irq, r, News(r), DoneForIrq),
         Up => Outset(irq, r, News(r), DoneForIrq)
  PROVE  Inside(irq', r, r.pending, FALSE)
<1> DEFINE pos == irq.Data_Recv_Pos
<1>q. r.pending \subseteq News(r)
  BY DEF News
<1>l. ASSUME NEW t, Amid(r, t, News(r))
      PROVE  Amid(r, t, r.pending)
  BY <1>l, <1>q, AmidLess
<1>3. ASSUME irq.at = 3, DoneForIrq, engine.pending # {}
      PROVE  /\ News(r) = engine.pending /\ r.pending = {}
             /\ Outset(irq, r, News(r), DoneForIrq)
             /\ irq.packets_incoming = 1 => Sound(r, 0, engine.pending)
  <2>1. r.pending = {}
    BY <1>3 DEF EngineFollows
  <2>2. News(r) = engine.pending
    BY <2>1 DEF News
  <2>3. Outset(irq, r, News(r), DoneForIrq)
    BY <1>3, NewsWhenUp
  <2>4. irq.at \in Rest
    BY <1>3 DEF Rest
  <2>5. QED
    BY <2>1, <2>2, <2>3, <2>4 DEF Outset
<1>4. irq'.at \in Rest /\ Follows(irq') => Amid(r, irq'.Data_Recv_Pos, r.pending)
  <2>1. ASSUME irq'.at \in Rest, Follows(irq')
        PROVE  Amid(r, irq'.Data_Recv_Pos, r.pending)
    <3>1. /\ Follows(irq) /\ irq'.Data_Recv_Pos = pos
          /\ irq.at \in Rest \cup {30}
      BY <2>1, RestFrom
    <3>2. Amid(r, pos, News(r))
      BY <3>1 DEF Inside, HasMore
    <3>3. QED
      BY <3>1, <3>2, <1>l
  <2>2. QED
    BY <2>1
<1>5. ASSUME irq'.at \in Opening \/ Asked(irq', FALSE)
      PROVE  /\ irq'.almost_full =>
                  /\ Packet(r, 0) /\ Sound(r, 0, r.pending)
                  /\ "sync" \notin r.pending /\ ChunkWaits(r)
             /\ ~irq'.almost_full /\ irq'.packets_incoming = 1 =>
                  Packet(r, 0) /\ ~r.receiving
             /\ ~irq'.almost_full /\ Follows(irq') =>
                  Amid(r, irq'.Data_Recv_Pos, r.pending) /\ ~r.receiving
  <2>1. irq'.at \in Opening \cup {13, 14, 15}
    BY <1>5 DEF Asked
  <2>2. CASE /\ irq.at \in Opening \cup {13, 14} \/ (irq.at = 15 /\ ~DoneForIrq)
             /\ irq'.almost_full = irq.almost_full
             /\ irq'.packets_incoming = irq.packets_incoming
             /\ ~irq.almost_full => irq'.Data_Recv_Pos = pos
    <3>1. irq.at \in Opening \/ Asked(irq, DoneForIrq)
      BY <2>2 DEF Asked
    <3>2. irq.almost_full =>
            Packet(r, 0) /\ Sound(r, 0, r.pending) /\ "sync" \notin r.pending /\ ChunkWaits(r)
      BY <3>1, <1>q DEF Inside, Sound
    <3>3. ~irq.almost_full /\ irq.packets_incoming = 1 => Packet(r, 0) /\ ~r.receiving
      BY <3>1 DEF Inside
    <3>4. ~irq.almost_full /\ Follows(irq) => Amid(r, pos, r.pending) /\ ~r.receiving
      BY <3>1, <1>l DEF Inside
    <3>5. Follows(irq') => Follows(irq)
      BY <2>2 DEF Follows
    <3>6. QED
      BY <2>2, <3>2, <3>3, <3>4, <3>5
  <2>3. CASE /\ irq.at = 3 /\ DoneForIrq
             /\ Pending("almost_full") /\ irq.packets_incoming = 1
             /\ irq'.almost_full = TRUE /\ irq'.packets_incoming = 2
    <3>1. "almost_full" \in engine.pending /\ Sound(r, 0, engine.pending) /\ r.pending = {}
      BY <2>3, <1>3 DEF Pending
    <3>2. Packet(r, 0) /\ ChunkWaits(r)
      BY <3>1 DEF Sound, ChunkWaits
    <3>3. Sound(r, 0, r.pending)
      BY <3>1 DEF Sound
    <3>4. QED
      BY <2>3, <3>1, <3>2, <3>3
  <2>4. CASE /\ irq.at = 3 /\ DoneForIrq
             /\ Pending("rx") /\ irq'.almost_full = FALSE
             /\ irq.packets_incoming = 1 \/ Follows(irq)
             /\ irq'.packets_incoming = irq.packets_incoming
             /\ irq'.Data_Recv_Pos = pos
    <3>1. "rx" \in engine.pending /\ News(r) = engine.pending
      BY <2>4, <1>3 DEF Pending
    <3>2. irq.packets_incoming = 1 => Packet(r, 0) /\ ~r.receiving
      BY <2>4, <3>1, <1>3 DEF Sound
    <3>3. Follows(irq) => Amid(r, pos, News(r)) /\ ~r.receiving
      <4>1. Follows(irq) => Amid(r, pos, News(r))
        BY <2>4 DEF Inside, Rest
      <4>2. QED
        BY <4>1, <3>1 DEF Amid, Sound
    <3>4. Follows(irq') => Follows(irq)
      BY <2>4 DEF Follows
    <3>5. QED
      BY <2>4, <3>2, <3>3, <3>4, <1>l
  <2>5. QED
    BY <2>1, <2>2, <2>3, <2>4, OpeningFrom
<1>6. ASSUME irq'.at = 27
      PROVE  Amid(r, irq'.Data_Recv_Pos, r.pending) /\ ChunkWaits(r)
  <2>1. /\ irq.at = 3 /\ DoneForIrq /\ "almost_full" \in engine.pending /\ Follows(irq)
        /\ irq'.Data_Recv_Pos = pos
    BY <1>6, ChunkFrom DEF Pending
  <2>2. News(r) = engine.pending /\ r.pending = {}
    BY <2>1, <1>3
  <2>3. Amid(r, pos, News(r))
    BY <2>1 DEF Inside, Rest
  <2>4. ChunkWaits(r)
    BY <2>1, <2>2, <2>3 DEF Amid, Sound, ChunkWaits
  <2>5. QED
    BY <2>1, <2>3, <2>4, <1>l
<1>7. ASSUME irq'.at = 30
      PROVE  Amid(r, irq'.Data_Recv_Pos, r.pending)
  <2>1. /\ DoneForIrq /\ (irq.at = 29 \/ (irq.at = 15 /\ irq.almost_full))
        /\ irq'.Data_Recv_Pos = pos
    BY <1>7, ChunkFrom
  <2>2. Amid(r, pos, News(r))
    BY <2>1 DEF Inside, HasMore
  <2>3. QED
    BY <2>1, <2>2, <1>l
<1>8. ASSUME irq'.at \in {28, 29}
      PROVE  Amid(r, irq'.Data_Recv_Pos - RX_THRESHOLD, r.pending) /\ ChunkWaits(r)
  <2>1. CASE irq.at = 27 /\ irq'.Data_Recv_Pos = (pos + RX_THRESHOLD) % 256
    <3>1. Amid(r, pos, News(r)) /\ ChunkWaits(r)
      BY <2>1 DEF Inside, HasMore
    <3>2. /\ pos \in 1 .. 255 /\ r.rxfifo >= RX_THRESHOLD
          /\ r.rxfifo + r.air + pos = r.len + 1
      BY <3>1 DEF Amid, Grid, Packet, ChunkWaits
    <3>n. /\ RX_THRESHOLD \in Nat /\ r.rxfifo \in Nat /\ r.air \in Nat /\ r.len \in 0 .. 254
          /\ pos \in Nat
      BY <3>2, RxConstants DEF RxNumbers
    <3> HIDE DEF pos
    <3>3. pos + RX_THRESHOLD \in 0 .. 255
      BY <3>2, <3>n
    <3>4. irq'.Data_Recv_Pos = pos + RX_THRESHOLD
      BY <2>1, <3>3
    <3>5. irq'.Data_Recv_Pos - RX_THRESHOLD = pos
      BY <3>4, <3>2, RxConstants
    <3>6. QED
      BY <3>1, <3>5, <1>l
  <2>2. CASE /\ irq.at = 28 \/ (irq.at = 29 /\ ~DoneForIrq)
             /\ irq'.Data_Recv_Pos = pos
    BY <2>2, <1>l DEF Inside, AskedMore
  <2>3. QED
    BY <1>8, <2>1, <2>2, ChunkFrom
<1>9. QED
  BY <1>4, <1>5, <1>6, <1>7, <1>8 DEF Inside, HasMore, AskedMore

(* recv_pkt_len goes only when there is no packet.                          *)
LEMMA LengthKept ==
  ASSUME EngineShape, EngineStep, main.reset_n, irq.packets_incoming # 0
  PROVE  engine'.recv_pkt_len = engine.recv_pkt_len
<1>1. CASE Clear
  BY <1>1 DEF Clear, EngineShape
<1>2. CASE Choose
  BY <1>2 DEF Choose, Accept, EngineShape
<1>3. CASE Run
  BY <1>3 DEF Run
<1>4. QED
  BY <1>1, <1>2, <1>3 DEF EngineStep

(* The length the engine has told of a packet is that of the packet the Irq *)
(* machine reads.                                                           *)
LEMMA EdgeTold ==
  ASSUME NEW r, NEW n, Registers(irq), RxDoes,
         Told(irq, r, DoneForIrq, engine.recv_pkt_len),
         irq.packets_incoming # 0 => n = engine.recv_pkt_len
  PROVE  Told(irq', r, FALSE, n)
<1>f. Follows(irq) => irq.packets_incoming # 0
  BY DEF Follows
<1>1. ASSUME irq'.at \in Rest, Follows(irq')
      PROVE  n = r.len
  <2>1. /\ Follows(irq) /\ irq.at \in Rest \cup {30}
    BY <1>1, RestFrom
  <2>2. engine.recv_pkt_len = r.len
    BY <2>1, <1>f DEF Told, HasMore
  <2>3. QED
    BY <2>1, <2>2, <1>f
<1>2. ASSUME Asked(irq', FALSE), ~irq'.almost_full, Follows(irq')
      PROVE  n = r.len
  <2>1. irq'.at \in Opening \cup {13, 14, 15}
    BY <1>2 DEF Asked
  <2>2. CASE /\ irq.at \in Opening \cup {13, 14} \/ (irq.at = 15 /\ ~DoneForIrq)
             /\ irq'.almost_full = irq.almost_full
             /\ irq'.packets_incoming = irq.packets_incoming
    <3>1. Follows(irq) /\ ~irq.almost_full
      BY <1>2, <2>2 DEF Follows
    <3>2. irq.at \notin Opening
      BY <3>1 DEF Registers, Within, Follows
    <3>3. Asked(irq, DoneForIrq)
      BY <2>2, <3>2 DEF Asked
    <3>4. QED
      BY <3>1, <3>3, <1>f DEF Told
  <2>3. CASE /\ irq.at = 3 /\ irq'.packets_incoming = irq.packets_incoming
    BY <1>2, <2>3, <1>f DEF Told, Follows, Rest
  <2>4. QED
    BY <1>2, <2>1, <2>2, <2>3, OpeningFrom
<1>3. ASSUME irq'.at \in {27, 28, 29, 30}, irq'.packets_incoming # 0
      PROVE  n = r.len
  <2>1. CASE irq'.at = 27
    BY <2>1, <1>3, ChunkFrom, <1>f DEF Told, Rest
  <2>2. CASE irq'.at # 27
    <3>1. irq.packets_incoming # 0
      BY <2>2, <1>3, ChunkFrom
    <3>2. HasMore(irq, DoneForIrq) \/ AskedMore(irq, DoneForIrq)
      BY <2>2, <1>3, ChunkFrom DEF HasMore, AskedMore
    <3>3. QED
      BY <3>1, <3>2 DEF Told
  <2>3. QED
    BY <2>1, <2>2
<1>4. QED
  BY <1>1, <1>2, <1>3 DEF Told, HasMore, AskedMore

(* A packet of which something has been taken, and that is given up, is     *)
(* late.                                                                    *)
LEMMA AmidIsLate ==
  ASSUME NEW r, NEW t, NEW q, RxNumbers(r), Amid(r, t, q)
  PROVE  Late(r, q)
<1>1. /\ t \in 1 .. 255 /\ "sync" \notin q
      /\ r.rxfifo + r.air + t = r.len + 1
      /\ r.receiving => r.mode = "rx"
      /\ ~r.receiving => r.air = 0 /\ ~Live(r)
  BY DEF Amid, Grid, Packet
<1>2. r.rxfifo \in Nat /\ r.air \in Nat /\ r.len \in 0 .. 254
  BY DEF RxNumbers
<1>3. r.air <= r.len
  <2>1. t >= 1 /\ t \in Nat /\ r.len \in Nat /\ r.rxfifo + r.air + t = r.len + 1
    BY <1>1, <1>2
  <2>2. r.rxfifo + t >= 1 /\ r.air = r.len + 1 - (r.rxfifo + t)
    BY <1>2, <2>1
  <2>3. QED
    BY <1>2, <2>1, <2>2
<1>4. QED
  BY <1>1, <1>3 DEF Late, Silent

(* While the Main machine listens, an edge keeps what is known of a packet  *)
(* of which the Irq machine has not yet taken note.                         *)
LEMMA EdgeOutset ==
  ASSUME NEW r, RxNumbers(r), Registers(irq), Up, EngineFollows(r), RxDoes,
         Inside(irq, r, News(r), DoneForIrq), Outset(irq, r, News(r), DoneForIrq)
  PROVE  Outset(irq', r, r.pending, FALSE)
<1>q. r.pending \subseteq News(r) /\ engine.pending \subseteq News(r)
  BY DEF News
<1>l. /\ Late(r, News(r)) => Late(r, r.pending)
      /\ Sound(r, 0, News(r)) => Sound(r, 0, r.pending)
  BY <1>q DEF Late, Sound
<1>1. r.receiving => r.mode = "rx"
  BY DEF Outset
<1>2. ASSUME irq'.at \in Rest, irq'.packets_incoming = 0
      PROVE  Fresh(r) \/ Late(r, r.pending)
  <2>0. ~Follows(irq')
    BY <1>2 DEF Follows
  <2>1. irq.at = 24 \/ (irq.at \in Rest \cup {30} /\ irq.packets_incoming = 0)
    BY <1>2, <2>0, RestFromNone
  <2>2. CASE irq.at = 24
    BY <2>2 DEF Outset
  <2>3. CASE irq.at \in Rest /\ irq.packets_incoming = 0
    BY <2>3, <1>l DEF Outset
  <2>4. CASE irq.at = 30
    <3>1. Amid(r, irq.Data_Recv_Pos, News(r))
      BY <2>4 DEF Inside, HasMore
    <3>2. QED
      BY <3>1, <1>l, AmidIsLate
  <2>5. QED
    BY <2>1, <2>2, <2>3, <2>4
<1>3. ASSUME irq'.at \in Rest, irq'.packets_incoming = 1
      PROVE  Fresh(r) /\ Sound(r, 0, r.pending)
  <2>0. ~Follows(irq')
    BY <1>3 DEF Follows
  <2>1. \/ irq.at = 3 /\ DoneForIrq /\ Pending("sync")
        \/ irq.at \in Rest \cup {30} /\ irq.packets_incoming = 1
    BY <1>3, <2>0, RestFromNone
  <2>2. CASE irq.at = 3 /\ DoneForIrq /\ Pending("sync")
    <3>1. "sync" \in News(r) /\ r.pending = {} /\ irq.at \in Rest
      BY <2>2, <1>q DEF Pending, EngineFollows, Rest
    <3>2. Sound(r, 0, r.pending)
      BY <3>1 DEF Sound
    <3>3. ~Late(r, News(r)) /\ (\A t : ~Amid(r, t, News(r)))
      BY <3>1 DEF Late, Amid
    <3>4. Fresh(r)
      BY <3>1, <3>3 DEF Outset, Inside, Follows
    <3>5. QED
      BY <3>2, <3>4
  <2>3. CASE irq.at \in Rest \cup {30} /\ irq.packets_incoming = 1
    <3>1. irq.at # 30
      BY <2>3 DEF Registers, Within
    <3>2. QED
      BY <2>3, <3>1, <1>l DEF Outset
  <2>4. QED
    BY <2>1, <2>2, <2>3
<1>4. irq'.at \in {22, 23, 24} => Fresh(r)
  BY ClosingFrom DEF Outset
<1>5. QED
  BY <1>1, <1>2, <1>3, <1>4 DEF Outset

(* Where the Irq machine may go while the Main machine does not listen.     *)
LEMMA DownFrom ==
  ASSUME RxDoes, irq.at \in {0, 1, 2, 3} \cup Closing,
         irq.at = 3 /\ DoneForIrq => engine.pending = {}
  PROVE  /\ irq'.at \in {0, 1, 2, 3} \cup Closing
         /\ irq'.packets_incoming \in {0, irq.packets_incoming}
         /\ irq'.at \in {1, 2, 3} \/ (irq'.at = 0 /\ irq'.packets_incoming = 1) =>
              \/ irq.at \in {1, 2, 3} \/ (irq.at = 0 /\ irq.packets_incoming = 1)
              \/ main.enable_irq
<1> USE DEF StaysTo, TurnsTo, TakesIn, Closing, Pending
<1>1. CASE RxWaits
  BY <1>1 DEF RxWaits
<1>2. CASE RxWakes
  BY <1>2 DEF RxWakes
<1>3. CASE RxAsks
  BY <1>3 DEF RxAsks
<1>4. CASE RxStarts
  BY <1>4 DEF RxStarts
<1>5. CASE RxWalks
  BY <1>5 DEF RxWalks
<1>6. CASE RxMarks
  BY <1>6 DEF RxMarks
<1>7. CASE RxTakes
  BY <1>7 DEF RxTakes
<1>8. CASE RxReads
  BY <1>8 DEF RxReads
<1>9. CASE RxReadsMore
  BY <1>9 DEF RxReadsMore
<1>10. CASE RxEndsChunk
  BY <1>10 DEF RxEndsChunk
<1>11. CASE SortsTx
  BY <1>11 DEF SortsTx
<1>12. CASE SortsCrc
  BY <1>12 DEF SortsCrc
<1>13. CASE SortsFull
  BY <1>13 DEF SortsFull
<1>14. CASE SortsRx
  BY <1>14 DEF SortsRx
<1>15. CASE SortsSync
  BY <1>15 DEF SortsSync
<1>16. QED
  BY <1>1, <1>2, <1>3, <1>4, <1>5, <1>6, <1>7, <1>8, <1>9, <1>10,
     <1>11, <1>12, <1>13, <1>14, <1>15 DEF RxDoes

(* The Main machine starts and stops to listen.                             *)
LEMMA EdgeUp ==
  ASSUME RxSetsUp, ~DoneForMain'
  PROVE  /\ Up' => Up
         /\ ~Up' => ~Up \/ GivesUp
<1> USE DEF RxSetsUp, Up, SettingUp, Starting, GivesUp, From
<1>1. CASE main.at = 0 /\ main'.at \in {0, 249}
  BY <1>1
<1>2. CASE main.at \in Starting /\ main'.at \in SettingUp
  BY <1>2
<1>3. CASE main.at = 56 /\ ~DoneForMain /\ main' = main
  BY <1>3
<1>4. CASE main.at = 56 /\ DoneForMain /\ main'.at = 60
  BY <1>4
<1>5. CASE main.at \notin SettingUp /\ main'.at \notin SettingUp
  BY <1>5
<1>6. CASE GivesUp
  BY <1>6
<1>7. QED
  BY <1>1, <1>2, <1>3, <1>4, <1>5, <1>6

(* While the Main machine sets the radio up, the Irq machine has no packet. *)
LEMMA EdgeDown ==
  ASSUME LongFrames = FALSE, Down(radio'), TxGuards, Turns, RxSetsUp, RxDoes,
         main.at = 0 => radio' = RadioOff,
         ~DoneForMain', ~DoneForIrq', engine'.pending = {}
  PROVE  Down(radio)'
<1>1. ASSUME ~Up'
      PROVE  irq'.at \in {0, 1, 2, 3} \cup Closing /\ ~Follows(irq')
  <2>1. irq.at \in {0, 1, 2, 3} \cup Closing /\ ~Follows(irq)
        /\ (irq.at = 3 /\ DoneForIrq => engine.pending = {})
    <3>1. CASE ~Up
      BY <3>1 DEF Down
    <3>2. CASE GivesUp
      <4>1. main.at \in Supervised /\ ~irq.irq_dealing
        BY <3>2 DEF GivesUp, From, Stalled, Supervised, TxStates
      <4>2. irq.at = 0 /\ ~Follows(irq)
        BY <4>1 DEF Turns, TxGuards
      <4>3. QED
        BY <4>2
    <3>3. QED
      BY <1>1, <3>1, <3>2, EdgeUp
  <2>2. QED
    BY <2>1, DownFrom DEF Follows
<1>2. ASSUME ~Up', main'.at # 0
      PROVE  /\ ~main'.enable_irq
             /\ irq'.at \in {1, 2, 3} \/ (irq'.at = 0 /\ irq'.packets_incoming = 1) =>
                  Dark(radio')
  <2>1. ~GivesUp
    BY <1>2 DEF GivesUp, From
  <2>2. ~Up
    BY <1>2, <2>1, EdgeUp
  <2>3. CASE main.at = 0
    <3>1. ~main'.enable_irq
      BY <2>3, <2>1 DEF RxSetsUp, Starting, SettingUp
    <3>2. Dark(radio')
      BY <2>3 DEF RadioOff, Dark
    <3>3. QED
      BY <3>1, <3>2
  <2>4. CASE main.at # 0
    <3>1. /\ ~main.enable_irq
          /\ irq.at \in {1, 2, 3} \/ (irq.at = 0 /\ irq.packets_incoming = 1) =>
               Dark(radio') /\ engine.pending = {}
      BY <2>2, <2>4 DEF Down
    <3>2. ~main'.enable_irq
      BY <2>2, <2>1, <2>4, <3>1 DEF RxSetsUp, Up, Starting, SettingUp
    <3>3. irq.at \in {0, 1, 2, 3} \cup Closing
      BY <2>2 DEF Down
    <3>4. QED
      BY <3>1, <3>2, <3>3, DownFrom
  <2>5. QED
    BY <2>3, <2>4
<1>3. QED
  BY <1>1, <1>2 DEF Down

(* Where the Main machine has come from in a transmission.                  *)
LEMMA SupervisedFrom ==
  ASSUME MainDoes
  PROVE  /\ main'.at \in Supervised => main.at \in Supervised \/ (main.at = 90 /\ Quiet)
         /\ main'.at \in Supervised /\ main.at = 90 => main'.at = 92
         /\ main'.at = 92 => (main.at = 90 /\ Quiet) \/ (main.at = 92 /\ ~DoneForMain)
         /\ main'.at = 97 => main.at = 95 \/ (main.at = 97 /\ ~DoneForMain)
         /\ main'.at \in OnAir \cup {95} => main.at \in OnAir \cup {92, 95}
<1> USE DEF Supervised, TxStates, OnAir, From, Takes, Walks, Orders
<1>1. CASE SetsUp \/ Listens \/ Skips
  BY <1>1 DEF SetsUp, Listens, Skips, Idle
<1>2. CASE Fetches \/ ListensFirst
  BY <1>2 DEF Fetches, ListensFirst
<1>3. CASE Fills
  BY <1>3 DEF Fills
<1>4. CASE Begins \/ Sends
  BY <1>4 DEF Begins, Sends
<1>5. CASE Refills \/ GivesUp \/ Returns
  BY <1>5 DEF Refills, GivesUp, Returns
<1>6. CASE Stands
  BY <1>6 DEF Stands, MainWaiting
<1>7. QED
  BY <1>1, <1>2, <1>3, <1>4, <1>5, <1>6 DEF MainDoes

(* Where the Irq machine has come from at the end of a frame.               *)
LEMMA SentFrom ==
  ASSUME RxDoes, irq'.at \in {4, 5}
  PROVE  /\ irq'.packets_incoming = irq.packets_incoming
         /\ \/ irq.at = 3 /\ DoneForIrq /\ Pending("tx") /\ irq'.at = 4
            \/ irq.at \in {4, 5} /\ irq'.at = 5
<1> USE DEF StaysTo, TurnsTo, TakesIn
<1>1. CASE RxWaits
  BY <1>1 DEF RxWaits
<1>2. CASE RxWakes
  BY <1>2 DEF RxWakes
<1>3. CASE RxAsks
  BY <1>3 DEF RxAsks
<1>4. CASE RxStarts
  BY <1>4 DEF RxStarts
<1>5. CASE RxWalks
  BY <1>5 DEF RxWalks
<1>6. CASE RxMarks
  BY <1>6 DEF RxMarks
<1>7. CASE RxTakes
  BY <1>7 DEF RxTakes
<1>8. CASE RxReads
  BY <1>8 DEF RxReads
<1>9. CASE RxReadsMore
  BY <1>9 DEF RxReadsMore
<1>10. CASE RxEndsChunk
  BY <1>10 DEF RxEndsChunk
<1>11. CASE SortsTx
  BY <1>11 DEF SortsTx
<1>12. CASE SortsCrc
  BY <1>12 DEF SortsCrc
<1>13. CASE SortsFull
  BY <1>13 DEF SortsFull
<1>14. CASE SortsRx
  BY <1>14 DEF SortsRx
<1>15. CASE SortsSync
  BY <1>15 DEF SortsSync
<1>16. QED
  BY <1>1, <1>2, <1>3, <1>4, <1>5, <1>6, <1>7, <1>8, <1>9, <1>10,
     <1>11, <1>12, <1>13, <1>14, <1>15 DEF RxDoes

(* When it takes note of a packet, and when of the first chunk of it.       *)
LEMMA ApartFrom ==
  ASSUME RxDoes
  PROVE  /\ Apart(irq') =>
              \/ Apart(irq)
              \/ irq.at = 3 /\ DoneForIrq /\ Pending("sync") /\ irq'.at = 0
         /\ Follows(irq') =>
              \/ Follows(irq)
              \/ irq.at = 3 /\ DoneForIrq /\ main.tx_state = "RX"
         /\ irq.at = 0 /\ irq.packets_incoming = 0 =>
              irq'.at \in {0, 1} /\ irq'.packets_incoming = 0
         /\ irq.at \in {0, 1, 2, 3} /\ ~DoneForIrq /\ irq.packets_incoming = 0 =>
              irq'.at \in {0, 1, 2, 3} /\ irq'.packets_incoming = 0
<1> USE DEF StaysTo, TurnsTo, TakesIn, Apart, Follows, Closing
<1>1. CASE RxWaits
  BY <1>1 DEF RxWaits
<1>2. CASE RxWakes
  BY <1>2 DEF RxWakes
<1>3. CASE RxAsks
  BY <1>3 DEF RxAsks
<1>4. CASE RxStarts
  BY <1>4 DEF RxStarts
<1>5. CASE RxWalks
  BY <1>5 DEF RxWalks
<1>6. CASE RxMarks
  BY <1>6 DEF RxMarks
<1>7. CASE RxTakes
  BY <1>7 DEF RxTakes
<1>8. CASE RxReads
  BY <1>8 DEF RxReads
<1>9. CASE RxReadsMore
  BY <1>9 DEF RxReadsMore
<1>10. CASE RxEndsChunk
  BY <1>10 DEF RxEndsChunk
<1>11. CASE SortsTx
  BY <1>11 DEF SortsTx
<1>12. CASE SortsCrc
  BY <1>12 DEF SortsCrc
<1>13. CASE SortsFull
  BY <1>13 DEF SortsFull
<1>14. CASE SortsRx
  BY <1>14 DEF SortsRx
<1>15. CASE SortsSync
  BY <1>15 DEF SortsSync
<1>16. QED
  BY <1>1, <1>2, <1>3, <1>4, <1>5, <1>6, <1>7, <1>8, <1>9, <1>10,
     <1>11, <1>12, <1>13, <1>14, <1>15 DEF RxDoes

(* An edge starts no reception where a frame is sent.                       *)
LEMMA EdgeTxAlone ==
  ASSUME NEW r, TxAlone(irq, main, r, News(r), DoneForMain), EngineFollows(r), RxDoes,
         MainDoes, Pulses
  PROVE  TxAlone(irq', main', r, r.pending, FALSE)
<1>q. r.pending \subseteq News(r) /\ engine.pending \subseteq News(r)
  BY DEF News
<1>1. CASE irq.at = 3 /\ DoneForIrq /\ Pending("sync") /\ irq'.at = 0
  <2>1. r.pending = {}
    BY <1>1 DEF EngineFollows
  <2>2. QED
    BY <1>1, <2>1 DEF TxAlone
<1>2. CASE Apart(irq)
  <2>1. r.mode = "tx" => r.pending \subseteq TxNews
    BY <1>2 DEF TxAlone
  <2>2. "tx" \in News(r) => Silent(r) /\ News(r) \subseteq TxNews
    BY <1>2 DEF TxAlone
  <2>3. ASSUME irq'.at \in {4, 5}, Answered4(main', FALSE)
        PROVE  Silent(r) /\ r.pending = {}
    <3>1. CASE irq.at = 3 /\ DoneForIrq /\ Pending("tx")
      <4>1. r.pending = {}
        BY <3>1 DEF EngineFollows
      <4>2. "tx" \in News(r)
        BY <3>1, <1>q DEF Pending
      <4>3. QED
        BY <4>1, <4>2, <2>2
    <3>2. CASE irq.at \in {4, 5}
      <4>1. main.at # 92
        BY <3>2 DEF Pulses, TxStates
      <4>2. Answered4(main, DoneForMain)
        BY <2>3, <4>1, SupervisedFrom DEF Answered4
      <4>3. QED
        BY <1>2, <3>2, <4>2 DEF TxAlone
    <3>3. QED
      BY <2>3, <3>1, <3>2, SentFrom
  <2>4. QED
    BY <2>1, <2>2, <2>3, <1>q DEF TxAlone
<1>3. CASE ~Apart(irq')
  BY <1>3 DEF TxAlone
<1>4. QED
  BY <1>1, <1>2, <1>3, ApartFrom

(* A transmission begins when nothing is received, and nothing is in it.    *)
LEMMA EdgeTxGuards ==
  ASSUME TxGuards, Turns, TxStateTells, MainControl, IrqControl, EngineControl, EngineShape,
         RxDoes, MainDoes, EngineStep, main.reset_n, ~DoneForIrq'
  PROVE  TxGuards'
<1>d. DoneForMain => ~DoneForIrq
  BY DEF DoneForMain, DoneForIrq, DoneFor
<1>1. ASSUME main.at = 90, Quiet
      PROVE  /\ irq.at = 0 /\ irq.packets_incoming = 0 /\ ~irq.start
             /\ engine.at # 52
  BY <1>1 DEF Quiet, Turns, IrqControl, EngineControl, IrqWaiting
<1>2. ASSUME main'.at \in Supervised
      PROVE  ~Follows(irq')
  <2>1. CASE main.at = 90 /\ Quiet
    BY <2>1, <1>1, ApartFrom DEF Follows
  <2>2. CASE main.at \in Supervised
    <3>1. ~Follows(irq)
      BY <2>2 DEF TxGuards
    <3>2. ~(irq.at = 3 /\ DoneForIrq /\ main.tx_state = "RX")
      <4>1. main.at # 92 => main.tx_state # "RX"
        BY <2>2 DEF TxStateTells, Supervised
      <4>2. main.at = 92 => ~DoneForIrq
        BY <1>d DEF TxGuards
      <4>3. QED
        BY <4>1, <4>2
    <3>3. QED
      BY <3>1, <3>2, ApartFrom
  <2>3. QED
    BY <1>2, <2>1, <2>2, SupervisedFrom
<1>3. ASSUME main'.at = 92
      PROVE  /\ irq'.at \in {0, 1, 2, 3} /\ irq'.packets_incoming = 0
             /\ ~(engine'.at = 52 /\ engine'.owner = "int")
  <2>1. CASE main.at = 90 /\ Quiet
    <3>1. irq'.at \in {0, 1} /\ irq'.packets_incoming = 0
      BY <2>1, <1>1, ApartFrom
    <3>2. ~(engine'.at = 52 /\ engine'.owner = "int")
      <4>1. ~irq.start /\ engine.at # 52
        BY <2>1, <1>1
      <4>2. EngineClears \/ EngineAccepts \/ EngineRuns
        BY EngineSteps
      <4>3. QED
        BY <4>1, <4>2 DEF EngineClears, EngineAccepts, EngineRuns
    <3>3. QED
      BY <3>1, <3>2
  <2>2. CASE main.at = 92 /\ ~DoneForMain
    <3>1. irq.at \in {0, 1, 2, 3} /\ irq.packets_incoming = 0 /\ ~DoneForIrq
          /\ ~(engine.at = 52 /\ engine.owner = "int")
      BY <2>2 DEF TxGuards
    <3>2. irq'.at \in {0, 1, 2, 3} /\ irq'.packets_incoming = 0
      BY <3>1, ApartFrom
    <3>3. main.start
      BY <2>2 DEF MainControl, MainWaiting
    <3>4. ~(engine'.at = 52 /\ engine'.owner = "int")
      <4>1. CASE Clear
        BY <4>1 DEF Clear, EngineShape
      <4>2. CASE Choose
        <5>1. Accept("main", main.op)
          BY <4>2, <3>3 DEF Choose
        <5>2. QED
          BY <5>1 DEF Accept, EngineShape
      <4>3. CASE Run
        BY <4>3, <3>1 DEF Run
      <4>4. QED
        BY <4>1, <4>2, <4>3 DEF EngineStep
    <3>5. QED
      BY <3>2, <3>4
  <2>3. QED
    BY <1>3, <2>1, <2>2, SupervisedFrom
<1>4. QED
  BY <1>2, <1>3 DEF TxGuards

(* Where the operation comes from that the Irq machine waits for.           *)
ReadOp(i, n) ==
  IF i.almost_full THEN HeadChunk
  ELSE IF i.packets_incoming = 1 THEN Op("head", 0)
  ELSE Op("rest", (n - i.Data_Recv_Pos + 1) % 256)

(* The operation of each wait is the one asked for on the way into it, ...  *)
LEMMA AskedFrom ==
  ASSUME RxDoes
  PROVE  /\ irq'.at \in {2, 3} =>
              irq'.op.name = "int_status" \/ (irq.at \in {2, 3} /\ irq'.op = irq.op)
         /\ irq'.at \in {8, 9} =>
              irq'.op.name = "rssi" \/ (irq.at \in {8, 9} /\ irq'.op = irq.op)
         /\ irq'.at \in {11, 12} =>
              irq'.op.name = "sync" \/ (irq.at \in {11, 12} /\ irq'.op = irq.op)
         /\ irq'.at \in {17, 18} =>
              irq'.op.name = "fifo_reset" \/ (irq.at \in {17, 18} /\ irq'.op = irq.op)
         /\ irq'.at = 21 =>
              irq'.op.name = "start_rx" \/ (irq.at = 21 /\ irq'.op = irq.op)
         /\ irq'.at \in {23, 24} =>
              irq'.op.name = "state" \/ (irq.at \in {23, 24} /\ irq'.op = irq.op)
         /\ irq'.at \in {28, 29} =>
              irq'.op = Op("rest", RX_THRESHOLD) \/ (irq.at \in {28, 29} /\ irq'.op = irq.op)
<1>o. \A name, len : Op(name, len).name = name
  BY DEF Op
<1> USE DEF StaysTo, TurnsTo, TakesIn, SameOp, Asking
<1>1. CASE RxWaits
  BY <1>1, <1>o DEF RxWaits
<1>2. CASE RxWakes
  BY <1>2, <1>o DEF RxWakes
<1>3. CASE RxAsks
  BY <1>3, <1>o DEF RxAsks
<1>4. CASE RxStarts
  BY <1>4, <1>o DEF RxStarts
<1>5. CASE RxWalks
  BY <1>5, <1>o DEF RxWalks
<1>6. CASE RxMarks
  BY <1>6, <1>o DEF RxMarks
<1>7. CASE RxTakes
  BY <1>7, <1>o DEF RxTakes
<1>8. CASE RxReads
  BY <1>8, <1>o DEF RxReads
<1>9. CASE RxReadsMore
  BY <1>9, <1>o DEF RxReadsMore
<1>10. CASE RxEndsChunk
  BY <1>10, <1>o DEF RxEndsChunk
<1>11. CASE SortsTx
  BY <1>11, <1>o DEF SortsTx
<1>12. CASE SortsCrc
  BY <1>12, <1>o DEF SortsCrc
<1>13. CASE SortsFull
  BY <1>13, <1>o DEF SortsFull
<1>14. CASE SortsRx
  BY <1>14, <1>o DEF SortsRx
<1>15. CASE SortsSync
  BY <1>15, <1>o DEF SortsSync
<1>16. QED
  BY <1>1, <1>2, <1>3, <1>4, <1>5, <1>6, <1>7, <1>8, <1>9, <1>10,
     <1>11, <1>12, <1>13, <1>14, <1>15 DEF RxDoes

(* ... the read of a packet with the length and the place of that moment,   *)
(* ...                                                                      *)
LEMMA ReadFrom ==
  ASSUME RxDoes, irq'.at \in {14, 15}
  PROVE  /\ irq'.almost_full = irq.almost_full
         /\ irq'.packets_incoming = irq.packets_incoming
         /\ ~irq.almost_full => irq'.Data_Recv_Pos = irq.Data_Recv_Pos
         /\ \/ irq.at = 13 /\ irq'.op = ReadOp(irq, engine.recv_pkt_len)
            \/ irq.at \in {14, 15} /\ irq'.op = irq.op
<1> USE DEF StaysTo, TurnsTo, TakesIn, SameOp, Asking, ReadOp
<1>1. CASE RxWaits
  BY <1>1 DEF RxWaits
<1>2. CASE RxWakes
  BY <1>2 DEF RxWakes
<1>3. CASE RxAsks
  BY <1>3 DEF RxAsks
<1>4. CASE RxStarts
  BY <1>4 DEF RxStarts
<1>5. CASE RxWalks
  BY <1>5 DEF RxWalks
<1>6. CASE RxMarks
  BY <1>6 DEF RxMarks
<1>7. CASE RxTakes
  BY <1>7 DEF RxTakes
<1>8. CASE RxReads
  BY <1>8 DEF RxReads
<1>9. CASE RxReadsMore
  BY <1>9 DEF RxReadsMore
<1>10. CASE RxEndsChunk
  BY <1>10 DEF RxEndsChunk
<1>11. CASE SortsTx
  BY <1>11 DEF SortsTx
<1>12. CASE SortsCrc
  BY <1>12 DEF SortsCrc
<1>13. CASE SortsFull
  BY <1>13 DEF SortsFull
<1>14. CASE SortsRx
  BY <1>14 DEF SortsRx
<1>15. CASE SortsSync
  BY <1>15 DEF SortsSync
<1>16. QED
  BY <1>1, <1>2, <1>3, <1>4, <1>5, <1>6, <1>7, <1>8, <1>9, <1>10,
     <1>11, <1>12, <1>13, <1>14, <1>15 DEF RxDoes

(* ... and start goes up with no other reads than these.                    *)
LEMMA StartFrom ==
  ASSUME RxDoes, irq'.start
  PROVE  \/ /\ irq.start /\ irq'.op = irq.op
            /\ DoneForIrq =>
                 engine.spi_Using \/ irq.at \in {0, 1, 2, 4, 5, 6, 7, 8, 11, 14, 17, 19,
                                                 23, 25, 26, 28, 30}
         \/ irq'.op.name \notin {"head", "rest"}
         \/ irq.at = 13 /\ irq'.op = ReadOp(irq, engine.recv_pkt_len)
         \/ irq.at = 27 /\ irq'.op = Op("rest", RX_THRESHOLD)
<1>o. \A name, len : Op(name, len).name = name
  BY DEF Op
<1> USE DEF StaysTo, TakesIn, SameOp, Asking, ReadOp
<1>1. CASE RxWaits
  BY <1>1, <1>o DEF RxWaits
<1>2. CASE RxWakes
  BY <1>2, <1>o DEF RxWakes
<1>3. CASE RxAsks
  BY <1>3, <1>o DEF RxAsks
<1>4. CASE RxStarts
  BY <1>4, <1>o DEF RxStarts
<1>5. CASE RxWalks
  BY <1>5, <1>o DEF RxWalks
<1>6. CASE RxMarks
  BY <1>6, <1>o DEF RxMarks
<1>7. CASE RxTakes
  BY <1>7, <1>o DEF RxTakes
<1>8. CASE RxReads
  BY <1>8, <1>o DEF RxReads
<1>9. CASE RxReadsMore
  BY <1>9, <1>o DEF RxReadsMore
<1>10. CASE RxEndsChunk
  BY <1>10, <1>o DEF RxEndsChunk
<1>11. CASE SortsTx
  BY <1>11, <1>o DEF SortsTx
<1>12. CASE SortsCrc
  BY <1>12, <1>o DEF SortsCrc
<1>13. CASE SortsFull
  BY <1>13, <1>o DEF SortsFull
<1>14. CASE SortsRx
  BY <1>14, <1>o DEF SortsRx
<1>15. CASE SortsSync
  BY <1>15, <1>o DEF SortsSync
<1>16. QED
  BY <1>1, <1>2, <1>3, <1>4, <1>5, <1>6, <1>7, <1>8, <1>9, <1>10,
     <1>11, <1>12, <1>13, <1>14, <1>15 DEF RxDoes

(* An edge keeps what the Irq machine has asked for.                        *)
LEMMA EdgeAsked ==
  ASSUME IrqAsked, Registers(irq), RxDoes,
         irq.packets_incoming # 0 => engine'.recv_pkt_len = engine.recv_pkt_len
  PROVE  IrqAsked'
<1>1. ASSUME irq'.at \in {14, 15}
      PROVE  irq'.op = ReadOp(irq', engine'.recv_pkt_len)
  <2>1. /\ irq'.almost_full = irq.almost_full
        /\ irq'.packets_incoming = irq.packets_incoming
        /\ ~irq.almost_full => irq'.Data_Recv_Pos = irq.Data_Recv_Pos
        /\ \/ irq.at = 13 /\ irq'.op = ReadOp(irq, engine.recv_pkt_len)
           \/ irq.at \in {14, 15} /\ irq'.op = irq.op
    BY <1>1, ReadFrom
  <2>2. irq'.op = ReadOp(irq, engine.recv_pkt_len)
    BY <2>1 DEF IrqAsked, ReadOp
  <2>3. irq.packets_incoming # 0
    BY <2>1 DEF Registers, Within
  <2>4. ReadOp(irq', engine'.recv_pkt_len) = ReadOp(irq, engine.recv_pkt_len)
    BY <2>1, <2>3 DEF ReadOp
  <2>5. QED
    BY <2>2, <2>4
<1>2. /\ irq'.at \in {2, 3} => irq'.op.name = "int_status"
      /\ irq'.at \in {8, 9} => irq'.op.name = "rssi"
      /\ irq'.at \in {11, 12} => irq'.op.name = "sync"
      /\ irq'.at \in {17, 18} => irq'.op.name = "fifo_reset"
      /\ irq'.at = 21 => irq'.op.name = "start_rx"
      /\ irq'.at \in {23, 24} => irq'.op.name = "state"
      /\ irq'.at \in {28, 29} => irq'.op = Op("rest", RX_THRESHOLD)
  BY AskedFrom DEF IrqAsked
<1>3. QED
  BY <1>1, <1>2 DEF IrqAsked, ReadOp

(* What states 13 and 27 ask for is in the FIFO of the radio: the rest of a *)
(* packet is what the length says, and is not empty as long as no packet    *)
(* ends with a chunk.                                                       *)
LEMMA ReadIsThere ==
  ASSUME NEW r, RxNumbers(r), Registers(irq), irq.at = 13,
         Inside(irq, r, News(r), DoneForIrq),
         Told(irq, r, DoneForIrq, engine.recv_pkt_len),
         \A l \in PacketLengths, k \in Nat : l + 2 # k * RX_THRESHOLD,
         NEW op, op = ReadOp(irq, engine.recv_pkt_len)
  PROVE  /\ op.len \in Nat
         /\ op.len # 0 => (IF op.name = "head" THEN op.len + 1 ELSE op.len) <= r.rxfifo
         /\ op.len = 0 => op.name = "head" /\ r.len + 1 <= r.rxfifo /\ Silent(r)
<1>n. r.rxfifo \in Nat /\ r.air \in Nat /\ r.len \in 0 .. 254
  BY DEF RxNumbers
<1>t. RX_THRESHOLD \in Nat /\ RX_THRESHOLD > 2
  BY RxConstants
<1>a. Asked(irq, DoneForIrq)
  BY DEF Asked
<1>o. \A name, len : Op(name, len).name = name /\ Op(name, len).len = len
  BY DEF Op
<1>1. CASE irq.almost_full
  <2>1. op.name = "head" /\ op.len = RX_THRESHOLD - 2
    BY <1>1, <1>o DEF ReadOp, HeadChunk
  <2>2. r.rxfifo >= RX_THRESHOLD
    BY <1>1, <1>a DEF Inside, ChunkWaits
  <2>3. QED
    BY <2>1, <2>2, <1>n, <1>t
<1>2. CASE ~irq.almost_full /\ irq.packets_incoming = 1
  <2>1. op.name = "head" /\ op.len = 0
    BY <1>2, <1>o DEF ReadOp
  <2>2. Packet(r, 0) /\ ~r.receiving
    BY <1>2, <1>a DEF Inside
  <2>3. r.rxfifo = r.len + 1 /\ Silent(r)
    BY <2>2, <1>n DEF Packet, Silent
  <2>4. QED
    BY <2>1, <2>3, <1>n
<1>3. CASE ~irq.almost_full /\ Follows(irq)
  <2> DEFINE pos == irq.Data_Recv_Pos
             n == engine.recv_pkt_len
  <2>1. op.name = "rest" /\ op.len = (n - pos + 1) % 256
    BY <1>3, <1>o DEF ReadOp, Follows
  <2>2. n = r.len
    BY <1>3, <1>a DEF Told
  <2>3. Amid(r, pos, News(r)) /\ ~r.receiving
    BY <1>3, <1>a DEF Inside
  <2>4. /\ r.rxfifo + pos = r.len + 1 /\ pos \in 1 .. 255
        /\ \E k \in Nat : pos + 1 = k * RX_THRESHOLD
    BY <2>3, <1>n DEF Amid, Grid, Packet
  <2> HIDE DEF pos, n
  <2>5. n - pos + 1 = r.rxfifo /\ r.rxfifo \in 0 .. 254
    <3>1. ASSUME NEW f \in Nat, NEW l \in 0 .. 254, NEW p \in 1 .. 255, f + p = l + 1
          PROVE  l - p + 1 = f /\ f \in 0 .. 254
      BY <3>1
    <3>2. r.rxfifo + pos = r.len + 1 /\ pos \in 1 .. 255
      BY <2>4
    <3>3. r.len - pos + 1 = r.rxfifo /\ r.rxfifo \in 0 .. 254
      BY <3>1, <3>2, <1>n
    <3>4. QED
      BY <3>3, <2>2
  <2>6. op.len = r.rxfifo
    BY <2>1, <2>5
  <2>7. r.rxfifo # 0
    <3>1. SUFFICES ASSUME r.rxfifo = 0
                   PROVE  FALSE
      OBVIOUS
    <3>2. pos = r.len + 1
      BY <3>1, <2>4, <1>n
    <3>3. PICK k \in Nat : r.len + 2 = k * RX_THRESHOLD
      BY <3>2, <2>4, <1>n
    <3>4. r.len # 0
      <4>1. k = 0 => k * RX_THRESHOLD = 0
        BY <1>t
      <4>2. k # 0 => k * RX_THRESHOLD >= RX_THRESHOLD
        <5>1. ASSUME NEW j \in Nat, k = j + 1
              PROVE  k * RX_THRESHOLD >= RX_THRESHOLD
          <6>1. k * RX_THRESHOLD = j * RX_THRESHOLD + RX_THRESHOLD
            BY <5>1, <1>t
          <6>2. j * RX_THRESHOLD \in Nat
            BY <1>t
          <6>3. QED
            BY <6>1, <6>2, <1>t
        <5>2. QED
          BY <5>1
      <4>3. QED
        BY <4>1, <4>2, <3>3, <1>n, <1>t
    <3>5. r.len \in PacketLengths
      BY <3>4 DEF RxNumbers
    <3>6. QED
      BY <3>3, <3>5
  <2>8. QED
    BY <2>1, <2>5, <2>6, <2>7, <1>n
<1>4. irq.packets_incoming # 0
  BY DEF Registers, Within
<1>5. QED
  BY <1>1, <1>2, <1>3, <1>4 DEF Follows

(* The engine answers nobody at the end of an edge.                         *)
LEMMA EdgeNotDone ==
  ASSUME EngineShape, EngineControl, EngineStep
  PROVE  ~DoneForIrq' /\ ~DoneForMain'
<1> USE DEF DoneForIrq, DoneForMain, DoneFor
<1>1. EngineControl' /\ (main.reset_n => EngineClears \/ EngineAccepts \/ EngineRuns)
      /\ (~main.reset_n => EngineHeld)
  BY EngineSteps
<1>2. CASE ~main.reset_n
  BY <1>1, <1>2 DEF EngineHeld
<1>3. CASE EngineClears
  BY <1>3 DEF EngineClears
<1>4. CASE EngineAccepts
  BY <1>4 DEF EngineAccepts
<1>5. CASE EngineRuns
  BY <1>5 DEF EngineRuns, EngineControl
<1>6. QED
  BY <1>1, <1>2, <1>3, <1>4, <1>5

(* What has been asked for is still there after an edge.                    *)
LEMMA EdgeBounds ==
  ASSUME LongFrames = FALSE,
         \A l \in PacketLengths, k \in Nat : l + 2 # k * RX_THRESHOLD,
         RxNumbers(radio'), Registers(irq), Bounds(radio'), Down(radio'),
         EngineFollows(radio'), Inside(irq, radio', News(radio'), DoneForIrq),
         Told(irq, radio', DoneForIrq, engine.recv_pkt_len), IrqAsked,
         Turns, Pulses, IrqControl, MainControl, EngineControl, EngineShape, MainOps,
         MainServed, IrqServed,
         RxDoes, RxSetsUp, MainDoes, EngineStep, main.reset_n
  PROVE  Bounds(radio)'
<1>d. ~DoneForMain' /\ ~DoneForIrq'
  BY EdgeNotDone
<1>o. \A name, len : Op(name, len).name = name /\ Op(name, len).len = len
  BY DEF Op
<1>m. main.start => main.op.name \notin {"head", "rest"}
  BY DEF MainOps, MainControl, MainWaiting
<1>u. ASSUME irq.at \notin {0, 5}, Up, main.at # 97
      PROVE  Up' /\ main'.at # 97
  <2>1. ~GivesUp
    <3>1. GivesUp => main.at \in Supervised /\ ~irq.irq_dealing
      BY DEF GivesUp, From, Stalled, Supervised, TxStates
    <3>2. QED
      BY <3>1, <1>u DEF Turns
  <2>2. main'.at # 97
    <3>1. main.at # 95
      BY <1>u DEF Pulses
    <3>2. QED
      BY <3>1, <1>u, SupervisedFrom
  <2>3. Up'
    BY <1>d, <1>u, <2>1, EdgeUp
  <2>4. QED
    BY <2>2, <2>3
<1>s. /\ irq.start => irq.at \notin {0, 5}
      /\ engine.at = 52 /\ engine.owner = "int" => irq.at \notin {0, 5}
  BY DEF IrqControl, IrqServed, EngineBusy, IrqWaiting
<1>k. ASSUME NEW op, irq.at \notin {0, 5}, Bounded(radio', op), op.name \in {"head", "rest"}
      PROVE  /\ Up' /\ main'.at # 97 /\ op.len \in Nat
             /\ op.len # 0 => (IF op.name = "head" THEN op.len + 1 ELSE op.len) <= radio'.rxfifo
             /\ op.len = 0 => /\ op.name = "head" /\ radio'.len + 1 <= radio'.rxfifo
                              /\ Silent(radio')
  BY <1>k, <1>u DEF Bounded
<1>1. ASSUME irq'.start, irq'.op.name \in {"head", "rest"}
      PROVE  Bounded(radio, irq.op)'
  <2>1. CASE /\ irq.start /\ irq'.op = irq.op
             /\ DoneForIrq =>
                  engine.spi_Using \/ irq.at \in {0, 1, 2, 4, 5, 6, 7, 8, 11, 14, 17, 19,
                                                  23, 25, 26, 28, 30}
    <3>1. ~DoneForIrq
      <4>1. SUFFICES ASSUME DoneForIrq
                     PROVE  FALSE
        OBVIOUS
      <4>2. ~engine.spi_Using
        BY <4>1 DEF DoneForIrq, DoneFor, EngineControl
      <4>3. irq.at \in {2, 8, 11, 14, 17, 23, 28}
        BY <2>1, <4>1, <4>2 DEF IrqControl, IrqWaiting
      <4>4. irq.at \notin {14, 28}
        BY <4>1 DEF EngineFollows
      <4>5. QED
        BY <1>1, <2>1, <4>3, <4>4 DEF IrqAsked
    <3>2. Bounded(radio', irq.op)
      BY <2>1, <3>1 DEF Bounds
    <3>3. QED
      BY <1>1, <2>1, <3>2, <1>s, <1>k DEF Bounded
  <2>2. CASE irq.at = 13 /\ irq'.op = ReadOp(irq, engine.recv_pkt_len)
    <3>1. /\ irq'.op.len \in Nat
          /\ irq'.op.len # 0 =>
               (IF irq'.op.name = "head" THEN irq'.op.len + 1 ELSE irq'.op.len) <= radio'.rxfifo
          /\ irq'.op.len = 0 => /\ irq'.op.name = "head" /\ radio'.len + 1 <= radio'.rxfifo
                                /\ Silent(radio')
      BY <2>2, ReadIsThere
    <3>2. Up /\ main.at # 97
      BY <2>2 DEF Down, Closing, Pulses
    <3>3. Up' /\ main'.at # 97
      BY <2>2, <3>2, <1>u
    <3>4. QED
      BY <3>1, <3>3 DEF Bounded
  <2>3. CASE irq.at = 27 /\ irq'.op = Op("rest", RX_THRESHOLD)
    <3>1. irq'.op.name = "rest" /\ irq'.op.len = RX_THRESHOLD
      BY <2>3, <1>o
    <3>2. Up /\ main.at # 97
      BY <2>3 DEF Down, Closing, Pulses
    <3>3. Up' /\ main'.at # 97
      BY <2>3, <3>2, <1>u
    <3>4. radio'.rxfifo >= RX_THRESHOLD
      BY <2>3 DEF Inside, ChunkWaits
    <3>5. RX_THRESHOLD \in Nat /\ RX_THRESHOLD # 0
      BY RxConstants
    <3>6. radio'.rxfifo \in Nat
      BY DEF RxNumbers
    <3>7. irq'.op.len \in Nat /\ irq'.op.len # 0 /\ irq'.op.len <= radio'.rxfifo
      BY <3>1, <3>4, <3>5, <3>6
    <3>8. QED
      BY <3>1, <3>3, <3>7 DEF Bounded
  <2>4. QED
    BY <1>1, <2>1, <2>2, <2>3, StartFrom
<1>2. ASSUME engine'.at = 52, engine'.op.name \in {"head", "rest"}
      PROVE  Bounded(radio, engine.op)'
  <2>1. CASE EngineAccepts
    <3>1. irq.start /\ engine'.op = irq.op /\ ~DoneForIrq
      BY <2>1, <1>2, <1>m, NotServedIsNotDone DEF EngineAccepts
    <3>2. Bounded(radio', irq.op)
      BY <3>1 DEF Bounds
    <3>3. QED
      BY <1>2, <3>1, <3>2, <1>s, <1>k DEF Bounded
  <2>2. CASE EngineRuns
    <3>1. engine.at = 52 /\ engine'.op = engine.op
      BY <2>2, <1>2 DEF EngineRuns
    <3>2. engine.owner # "main"
      BY <1>2, <3>1, <1>m DEF MainServed, EngineBusy
    <3>3. engine.owner = "int"
      BY <3>1, <3>2 DEF EngineControl
    <3>4. Bounded(radio', engine.op)
      BY <3>1 DEF Bounds
    <3>5. QED
      BY <1>2, <3>1, <3>3, <3>4, <1>s, <1>k DEF Bounded
  <2>3. CASE EngineClears
    BY <1>2, <2>3 DEF EngineClears
  <2>4. QED
    BY <2>1, <2>2, <2>3, EngineSteps
<1>3. QED
  BY <1>1, <1>2 DEF Bounds, Bounded

(* The last part of a packet is never empty: it needs two bytes over a      *)
(* whole number of chunks to be so.                                         *)
NoEmptyPart == \A l \in PacketLengths, k \in Nat : l + 2 # k * RX_THRESHOLD

(* An edge at which nothing is held in reset keeps all that is known of a   *)
(* reception.                                                               *)
LEMMA EdgeRx ==
  ASSUME LongFrames = FALSE, TRUE \notin EmptyCommands, NoEmptyPart,
         ServedInv, TxInv, RxInv(radio), Edge, main.reset_n
  PROVE  RxInv(radio)'
<1> USE DEF ServedInv, TxInv
<1>e. MainStep /\ EngineStep /\ IrqStep
  BY DEF Edge
<1>o. /\ RxInv(radio')
      /\ main.at = 0 => radio' = RadioOff
      /\ main.at # 0 /\ engine.at = 0 => radio' = radio
  BY <1>e, RxOutside
<1>i. /\ RxNumbers(radio') /\ Registers(irq)
      /\ Inside(irq, radio', News(radio'), DoneForIrq)
      /\ Told(irq, radio', DoneForIrq, engine.recv_pkt_len)
      /\ Up => Outset(irq, radio', News(radio'), DoneForIrq)
      /\ Down(radio')
      /\ TxAlone(irq, main, radio', News(radio'), DoneForMain)
      /\ TxGuards /\ IrqAsked /\ EngineFollows(radio') /\ Bounds(radio') /\ Commanded
  BY <1>o DEF RxInv
<1>x. RxDoes
  BY <1>e, RxEdges DEF RxInv, Registers, Within
<1>m. RxSetsUp /\ Commanded'
  BY <1>e, <1>i, RxMain
<1>d. MainDoes
  BY <1>e, MainEdges
<1>n. engine'.pending = {} /\ ~DoneForMain' /\ ~DoneForIrq'
  BY <1>e, EdgeEngine, EdgeNotDone
<1>f. DoneForMain' = FALSE /\ DoneForIrq' = FALSE
  BY <1>n DEF DoneForMain, DoneForIrq, DoneFor
<1>w. News(radio)' = radio'.pending
  BY <1>n DEF News
<1>1. Registers(irq')
  BY <1>i, <1>x, EdgeRegisters
<1>2. Inside(irq', radio', radio'.pending, FALSE)
  BY <1>i, <1>x, EdgeInside
<1>3. Told(irq', radio', FALSE, engine'.recv_pkt_len)
  BY <1>i, <1>x, <1>e, LengthKept, EdgeTold
<1>4. Up' => Outset(irq', radio', radio'.pending, FALSE)
  BY <1>i, <1>x, <1>m, <1>n, EdgeUp, EdgeOutset
<1>5. Down(radio)'
  BY <1>i, <1>x, <1>m, <1>n, <1>o, EdgeDown
<1>6. TxAlone(irq', main', radio', radio'.pending, FALSE)
  BY <1>i, <1>x, <1>d, EdgeTxAlone
<1>7. TxGuards'
  BY <1>i, <1>x, <1>d, <1>e, <1>n, EdgeTxGuards
<1>8. IrqAsked'
  BY <1>i, <1>x, <1>e, LengthKept, EdgeAsked
<1>9. EngineFollows(radio)'
  BY <1>n DEF EngineFollows
<1>10. Bounds(radio)'
  BY <1>i, <1>x, <1>m, <1>d, <1>e, EdgeBounds DEF NoEmptyPart
<1>11. QED
  BY <1>i, <1>m, <1>f, <1>w, <1>1, <1>2, <1>3, <1>4, <1>5, <1>6, <1>7, <1>8, <1>9, <1>10
     DEF RxInv

(* Where the Irq machine and the engine are reset and the Main machine is   *)
(* at the beginning, there is nothing to know of a reception.               *)
LEMMA NothingYet ==
  ASSUME RxNumbers(radio'), irq' = IrqReset, engine'.at = 0, engine'.pending = {},
         ~engine'.spi_op_done, main'.at \in SettingUp,
         main'.at # 0 => ~main'.enable_irq
  PROVE  RxInv(radio)'
<1>1. /\ irq'.at = 0 /\ ~irq'.start /\ irq'.packets_incoming = 0
      /\ irq'.Data_Recv_Pos = 0 /\ irq'.almost_full = FALSE
  BY DEF IrqReset, IrqInit
<1>2. ~DoneForMain' /\ ~DoneForIrq'
  BY DEF DoneForMain, DoneForIrq, DoneFor
<1>3. Registers(irq')
  <2>1. Within(0, FALSE, 0, 0)
    BY DEF Within, Opening, Closing
  <2>2. QED
    BY <1>1, <2>1 DEF Registers
<1>4. ~Follows(irq') /\ ~Apart(irq')
  BY <1>1 DEF Follows, Apart
<1>5. /\ ~(irq'.at \in Opening) /\ ~Asked(irq, DoneForIrq)'
      /\ ~HasMore(irq, DoneForIrq)' /\ ~AskedMore(irq, DoneForIrq)'
  BY <1>1 DEF Opening, Asked, HasMore, AskedMore
<1>6. Inside(irq, radio, News(radio), DoneForIrq)'
  BY <1>1, <1>4, <1>5 DEF Inside
<1>7. Told(irq, radio, DoneForIrq, engine.recv_pkt_len)'
  BY <1>4, <1>5 DEF Told
<1>8. ~Up'
  BY <1>2 DEF Up, SettingUp, Starting
<1>9. Down(radio)'
  BY <1>1, <1>4 DEF Down
<1>10. TxAlone(irq, main, radio, News(radio), DoneForMain)'
  BY <1>4 DEF TxAlone
<1>11. TxGuards' /\ Commanded'
  BY <1>4 DEF TxGuards, Commanded, SettingUp, Starting
<1>12. IrqAsked' /\ EngineFollows(radio)' /\ Bounds(radio)'
  BY <1>1 DEF IrqAsked, EngineFollows, Bounds
<1>13. QED
  BY <1>3, <1>6, <1>7, <1>8, <1>9, <1>10, <1>11, <1>12 DEF RxInv

(* An edge at which reset_n is low.                                         *)
LEMMA HeldRx ==
  ASSUME TRUE \notin EmptyCommands, ServedInv, TxInv, RxInv(radio), Edge, ~main.reset_n
  PROVE  RxInv(radio)'
<1> USE DEF ServedInv, TxInv
<1>e. MainStep /\ EngineStep /\ IrqStep
  BY DEF Edge
<1>1. RxInv(radio')
  BY <1>e, RxOutside
<1>2. irq' = IrqReset /\ HeldInReset
  BY <1>e DEF IrqStep, EngineStep
<1>3. engine'.at = 0 /\ engine'.pending = {} /\ ~engine'.spi_op_done
  BY <1>2 DEF HeldInReset, EngineReset, EngineInit
<1>4. RxSetsUp
  BY <1>e, RxMain DEF RxInv
<1>5. main.at \in {0, 249}
  BY DEF MainControl
<1>6. main'.at \in SettingUp /\ (main'.at # 0 => ~main'.enable_irq)
  <2>1. main.at = 249 => ~main.enable_irq
    BY DEF RxInv, Down, Up, Starting
  <2>2. ~GivesUp
    BY <1>5 DEF GivesUp, From
  <2>3. QED
    BY <1>4, <1>5, <2>1, <2>2 DEF RxSetsUp, SettingUp, Starting
<1>7. QED
  BY <1>1, <1>2, <1>3, <1>6, NothingYet DEF RxInv

(* All of them are reset.                                                   *)
LEMMA ResetRx ==
  ASSUME RxInv(radio), NEW leftover, ResetAll(leftover)
  PROVE  RxInv(radio)'
<1>1. /\ irq' = IrqReset /\ radio' = radio
      /\ engine'.at = 0 /\ engine'.pending = {} /\ ~engine'.spi_op_done
  BY DEF ResetAll, EngineReset, EngineInit
<1>2. main'.at = 0
  BY DEF ResetAll, MainInit
<1>3. QED
  BY <1>1, <1>2, NothingYet DEF RxInv, SettingUp

(* Nothing is known at power-up.                                            *)
LEMMA InitRx ==
  ASSUME WirelessInit
  PROVE  RxInv(radio)
<1>1. /\ irq.at = 0 /\ ~irq.start /\ irq.packets_incoming = 0
      /\ irq.Data_Recv_Pos = 0 /\ irq.almost_full = FALSE
  BY DEF WirelessInit, IrqInit
<1>2. /\ main.at = 255 /\ ~main.enable_irq
      /\ engine.at = 0 /\ engine.pending = {} /\ ~DoneForMain /\ ~DoneForIrq
  BY DEF WirelessInit, MainInit, EngineInit, DoneForMain, DoneForIrq, DoneFor
<1>r. /\ radio.receiving = FALSE /\ radio.air = 0
      /\ radio.len = 0 /\ radio.rxfifo = 0
  BY DEF WirelessInit, RadioOff
<1>n. RxNumbers(radio)
  <2>1. radio.rxfifo \in Nat /\ radio.air \in Nat /\ radio.len \in 0 .. 254
    BY <1>r
  <2>2. radio.receiving \in BOOLEAN
    BY <1>r
  <2>3. QED
    BY <1>r, <2>1, <2>2 DEF RxNumbers
<1>3. Registers(irq)
  <2>1. Within(0, FALSE, 0, 0)
    BY DEF Within, Opening, Closing
  <2>2. QED
    BY <1>1, <2>1 DEF Registers
<1>4. ~Follows(irq) /\ ~Apart(irq)
  BY <1>1 DEF Follows, Apart
<1>5. /\ ~(irq.at \in Opening) /\ ~Asked(irq, DoneForIrq)
      /\ ~HasMore(irq, DoneForIrq) /\ ~AskedMore(irq, DoneForIrq)
  BY <1>1 DEF Opening, Asked, HasMore, AskedMore
<1>6. Inside(irq, radio, News(radio), DoneForIrq)
  BY <1>1, <1>4, <1>5 DEF Inside
<1>7. Told(irq, radio, DoneForIrq, engine.recv_pkt_len)
  BY <1>4, <1>5 DEF Told
<1>8. ~Up
  BY <1>2 DEF Up, Starting
<1>9. Down(radio)
  BY <1>1, <1>2, <1>4 DEF Down
<1>10. TxAlone(irq, main, radio, News(radio), DoneForMain)
  BY <1>4 DEF TxAlone
<1>11. TxGuards /\ Commanded
  BY <1>2, <1>4 DEF TxGuards, Commanded
<1>12. IrqAsked /\ EngineFollows(radio) /\ Bounds(radio)
  BY <1>1, <1>2 DEF IrqAsked, EngineFollows, Bounds
<1>13. QED
  BY <1>n, <1>3, <1>6, <1>7, <1>8, <1>9, <1>10, <1>11, <1>12 DEF RxInv

(* What the end of an operation does to the radio, as far as a reception    *)
(* sees it.                                                                 *)
StillOps == {"int_status", "length", "fill", "rssi", "sync", "state", "word", "command"}
KeepsRx == SameAir /\ radio'.mode = radio.mode
Empties == /\ radio'.air = radio.air /\ radio'.len = radio.len
           /\ radio'.receiving = radio.receiving /\ radio'.mode = radio.mode
           /\ radio'.rxfifo = 0
Listening == /\ radio'.mode = "tune" /\ radio'.receiving = FALSE /\ radio'.air = 0
             /\ radio'.rxfifo = 0 /\ radio'.len = 0
Transmits == /\ radio'.mode = "tx" /\ radio'.receiving = FALSE /\ radio'.air = 0
             /\ radio'.rxfifo = radio.rxfifo /\ radio'.len = radio.len
Reads(n) == /\ radio'.air = radio.air /\ radio'.len = radio.len
            /\ radio'.receiving = radio.receiving /\ radio'.mode = radio.mode
            /\ radio'.rxfifo = radio.rxfifo - n
RxEnds(op) ==
  /\ radio'.pending = IF op.name = "int_status" THEN {} ELSE radio.pending
  /\ op.name \in StillOps => KeepsRx
  /\ op.name = "config" => SameAir /\ radio'.mode = "ready"
  /\ op.name = "fifo_reset" => Empties
  /\ op.name = "start_rx" => Listening
  /\ op.name = "start_tx" => Transmits
  /\ op.name = "head" => Reads(IF op.len # 0 THEN op.len + 1 ELSE radio.len + 1)
  /\ op.name = "rest" => Reads(IF op.len = 0 THEN 1 ELSE op.len)

(* This is what the end of each operation does to the radio.                *)
LEMMA EndRadio ==
  ASSUME RadioShape, Finish, main.at # 0
  PROVE  RxEnds(engine.op)
<1> DEFINE op == engine.op
           r == RadioAfter(op)
<1>1. radio' = r
  BY DEF Finish, RadioBecomes
<1>2. DOMAIN radio = {"mode", "receiving", "air", "len", "rxfifo", "txfifo", "txlen",
                     "sent", "pending"}
  BY DEF RadioShape
<1>3. r.pending = IF op.name = "int_status" THEN {} ELSE radio.pending
  BY <1>2 DEF RadioAfter
<1>4. ASSUME op.name \in StillOps
      PROVE  KeepsRx
  <2>1. CASE op.name = "int_status"
    BY <2>1, <1>1, <1>2 DEF RadioAfter, KeepsRx, SameAir
  <2>2. CASE op.name = "length" \/ op.name = "fill"
    BY <2>2, <1>1, <1>2 DEF RadioAfter, KeepsRx, SameAir
  <2>3. CASE op.name \in {"rssi", "sync", "state", "word", "command"}
    <3>1. r = radio
      BY <2>3 DEF RadioAfter
    <3>2. QED
      BY <3>1, <1>1 DEF KeepsRx, SameAir
  <2>4. QED
    BY <1>4, <2>1, <2>2, <2>3 DEF StillOps
<1>5. op.name = "config" => SameAir /\ radio'.mode = "ready"
  BY <1>1, <1>2 DEF RadioAfter, SameAir
<1>6. op.name = "fifo_reset" => Empties
  BY <1>1, <1>2 DEF RadioAfter, Empties
<1>7. op.name = "start_rx" => Listening
  BY <1>1, <1>2 DEF RadioAfter, Listening
<1>8. op.name = "start_tx" => Transmits
  BY <1>1, <1>2 DEF RadioAfter, Transmits
<1>9. ASSUME op.name = "head"
      PROVE  Reads(IF op.len # 0 THEN op.len + 1 ELSE radio.len + 1)
  <2>1. Taken(op) = IF op.len # 0 THEN op.len + 1 ELSE radio.len + 1
    BY <1>9 DEF Taken
  <2>2. r = [radio EXCEPT !.rxfifo = @ - Taken(op)]
    BY <1>9 DEF RadioAfter
  <2>3. QED
    BY <2>1, <2>2, <1>1, <1>2 DEF Reads
<1>10. ASSUME op.name = "rest"
       PROVE  Reads(IF op.len = 0 THEN 1 ELSE op.len)
  <2>1. Taken(op) = IF op.len = 0 THEN 1 ELSE op.len
    BY <1>10 DEF Taken
  <2>2. r = [radio EXCEPT !.rxfifo = @ - Taken(op)]
    BY <1>10 DEF RadioAfter
  <2>3. QED
    BY <2>1, <2>2, <1>1, <1>2 DEF Reads
<1> HIDE DEF r
<1>11. QED
  BY <1>1, <1>3, <1>4, <1>5, <1>6, <1>7, <1>8, <1>9, <1>10 DEF RxEnds

(* The Irq machine waits meanwhile, or the watchdog takes it away.          *)
EndWaits == {0, 1, 3, 5, 7, 9, 12, 15, 16, 18, 21, 24, 29}
StruckNow == /\ irq'.at = 16 /\ irq'.almost_full = FALSE /\ irq'.Data_Recv_Pos = 0
             /\ irq.packets_incoming # 0 /\ MayExpire
Stands3 == /\ irq'.at = irq.at /\ irq'.almost_full = irq.almost_full
           /\ irq'.Data_Recv_Pos = irq.Data_Recv_Pos
(* The Irq machine does nothing else at that moment.                        *)
LEMMA EndIrq ==
  ASSUME IrqShape, IrqWaits
  PROVE  /\ irq.at \in EndWaits /\ SameOp /\ SameMarks
         /\ irq'.packets_incoming = irq.packets_incoming
         /\ StruckNow \/ Stands3
<1>1. Becomes(irq)
  BY DEF IrqWaits
<1>2. RxLands(irq)
  BY <1>1, RxBecoming DEF IrqShape, IrqFields
<1>3. irq.at \in EndWaits
  BY DEF IrqWaits, EndWaits
<1>4. QED
  BY <1>2, <1>3 DEF RxLands, TurnsTo, SameOp, SameMarks, StruckNow, Stands3

(* Whose operation it was, and which.                                       *)
LEMMA EndOwner ==
  ASSUME EngineShape, EngineControl, MainControl, MainServed, IrqServed, MainOps, IrqControl,
         Commanded, Finish, irq.at \in EndWaits
  PROVE  /\ engine'.at = 0 /\ engine'.owner = engine.owner
         /\ engine.at = 52 /\ engine.owner \in {"main", "int"}
         /\ DoneForMain' = (engine.owner = "main") /\ DoneForIrq' = (engine.owner = "int")
         /\ engine'.pending = IF engine.op.name = "int_status" THEN radio.pending ELSE {}
         /\ engine.owner = "main" =>
              /\ main.at \in {6, 42, 52} =>
                   engine.op.name \in {"config", "fifo_reset", "state", "command"}
              /\ main.at \in {62, 65, 72, 76, 77, 103} =>
                   engine.op.name \in {"word", "length", "fill", "command"}
              /\ main.at = 92 => engine.op.name = "start_tx"
              /\ main.at \in {56, 97} => engine.op.name = "start_rx"
              /\ main.at \in MainWaiting
         /\ engine.owner = "int" =>
              /\ irq.at \in {3, 9, 12, 15, 16, 18, 21, 24, 29}
              /\ irq.at \notin {16, 18} => irq.start /\ engine.op = irq.op
<1>1. engine.at = 52 /\ engine' = WithAnswer(engine.op)
  BY DEF Finish
<1>2. /\ engine'.pending = IF engine.op.name = "int_status" THEN radio.pending ELSE {}
      /\ engine'.at = 0 /\ engine'.owner = engine.owner /\ engine'.spi_op_done = TRUE
  BY <1>1 DEF WithAnswer, EngineShape
<1>3. DoneForMain' = (engine.owner = "main") /\ DoneForIrq' = (engine.owner = "int")
  BY <1>2 DEF DoneForMain, DoneForIrq, DoneFor
<1>4. engine.owner \in {"main", "int"}
  BY <1>1 DEF EngineControl
<1>5. engine.owner = "main" => main.at \in MainWaiting /\ engine.op = main.op
  BY <1>1 DEF MainServed, MainControl, EngineBusy
<1>6. engine.owner = "int" =>
              /\ irq.at \in {3, 9, 12, 15, 16, 18, 21, 24, 29}
              /\ irq.at \notin {16, 18} => irq.start /\ engine.op = irq.op
  BY <1>1 DEF IrqServed, EngineBusy, IrqControl, IrqWaiting, EndWaits
<1>7. QED
  BY <1>1, <1>2, <1>3, <1>4, <1>5, <1>6 DEF MainOps, Commanded

(* The end of an operation takes nothing from the receiver that is not      *)
(* there.                                                                   *)
LEMMA EndNumbers ==
  ASSUME RxNumbers(radio), RxEnds(engine.op), Bounds(radio), engine.at = 52,
         engine.op.name \in StillOps \cup {"config", "fifo_reset", "start_rx", "start_tx",
                                           "head", "rest"}
  PROVE  RxNumbers(radio')
<1> DEFINE op == engine.op
<1>1. CASE op.name \in StillOps \cup {"config"}
  <2>1. SameAir
    BY <1>1 DEF RxEnds, KeepsRx
  <2>2. QED
    BY <2>1 DEF SameAir, RxNumbers
<1>2. CASE op.name = "fifo_reset"
  BY <1>2 DEF RxEnds, RxNumbers, Empties
<1>3. CASE op.name = "start_rx"
  <2>1. Listening
    BY <1>3 DEF RxEnds
  <2>2. /\ radio'.air \in Nat /\ radio'.rxfifo \in Nat
        /\ radio'.len \in 0 .. 254
    BY <2>1 DEF Listening
  <2>3. radio'.receiving \in BOOLEAN
    BY <2>1 DEF Listening
  <2>4. QED
    BY <2>1, <2>2, <2>3 DEF Listening, RxNumbers
<1>4. CASE op.name = "start_tx"
  <2>1. Transmits
    BY <1>4 DEF RxEnds
  <2>2. /\ radio'.air \in Nat /\ radio'.rxfifo \in Nat
        /\ radio'.len \in 0 .. 254
    BY <2>1 DEF Transmits, RxNumbers
  <2>3. radio'.receiving \in BOOLEAN
    BY <2>1 DEF Transmits
  <2>4. QED
    BY <2>1, <2>2, <2>3 DEF Transmits, RxNumbers
<1>5. ASSUME NEW n \in Nat, n <= radio.rxfifo, Reads(n)
      PROVE  RxNumbers(radio')
  BY <1>5 DEF Reads, RxNumbers
<1>6. Bounded(radio, op)
  BY DEF Bounds
<1>7. radio.len + 1 \in Nat
  BY DEF RxNumbers
<1>8. CASE op.name = "head" /\ op.len # 0
  <2>1. op.len + 1 \in Nat /\ op.len + 1 <= radio.rxfifo
    BY <1>6, <1>8 DEF Bounded
  <2>2. Reads(op.len + 1)
    BY <1>8 DEF RxEnds
  <2>3. QED
    BY <2>1, <2>2, <1>5
<1>9. CASE op.name = "head" /\ op.len = 0
  <2>1. radio.len + 1 <= radio.rxfifo
    BY <1>6, <1>9 DEF Bounded
  <2>2. Reads(radio.len + 1)
    BY <1>9 DEF RxEnds
  <2>3. QED
    BY <2>1, <2>2, <1>5, <1>7
<1>10. CASE op.name = "rest"
  <2>1. op.len \in Nat /\ op.len # 0 /\ op.len <= radio.rxfifo
    BY <1>6, <1>10 DEF Bounded
  <2>2. Reads(op.len)
    BY <1>10, <2>1 DEF RxEnds
  <2>3. QED
    BY <2>1, <2>2, <1>5
<1>11. QED
  BY <1>1, <1>2, <1>3, <1>4, <1>8, <1>9, <1>10

(* An Irq machine that stands still keeps what is said of it.               *)
LEMMA StandsSame ==
  ASSUME Stands3, irq'.packets_incoming = irq.packets_incoming, NEW r, NEW q, NEW d, NEW n,
         NEW m, NEW fin
  PROVE  /\ Inside(irq, r, q, d) => Inside(irq', r, q, d)
         /\ Told(irq, r, d, n) => Told(irq', r, d, n)
         /\ Outset(irq, r, q, d) => Outset(irq', r, q, d)
         /\ TxAlone(irq, m, r, q, fin) => TxAlone(irq', m, r, q, fin)
         /\ Follows(irq') <=> Follows(irq)
<1> USE DEF Stands3
<1>1. Follows(irq') <=> Follows(irq)
  BY DEF Follows
<1>2. /\ Asked(irq', d) <=> Asked(irq, d)
      /\ AskedMore(irq', d) <=> AskedMore(irq, d)
      /\ HasMore(irq', d) <=> HasMore(irq, d)
      /\ Apart(irq') <=> Apart(irq)
  BY DEF Asked, AskedMore, HasMore, Apart
<1>3. Inside(irq, r, q, d) => Inside(irq', r, q, d)
  BY <1>1, <1>2 DEF Inside
<1>4. Told(irq, r, d, n) => Told(irq', r, d, n)
  BY <1>1, <1>2 DEF Told
<1>5. Outset(irq, r, q, d) => Outset(irq', r, q, d)
  BY DEF Outset
<1>6. TxAlone(irq, m, r, q, fin) => TxAlone(irq', m, r, q, fin)
  BY <1>2 DEF TxAlone
<1>7. QED
  BY <1>1, <1>3, <1>4, <1>5, <1>6

(* What the end of an operation finds, and what it leaves.                  *)
Ends ==
  /\ main' = main /\ irq.at \in EndWaits /\ SameOp
  /\ irq'.packets_incoming = irq.packets_incoming /\ (StruckNow \/ Stands3)
  /\ engine.pending = {} /\ ~DoneForMain /\ ~DoneForIrq
  /\ engine'.at = 0 /\ engine'.owner = engine.owner
  /\ engine.at = 52 /\ engine.owner \in {"main", "int"}
  /\ DoneForMain' = (engine.owner = "main") /\ DoneForIrq' = (engine.owner = "int")
  /\ engine'.pending = IF engine.op.name = "int_status" THEN radio.pending ELSE {}
  /\ engine.owner = "main" =>
       /\ main.at \in {6, 42, 52} =>
            engine.op.name \in {"config", "fifo_reset", "state", "command"}
       /\ main.at \in {62, 65, 72, 76, 77, 103} =>
            engine.op.name \in {"word", "length", "fill", "command"}
       /\ main.at = 92 => engine.op.name = "start_tx"
       /\ main.at \in {56, 97} => engine.op.name = "start_rx"
       /\ main.at \in MainWaiting
  /\ engine.owner = "int" =>
       /\ irq.at \in {3, 9, 12, 15, 16, 18, 21, 24, 29}
       /\ irq.at \notin {16, 18} => irq.start /\ engine.op = irq.op
       /\ engine.op.name \in IrqOps
EndsInTime == Ends /\ main.at # 0 /\ RxEnds(engine.op)

(* The registers, and what has been asked for.                              *)
LEMMA EndRegisters ==
  ASSUME Ends, Registers(irq)
  PROVE  Registers(irq')
<1>1. Within(16, FALSE, irq.packets_incoming, 0)
  <2>1. irq.packets_incoming \in 0 .. 15
    BY DEF Registers, Within
  <2>2. QED
    BY <2>1 DEF Within, Opening, Closing
<1>2. QED
  BY <1>1 DEF Ends, StruckNow, Stands3, Registers

(* The operation it waits for is still the one it asked for, ...            *)
LEMMA EndAsked ==
  ASSUME Ends, IrqAsked, engine'.recv_pkt_len =
           IF engine.op.name = "head" /\ engine.op.len # 0 THEN radio.len
           ELSE engine.recv_pkt_len
  PROVE  IrqAsked'
<1>o. \A name, len : Op(name, len).name = name /\ Op(name, len).len = len
  BY DEF Op
<1>1. CASE StruckNow
  BY <1>1 DEF StruckNow, IrqAsked
<1>2. CASE Stands3
  <2>1. ASSUME irq.at = 15, ~irq.almost_full, irq.packets_incoming # 1
        PROVE  engine'.recv_pkt_len = engine.recv_pkt_len
    <3>1. irq.op.name = "rest"
      BY <2>1, <1>o DEF IrqAsked
    <3>2. engine.op.name # "head"
      <4>1. CASE engine.owner = "int"
        BY <2>1, <3>1, <4>1 DEF Ends
      <4>2. CASE engine.owner = "main"
        BY <4>2 DEF Ends, MainWaiting
      <4>3. QED
        BY <4>1, <4>2 DEF Ends
    <3>3. QED
      BY <3>2
  <2>2. irq.at # 14
    BY DEF Ends, EndWaits
  <2>3. QED
    BY <1>2, <2>1, <2>2 DEF Ends, Stands3, SameOp, IrqAsked
<1>3. QED
  BY <1>1, <1>2 DEF Ends

(* ... no longer than what the radio holds, ...                             *)
LEMMA EndBounds ==
  ASSUME EndsInTime, Bounds(radio)
  PROVE  Bounds(radio)'
<1> USE DEF EndsInTime
<1>1. ASSUME irq'.start, ~DoneForIrq', irq'.op.name \in {"head", "rest"}
      PROVE  Bounded(radio, irq.op)'
  <2>1. engine.owner = "main" /\ irq.start /\ irq'.op = irq.op /\ ~DoneForIrq
    BY <1>1 DEF Ends, SameOp
  <2>2. Bounded(radio, irq.op)
    BY <2>1 DEF Bounds
  <2>3. /\ Up /\ main.at # 97 /\ irq.op.len \in Nat
        /\ irq.op.len # 0 => (IF irq.op.name = "head" THEN irq.op.len + 1 ELSE irq.op.len)
                                <= radio.rxfifo
        /\ irq.op.len = 0 => irq.op.name = "head" /\ radio.len + 1 <= radio.rxfifo
                             /\ Silent(radio)
    BY <1>1, <2>1, <2>2 DEF Bounded
  <2>4. main.at \in {62, 65, 72, 76, 77, 92, 103}
    BY <2>1, <2>3 DEF Ends, MainWaiting, Up, Starting
  <2>5. Up' /\ main'.at # 97
    BY <2>3, <2>4 DEF Ends, Up, Starting
  <2>6. /\ radio'.rxfifo = radio.rxfifo /\ radio'.len = radio.len
        /\ Silent(radio) => Silent(radio')
    <3>1. CASE main.at = 92
      BY <3>1, <2>1 DEF Ends, RxEnds, Transmits, Silent, Live
    <3>2. CASE main.at # 92
      <4>1. KeepsRx
        BY <3>2, <2>1, <2>4 DEF Ends, RxEnds, StillOps
      <4>2. QED
        BY <4>1 DEF KeepsRx, SameAir, Silent, Live
    <3>3. QED
      BY <3>1, <3>2
  <2>7. QED
    BY <2>1, <2>3, <2>5, <2>6 DEF Bounded
<1>2. engine'.at # 52
  BY DEF Ends
<1>3. QED
  BY <1>1, <1>2 DEF Bounds, Bounded

(* ... and a frame is still sent only where no packet comes in.             *)
LEMMA EndTxGuards ==
  ASSUME Ends, TxGuards, TxStateTells
  PROVE  TxGuards'
<1>1. main'.at \in Supervised => ~Follows(irq')
  BY DEF Ends, TxGuards, Follows
<1>2. ~(main'.at = 92 /\ ~DoneForMain')
  BY DEF Ends, TxGuards
<1>3. QED
  BY <1>1, <1>2 DEF TxGuards

(* The part of the invariant that depends on both the radio and the Irq     *)
(* machine.                                                                 *)
Known(r) ==
  /\ Inside(irq, r, News(r), DoneForIrq)
  /\ Told(irq, r, DoneForIrq, engine.recv_pkt_len)
  /\ Up => Outset(irq, r, News(r), DoneForIrq)
  /\ Down(r)
  /\ TxAlone(irq, main, r, News(r), DoneForMain)
  /\ EngineFollows(r)

(* What the interrupts promise is not lost with a status.                   *)
LEMMA EndNews ==
  ASSUME EndsInTime
  PROVE  News(radio) = radio.pending /\ News(radio)' = radio.pending
  BY DEF EndsInTime, Ends, RxEnds, News

(* Whom the end of an operation leaves listening.                           *)
LEMMA EndUp ==
  ASSUME EndsInTime, Registers(irq), TxGuards
  PROVE  /\ Up' <=> Up \/ (main.at = 56 /\ engine.owner = "main")
         /\ engine.op.name = "config" => ~Up'
         /\ engine.op.name = "start_tx" => main.at = 92 /\ engine.owner = "main"
         /\ main'.at = 0 => FALSE
<1>1. Up' <=> Up \/ (main.at = 56 /\ engine.owner = "main")
  <2>1. main' = main /\ ~DoneForMain /\ (DoneForMain' <=> engine.owner = "main")
    BY DEF EndsInTime, Ends
  <2>2. main.at = 56 => main.at \notin Starting \cup {0}
    BY DEF Starting
  <2> HIDE DEF Starting
  <2>3. CASE main.at = 56
    BY <2>1, <2>2, <2>3 DEF Up
  <2>4. CASE main.at # 56
    BY <2>1, <2>4 DEF Up
  <2>5. QED
    BY <2>3, <2>4
<1>2. engine.op.name = "config" => ~Up'
  BY <1>1 DEF EndsInTime, Ends, Up, Starting, IrqOps, MainWaiting
<1>3. engine.op.name = "start_tx" => main.at = 92 /\ engine.owner = "main"
  BY DEF EndsInTime, Ends, IrqOps, MainWaiting
<1>4. QED
  BY <1>1, <1>2, <1>3 DEF EndsInTime, Ends

(* The radio that is set up receives in RX only.                            *)
LEMMA EndReceiving ==
  ASSUME EndsInTime, Up => (radio.receiving => radio.mode = "rx"), Registers(irq), TxGuards,
         engine.op.name \in StillOps \cup {"config", "fifo_reset", "start_rx", "start_tx",
                                           "head", "rest"}
  PROVE  Up' => (radio'.receiving => radio'.mode = "rx")
<1>1. SUFFICES ASSUME Up'
               PROVE  radio'.receiving => radio'.mode = "rx"
  OBVIOUS
<1>2. engine.op.name # "config"
  BY <1>1, EndUp
<1>3. CASE engine.op.name \in {"start_rx", "start_tx"}
  BY <1>3 DEF EndsInTime, RxEnds, Listening, Transmits
<1>4. CASE engine.op.name \in StillOps \cup {"fifo_reset", "head", "rest"}
  <2>1. radio'.receiving = radio.receiving /\ radio'.mode = radio.mode
    BY <1>4 DEF EndsInTime, RxEnds, KeepsRx, SameAir, Empties, Reads
  <2>2. main.at = 56 /\ engine.owner = "main" => FALSE
    BY <1>4 DEF EndsInTime, Ends, StillOps
  <2>3. Up
    BY <1>1, <2>2, EndUp
  <2>4. QED
    BY <2>1, <2>3
<1>5. QED
  BY <1>2, <1>3, <1>4

(* Nobody else touches the radio while a command of state 16 or 18 ends.    *)
LEMMA EndAside ==
  ASSUME EndsInTime, RxInv(radio), irq'.at \in {16, 18},
         Up' => (radio'.receiving => radio'.mode = "rx")
  PROVE  Known(radio)'
<1>1. /\ ~(irq'.at \in Rest) /\ ~(irq'.at \in Opening) /\ ~Asked(irq, DoneForIrq)'
      /\ ~HasMore(irq, DoneForIrq)' /\ ~AskedMore(irq, DoneForIrq)' /\ irq'.at # 27
  BY DEF Rest, Opening, Asked, HasMore, AskedMore
<1>2. Inside(irq, radio, News(radio), DoneForIrq)'
  BY <1>1 DEF Inside
<1>3. Told(irq, radio, DoneForIrq, engine.recv_pkt_len)'
  BY <1>1 DEF Told
<1>4. Up' => Outset(irq, radio, News(radio), DoneForIrq)'
  BY <1>1 DEF Outset
<1>5. Down(radio)'
  <2>1. ASSUME ~Up'
        PROVE  ~Follows(irq') /\ ~main'.enable_irq
    <3>1. ~Up
      BY <2>1, EndUp DEF RxInv
    <3>2. QED
      BY <3>1 DEF EndsInTime, Ends, RxInv, Down, Follows
  <2>2. irq'.at \in Closing
    BY DEF Closing
  <2>3. QED
    BY <2>1, <2>2 DEF Down
<1>6. TxAlone(irq, main, radio, News(radio), DoneForMain)'
  BY DEF TxAlone, Apart, Closing
<1>7. EngineFollows(radio)'
  BY DEF EngineFollows
<1>8. QED
  BY <1>2, <1>3, <1>4, <1>5, <1>6, <1>7 DEF Known

(* What is known of a packet does not change with what is not looked at.    *)
LEMMA KeptRx ==
  ASSUME KeepsRx, RxNumbers(radio), NEW q, NEW d, NEW n, NEW fin,
         radio'.pending \subseteq radio.pending
  PROVE  /\ Inside(irq, radio, q, d) => Inside(irq, radio', q, d)
         /\ Told(irq, radio, d, n) => Told(irq, radio', d, n)
         /\ Outset(irq, radio, q, d) => Outset(irq, radio', q, d)
         /\ Dark(radio) => Dark(radio')
         /\ TxAlone(irq, main, radio, q, fin) => TxAlone(irq, main, radio', q, fin)
<1> USE DEF KeepsRx, SameAir
<1>1. Live(radio') <=> Live(radio)
  BY DEF Live
<1>2. /\ Fresh(radio') <=> Fresh(radio)
      /\ Silent(radio') <=> Silent(radio)
      /\ \A t : Packet(radio', t) <=> Packet(radio, t)
  BY <1>1 DEF Fresh, Silent, Packet
<1>3. /\ Late(radio', q) <=> Late(radio, q)
      /\ \A t : Sound(radio', t, q) <=> Sound(radio, t, q)
      /\ ChunkWaits(radio) => ChunkWaits(radio')
  BY <1>2 DEF Late, Sound, ChunkWaits
<1>4. \A t : Amid(radio', t, q) <=> Amid(radio, t, q)
  BY <1>2, <1>3 DEF Amid
<1>5. Inside(irq, radio, q, d) => Inside(irq, radio', q, d)
  BY <1>2, <1>3, <1>4 DEF Inside
<1>6. Told(irq, radio, d, n) => Told(irq, radio', d, n)
  BY DEF Told
<1>7. Outset(irq, radio, q, d) => Outset(irq, radio', q, d)
  BY <1>2, <1>3 DEF Outset
<1>8. Dark(radio) => Dark(radio')
  BY DEF Dark
<1>9. TxAlone(irq, main, radio, q, fin) => TxAlone(irq, main, radio', q, fin)
  <2> DEFINE r == radio'
  <2>1. r.mode = radio.mode /\ r.pending \subseteq radio.pending
        /\ (Silent(radio) <=> Silent(r))
    BY <1>2
  <2> HIDE DEF r
  <2>2. TxAlone(irq, main, radio, q, fin) => TxAlone(irq, main, r, q, fin)
    BY <2>1 DEF TxAlone
  <2>3. QED
    BY <2>2 DEF r
<1>10. QED
  BY <1>5, <1>6, <1>7, <1>8, <1>9

(* What the end of an operation of the Main machine leaves known.           *)
MainLeaves ==
  /\ Inside(irq, radio', radio.pending, FALSE)
  /\ Told(irq, radio', FALSE, engine.recv_pkt_len)
  /\ Up' => Outset(irq, radio', radio.pending, FALSE)
  /\ ~Up' => /\ irq.at \in {0, 1, 2, 3} \cup Closing /\ ~Follows(irq) /\ ~main.enable_irq
             /\ irq.at \in {1, 2, 3} \/ (irq.at = 0 /\ irq.packets_incoming = 1) => Dark(radio')
  /\ TxAlone(irq, main, radio', radio.pending, TRUE)
KnownBefore ==
  /\ RxNumbers(radio) /\ Registers(irq)
  /\ Inside(irq, radio, radio.pending, FALSE)
  /\ Told(irq, radio, FALSE, engine.recv_pkt_len)
  /\ Up => Outset(irq, radio, radio.pending, FALSE)
  /\ Down(radio)
  /\ TxAlone(irq, main, radio, radio.pending, FALSE)
  /\ TxGuards /\ IrqAsked /\ EngineFollows(radio) /\ Bounds(radio)

(* Nothing of a packet is known while it does not listen.                   *)
LEMMA NoneInside ==
  ASSUME irq.at \in {0, 1, 2, 3} \cup Closing, ~Follows(irq), NEW r, NEW q, NEW d, NEW n
  PROVE  Inside(irq, r, q, d) /\ Told(irq, r, d, n)
<1>1. /\ ~(irq.at \in Opening) /\ ~Asked(irq, d)
      /\ ~HasMore(irq, d) /\ ~AskedMore(irq, d) /\ irq.at # 27
  BY DEF Opening, Closing, Asked, HasMore, AskedMore
<1>2. QED
  BY <1>1 DEF Inside, Told

(* ... it sets the radio up, ...                                            *)
LEMMA EndSetUp ==
  ASSUME EndsInTime, KnownBefore, engine.owner = "main", main.at \in {6, 42, 52}
  PROVE  MainLeaves
<1>1. ~Up /\ ~Up'
  BY EndUp DEF KnownBefore, Up, Starting
<1>2. /\ irq.at \in {0, 1, 2, 3} \cup Closing /\ ~Follows(irq) /\ ~main.enable_irq
      /\ irq.at \in {1, 2, 3} \/ (irq.at = 0 /\ irq.packets_incoming = 1) => Dark(radio)
  BY <1>1 DEF KnownBefore, Down, EndsInTime
<1>3. engine.op.name \in {"config", "fifo_reset", "state", "command"}
  BY DEF EndsInTime, Ends
<1>4. Dark(radio) => Dark(radio')
  BY <1>3 DEF EndsInTime, RxEnds, StillOps, KeepsRx, SameAir, Empties, Dark
<1>5. TxAlone(irq, main, radio', radio.pending, TRUE)
  <2>1. Apart(irq) => Dark(radio)
    BY <1>2 DEF Apart, Follows
  <2>2. Dark(radio) => radio.pending = {} /\ radio'.mode # "tx"
    BY <1>4 DEF Dark
  <2>3. ~Answered4(main, TRUE)
    BY DEF Answered4, OnAir
  <2>4. QED
    BY <2>1, <2>2, <2>3 DEF TxAlone
<1>6. QED
  BY <1>1, <1>2, <1>4, <1>5, NoneInside DEF MainLeaves

(* ... makes it listen, ...                                                 *)
LEMMA EndListen ==
  ASSUME EndsInTime, KnownBefore, engine.owner = "main", main.at = 56
  PROVE  MainLeaves
<1>1. ~Up /\ Up'
  BY EndUp DEF KnownBefore, Up, Starting, EndsInTime, Ends
<1>2. /\ irq.at \in {0, 1, 2, 3} \cup Closing /\ ~Follows(irq)
      /\ irq.at \in {1, 2, 3} \/ (irq.at = 0 /\ irq.packets_incoming = 1) => Dark(radio)
  BY <1>1 DEF KnownBefore, Down, EndsInTime
<1>3. Listening
  BY DEF EndsInTime, Ends, RxEnds
<1>4. Fresh(radio')
  BY <1>3 DEF Fresh, Listening
<1>5. irq.packets_incoming = 1 /\ irq.at \in Rest => radio.pending = {}
  BY <1>2 DEF Dark, Rest, Closing
<1>6. Outset(irq, radio', radio.pending, FALSE)
  <2>1. irq.packets_incoming = 1 /\ irq.at \in Rest => Sound(radio', 0, radio.pending)
    BY <1>5 DEF Sound
  <2>2. ~radio'.receiving
    BY <1>3 DEF Listening
  <2>3. QED
    BY <1>4, <2>1, <2>2 DEF Outset
<1>7. TxAlone(irq, main, radio', radio.pending, TRUE)
  <2>1. Apart(irq) => radio.pending = {}
    BY <1>2 DEF Apart, Follows, Dark
  <2>2. ~Answered4(main, TRUE) /\ radio'.mode # "tx"
    BY <1>3 DEF Answered4, OnAir, Listening
  <2>3. QED
    BY <2>1, <2>2 DEF TxAlone
<1>8. QED
  BY <1>1, <1>2, <1>6, <1>7, NoneInside DEF MainLeaves

(* ... does not touch the receiver, ...                                     *)
LEMMA EndBusy ==
  ASSUME EndsInTime, KnownBefore, engine.owner = "main", main.at \in {62, 65, 72, 76, 77, 103}
  PROVE  MainLeaves
<1>1. Up /\ Up'
  BY EndUp DEF KnownBefore, Up, Starting, EndsInTime, Ends
<1>2. KeepsRx /\ radio'.pending = radio.pending
  BY DEF EndsInTime, Ends, RxEnds, StillOps
<1>3. TxAlone(irq, main, radio, radio.pending, FALSE)
        => TxAlone(irq, main, radio, radio.pending, TRUE)
  <2>1. Answered4(main, TRUE) => Answered4(main, FALSE)
    BY DEF Answered4
  <2>2. QED
    BY <2>1 DEF TxAlone
<1>4. QED
  BY <1>1, <1>2, <1>3, KeptRx DEF KnownBefore, MainLeaves

(* ... makes it transmit, ...                                               *)
LEMMA EndTransmit ==
  ASSUME EndsInTime, KnownBefore, engine.owner = "main", main.at = 92
  PROVE  MainLeaves
<1>1. Up /\ Up'
  BY EndUp DEF KnownBefore, Up, Starting, EndsInTime, Ends
<1>2. irq.at \in {0, 1, 2, 3} /\ irq.packets_incoming = 0
  BY DEF KnownBefore, TxGuards, EndsInTime, Ends
<1>3. Transmits
  BY DEF EndsInTime, Ends, RxEnds
<1>4. Fresh(radio') /\ ~radio'.receiving
  BY <1>3 DEF Fresh, Live, Transmits
<1>5. ~Apart(irq) /\ ~Follows(irq)
  BY <1>2 DEF Apart, Follows
<1>6. Outset(irq, radio', radio.pending, FALSE)
  BY <1>2, <1>4 DEF Outset
<1>7. TxAlone(irq, main, radio', radio.pending, TRUE)
  BY <1>5 DEF TxAlone
<1>8. QED
  BY <1>1, <1>2, <1>5, <1>6, <1>7, NoneInside DEF MainLeaves

(* ... or makes it listen again after a frame.                              *)
LEMMA EndReturn ==
  ASSUME EndsInTime, KnownBefore, engine.owner = "main", main.at = 97, Pulses
  PROVE  MainLeaves
<1>1. Up /\ Up'
  BY EndUp DEF KnownBefore, Up, Starting, EndsInTime, Ends
<1>2. irq.at = 5 /\ ~Follows(irq)
  BY DEF KnownBefore, TxGuards, Pulses, Supervised, TxStates
<1>3. Listening
  BY DEF EndsInTime, Ends, RxEnds
<1>4. Fresh(radio') /\ ~radio'.receiving /\ radio'.mode # "tx"
  BY <1>3 DEF Fresh, Listening
<1>5. Apart(irq) => radio.pending = {}
  <2>1. Answered4(main, FALSE)
    BY DEF Answered4
  <2>2. QED
    BY <1>2, <2>1 DEF KnownBefore, TxAlone
<1>6. irq.packets_incoming = 1 => Apart(irq)
  BY <1>2 DEF Apart, Closing
<1>7. Outset(irq, radio', radio.pending, FALSE)
  BY <1>2, <1>4, <1>5, <1>6 DEF Outset, Sound
<1>8. TxAlone(irq, main, radio', radio.pending, TRUE)
  <2>1. ~Answered4(main, TRUE)
    BY DEF Answered4, OnAir
  <2>2. QED
    BY <2>1, <1>4, <1>5 DEF TxAlone
<1>9. Inside(irq, radio', radio.pending, FALSE) /\ Told(irq, radio', FALSE, engine.recv_pkt_len)
  <2>1. /\ ~(irq.at \in Opening) /\ ~Asked(irq, FALSE)
        /\ ~HasMore(irq, FALSE) /\ ~AskedMore(irq, FALSE) /\ irq.at # 27
    BY <1>2 DEF Opening, Asked, HasMore, AskedMore
  <2>2. QED
    BY <1>2, <2>1 DEF Inside, Told
<1>10. QED
  BY <1>1, <1>7, <1>8, <1>9 DEF MainLeaves

(* What the end of an operation of the Irq machine leaves known: it has     *)
(* looked at something, ...                                                 *)
IrqEnds ==
  /\ Inside(irq, radio', radio.pending, TRUE)
  /\ Told(irq, radio', TRUE, engine'.recv_pkt_len)
  /\ Up => Outset(irq, radio', radio.pending, TRUE)
  /\ ~Up => /\ irq.at \in {0, 1, 2, 3} \cup Closing /\ ~Follows(irq) /\ ~main.enable_irq
            /\ irq.at \in {1, 2, 3} \/ (irq.at = 0 /\ irq.packets_incoming = 1) =>
                 Dark(radio') /\ engine'.pending = {}
  /\ TxAlone(irq, main, radio', radio.pending, FALSE)
  /\ irq.at = 3 => radio'.pending = {}
LengthRead ==
  engine'.recv_pkt_len = IF engine.op.name = "head" /\ engine.op.len # 0 THEN radio.len
                         ELSE engine.recv_pkt_len

(* Only the states in which something is read look at the end.              *)
LEMMA DoneElsewhere ==
  ASSUME irq.at \notin {15, 21, 29}, NEW r, NEW q, NEW n
  PROVE  /\ Inside(irq, r, q, FALSE) => Inside(irq, r, q, TRUE)
         /\ Told(irq, r, FALSE, n) => Told(irq, r, TRUE, n)
         /\ Outset(irq, r, q, FALSE) => Outset(irq, r, q, TRUE)
<1>1. /\ Asked(irq, TRUE) => Asked(irq, FALSE)
      /\ AskedMore(irq, TRUE) => AskedMore(irq, FALSE)
      /\ HasMore(irq, TRUE) => HasMore(irq, FALSE)
  BY DEF Asked, AskedMore, HasMore
<1>2. QED
  BY <1>1 DEF Inside, Told, Outset

(* It looks at the radio without taking anything from it, ...               *)
LEMMA EndLook ==
  ASSUME EndsInTime, KnownBefore, IrqAsked, LengthRead, engine.owner = "int",
         irq.at \in {3, 9, 12, 24}
  PROVE  IrqEnds
<1>1. engine.op = irq.op /\ engine.op.name \in {"int_status", "rssi", "sync", "state"}
      /\ irq.at = 3 => engine.op.name = "int_status"
  BY DEF EndsInTime, Ends, IrqAsked
<1>a. engine.op.name \in {"int_status", "rssi", "sync", "state"}
  BY DEF EndsInTime, Ends, IrqAsked
<1>b. irq.at # 3 => engine.op.name # "int_status"
  BY DEF EndsInTime, Ends, IrqAsked
<1>2. KeepsRx /\ radio'.pending \subseteq radio.pending
      /\ engine'.pending \subseteq radio.pending
      /\ engine'.recv_pkt_len = engine.recv_pkt_len
  BY <1>1, <1>a DEF EndsInTime, Ends, RxEnds, StillOps, LengthRead
<1>c. irq.at = 3 => radio'.pending = {}
  BY <1>1, <1>a DEF EndsInTime, Ends, RxEnds
<1>3. Dark(radio) => Dark(radio') /\ engine'.pending = {}
  BY <1>2 DEF Dark, KeepsRx, SameAir
<1>d. KeepsRx /\ radio'.pending \subseteq radio.pending
  BY <1>a DEF EndsInTime, Ends, RxEnds, StillOps
<1>e. /\ Inside(irq, radio', radio.pending, FALSE)
      /\ Told(irq, radio', FALSE, engine.recv_pkt_len)
      /\ Up => Outset(irq, radio', radio.pending, FALSE)
      /\ TxAlone(irq, main, radio', radio.pending, FALSE)
  BY <1>d, KeptRx DEF KnownBefore
<1>4. /\ Inside(irq, radio', radio.pending, TRUE)
      /\ Told(irq, radio', TRUE, engine.recv_pkt_len)
      /\ Up => Outset(irq, radio', radio.pending, TRUE)
  <2>1. irq.at \notin {15, 21, 29}
    OBVIOUS
  <2>2. QED
    BY <2>1, <1>e, DoneElsewhere
<1>5. ~Up => /\ irq.at \in {0, 1, 2, 3} \cup Closing /\ ~Follows(irq) /\ ~main.enable_irq
             /\ irq.at \in {1, 2, 3} \/ (irq.at = 0 /\ irq.packets_incoming = 1) =>
                  Dark(radio') /\ engine'.pending = {}
  BY <1>3 DEF KnownBefore, Down, EndsInTime
<1>6. QED
  BY <1>2, <1>c, <1>e, <1>4, <1>5 DEF IrqEnds

(* ... listens again, ...                                                   *)
LEMMA EndRestart ==
  ASSUME EndsInTime, KnownBefore, IrqAsked, engine.owner = "int", irq.at = 21
  PROVE  IrqEnds
<1>1. engine.op.name = "start_rx"
  BY DEF EndsInTime, Ends, IrqAsked
<1>2. Listening
  BY <1>1 DEF EndsInTime, RxEnds
<1>3. Fresh(radio') /\ ~radio'.receiving
  BY <1>2 DEF Fresh, Listening
<1>4. Outset(irq, radio', radio.pending, TRUE)
  BY <1>3 DEF Outset, Rest
<1>5. /\ ~(irq.at \in Opening) /\ ~Asked(irq, TRUE) /\ irq.at \notin Rest
      /\ ~HasMore(irq, TRUE) /\ ~AskedMore(irq, TRUE) /\ irq.at # 27
  BY DEF Opening, Asked, HasMore, AskedMore, Rest
<1>6. Inside(irq, radio', radio.pending, TRUE) /\ Told(irq, radio', TRUE, engine'.recv_pkt_len)
  BY <1>5 DEF Inside, Told
<1>7. ~Apart(irq)
  BY DEF Apart, Closing
<1>8. TxAlone(irq, main, radio', radio.pending, FALSE)
  BY <1>7 DEF TxAlone
<1>9. ~Up => irq.at \in Closing /\ ~Follows(irq) /\ ~main.enable_irq
  BY DEF KnownBefore, Down, EndsInTime, Closing
<1>10. QED
  <2>1. irq.at # 3 /\ ~(irq.at \in {1, 2, 3} \/ (irq.at = 0 /\ irq.packets_incoming = 1))
    OBVIOUS
  <2>2. QED
    BY <2>1, <1>4, <1>6, <1>8, <1>9 DEF IrqEnds

(* ... has read the first chunk, which takes all but a byte of a threshold, *)
LEMMA EndHead ==
  ASSUME EndsInTime, KnownBefore, IrqAsked, LengthRead, engine.owner = "int",
         irq.at = 15, irq.almost_full, RxNumbers(radio')
  PROVE  /\ Inside(irq, radio', radio.pending, TRUE)
         /\ Told(irq, radio', TRUE, engine'.recv_pkt_len)
<1>t. RX_THRESHOLD \in Nat /\ RX_THRESHOLD > 2
  BY RxConstants
<1>o. \A name, len : Op(name, len).name = name /\ Op(name, len).len = len
  BY DEF Op
<1>1. engine.op = irq.op /\ irq.op = HeadChunk
  BY DEF EndsInTime, Ends, IrqAsked
<1>2. engine.op.name = "head" /\ engine.op.len = RX_THRESHOLD - 2
  BY <1>1, <1>o DEF HeadChunk
<1>3. engine.op.len # 0 /\ engine.op.len + 1 = RX_THRESHOLD - 1
  BY <1>2, <1>t
<1>4. Reads(RX_THRESHOLD - 1)
  BY <1>2, <1>3 DEF EndsInTime, RxEnds
<1>5. /\ Packet(radio, 0) /\ Sound(radio, 0, radio.pending) /\ "sync" \notin radio.pending
      /\ ChunkWaits(radio)
  BY DEF KnownBefore, Inside, Asked
<1>6. irq.Data_Recv_Pos = RX_THRESHOLD - 1
  BY DEF KnownBefore, Registers, Within
<1>n. /\ radio.rxfifo \in Nat /\ radio.air \in Nat /\ radio.len \in 0 .. 254
  BY DEF KnownBefore, RxNumbers
<1>7. Grid(RX_THRESHOLD - 1)
  <2>1. radio.rxfifo + radio.air = radio.len + 1 /\ radio.rxfifo >= RX_THRESHOLD
    BY <1>5, <1>n DEF Packet, ChunkWaits
  <2>2. RX_THRESHOLD - 1 \in 1 .. 255
    BY <2>1, <1>n, <1>t
  <2>3. (RX_THRESHOLD - 1) % 2 = 1
    <3>1. RX_THRESHOLD % 2 = 0
      BY RxConstants
    <3>2. QED
      BY <3>1, <1>t
  <2>4. \E k \in Nat : (RX_THRESHOLD - 1) + 1 = k * RX_THRESHOLD
    <3>1. (RX_THRESHOLD - 1) + 1 = 1 * RX_THRESHOLD
      BY <1>t
    <3>2. QED
      BY <3>1
  <2>5. QED
    BY <2>2, <2>3, <2>4 DEF Grid
<1>8. Packet(radio', RX_THRESHOLD - 1)
  <2>1. radio'.rxfifo + radio'.air + (RX_THRESHOLD - 1) = radio'.len + 1
    <3>1. radio.rxfifo + radio.air + 0 = radio.len + 1
      BY <1>5 DEF Packet
    <3>2. /\ radio'.rxfifo = radio.rxfifo - (RX_THRESHOLD - 1)
          /\ radio'.air = radio.air /\ radio'.len = radio.len
      BY <1>4 DEF Reads
    <3>3. ASSUME NEW f \in Nat, NEW a \in Nat, NEW l \in Nat, NEW t \in Nat, f + a + 0 = l + 1
          PROVE  (f - (t - 1)) + a + (t - 1) = l + 1
      BY <3>3
    <3>4. radio.len \in Nat
      BY <1>n
    <3>5. QED
      BY <3>1, <3>2, <3>3, <3>4, <1>n, <1>t
  <2>2. QED
    BY <2>1, <1>4, <1>5 DEF Packet, Reads, Live
<1>9. Amid(radio', irq.Data_Recv_Pos, radio.pending)
  <2>1. Sound(radio', RX_THRESHOLD - 1, radio.pending)
    <3>1. "almost_full" \notin radio.pending
      BY <1>5 DEF ChunkWaits
    <3>2. "rx" \in radio.pending => ~radio'.receiving
      BY <1>4, <1>5 DEF Sound, Reads
    <3>3. QED
      BY <3>1, <3>2, <1>8 DEF Sound
  <2>2. QED
    BY <2>1, <1>5, <1>6, <1>7, <1>8 DEF Amid
<1>10. engine'.recv_pkt_len = radio'.len
  BY <1>2, <1>3, <1>4 DEF LengthRead, Reads
<1>11. /\ ~(irq.at \in Opening) /\ ~Asked(irq, TRUE) /\ irq.at \notin Rest
       /\ ~AskedMore(irq, TRUE) /\ irq.at # 27
  BY DEF Opening, Asked, AskedMore, Rest
<1>12. QED
  BY <1>9, <1>10, <1>11 DEF Inside, Told

(* ... another one, ...                                                     *)
LEMMA EndMore ==
  ASSUME EndsInTime, KnownBefore, IrqAsked, LengthRead, engine.owner = "int",
         irq.at = 29, RxNumbers(radio')
  PROVE  /\ Inside(irq, radio', radio.pending, TRUE)
         /\ Told(irq, radio', TRUE, engine'.recv_pkt_len)
<1> DEFINE pos == irq.Data_Recv_Pos
<1>t. RX_THRESHOLD \in Nat /\ RX_THRESHOLD > 2
  BY RxConstants
<1>o. \A name, len : Op(name, len).name = name /\ Op(name, len).len = len
  BY DEF Op
<1>1. engine.op.name = "rest" /\ engine.op.len = RX_THRESHOLD
  BY <1>o DEF EndsInTime, Ends, IrqAsked
<1>3. engine.op.len # 0
  BY <1>1, <1>t
<1>4. Reads(RX_THRESHOLD)
  BY <1>1, <1>3 DEF EndsInTime, RxEnds
<1>5. Amid(radio, pos - RX_THRESHOLD, radio.pending) /\ ChunkWaits(radio)
  BY DEF KnownBefore, Inside, AskedMore
<1>n. /\ radio.rxfifo \in Nat /\ radio.air \in Nat /\ radio.len \in 0 .. 254 /\ radio.len \in Nat
  BY DEF KnownBefore, RxNumbers
<1>p. pos \in Nat
  BY DEF KnownBefore, Registers, Within
<1> HIDE DEF pos
<1>6. /\ pos - RX_THRESHOLD \in 1 .. 255
      /\ (pos - RX_THRESHOLD) % 2 = 1
      /\ radio.rxfifo + radio.air + (pos - RX_THRESHOLD) = radio.len + 1
      /\ radio.rxfifo >= RX_THRESHOLD
  BY <1>5 DEF Amid, Grid, Packet, ChunkWaits
<1>7. Grid(pos)
  <2>2. pos \in 1 .. 255
    <3>1. ASSUME NEW f \in Nat, NEW a \in Nat, NEW l \in Nat, NEW t \in Nat, NEW p \in Nat,
                 f + a + (p - t) = l + 1, f >= t, l <= 254
          PROVE  p <= 255
      BY <3>1
    <3>2. radio.len <= 254
      BY <1>n
    <3>3. pos <= 255
      BY <3>1, <3>2, <1>6, <1>n, <1>t, <1>p
    <3>4. ASSUME NEW t \in Nat, NEW p \in Nat, p - t \in 1 .. 255
          PROVE  p >= 1
      BY <3>4
    <3>5. pos >= 1
      BY <3>4, <1>6, <1>t, <1>p
    <3>6. QED
      BY <3>3, <3>5, <1>p
  <2>3. pos % 2 = 1
    <3>1. RX_THRESHOLD % 2 = 0
      BY RxConstants
    <3>2. ASSUME NEW p \in Nat, NEW t \in Nat, t % 2 = 0, (p - t) % 2 = 1
          PROVE  p % 2 = 1
      BY <3>2
    <3>3. QED
      BY <3>1, <3>2, <1>6, <1>t, <1>p
  <2>4. \E k \in Nat : pos + 1 = k * RX_THRESHOLD
    <3>1. PICK k \in Nat : (pos - RX_THRESHOLD) + 1 = k * RX_THRESHOLD
      BY <1>5 DEF Amid, Grid
    <3>2. pos + 1 = (k + 1) * RX_THRESHOLD
      <4>1. (k + 1) * RX_THRESHOLD = k * RX_THRESHOLD + RX_THRESHOLD
        BY <1>t
      <4>2. k * RX_THRESHOLD \in Nat
        BY <1>t
      <4>3. QED
        BY <3>1, <4>1, <4>2, <1>t, <1>p
    <3>3. QED
      BY <3>2
  <2>5. QED
    BY <2>2, <2>3, <2>4 DEF Grid
<1>8. Packet(radio', pos)
  <2>1. radio'.rxfifo + radio'.air + pos = radio'.len + 1
    <3>2. /\ radio'.rxfifo = radio.rxfifo - RX_THRESHOLD
          /\ radio'.air = radio.air /\ radio'.len = radio.len
      BY <1>4 DEF Reads
    <3>3. ASSUME NEW f \in Nat, NEW a \in Nat, NEW l \in Nat, NEW t \in Nat, NEW p \in Nat,
                 f + a + (p - t) = l + 1
          PROVE  (f - t) + a + p = l + 1
      BY <3>3
    <3>5. QED
      BY <1>6, <3>2, <3>3, <1>n, <1>t, <1>p
  <2>2. QED
    BY <2>1, <1>4, <1>5 DEF Packet, Reads, Live, Amid
<1>9. Amid(radio', pos, radio.pending)
  <2>1. Sound(radio', pos, radio.pending)
    <3>1. "almost_full" \notin radio.pending
      BY <1>5 DEF ChunkWaits
    <3>2. "rx" \in radio.pending => ~radio'.receiving
      BY <1>4, <1>5 DEF Sound, Reads, Amid
    <3>3. QED
      BY <3>1, <3>2, <1>8 DEF Sound
  <2>2. QED
    BY <2>1, <1>5, <1>7, <1>8 DEF Amid
<1>10. irq.packets_incoming # 0 => engine'.recv_pkt_len = radio'.len
  <2>1. engine'.recv_pkt_len = engine.recv_pkt_len
    BY <1>1 DEF LengthRead
  <2>2. irq.packets_incoming # 0 => engine.recv_pkt_len = radio.len
    BY DEF KnownBefore, Told, AskedMore
  <2>3. QED
    BY <2>1, <2>2, <1>4 DEF Reads
<1>11. /\ ~(irq.at \in Opening) /\ ~Asked(irq, TRUE) /\ irq.at \notin Rest
       /\ ~AskedMore(irq, TRUE) /\ irq.at # 27
  BY DEF Opening, Asked, AskedMore, Rest
<1>12. QED
  BY <1>9, <1>10, <1>11 DEF Inside, Told, pos

(* ... or the last one.                                                     *)
LEMMA EndChunks ==
  ASSUME EndsInTime, KnownBefore, IrqAsked, LengthRead, engine.owner = "int",
         irq.at \in {15, 29}, RxNumbers(radio')
  PROVE  IrqEnds
<1>0. engine.op.name \in {"head", "rest"}
  <2>1. \A name, len : Op(name, len).name = name
    BY DEF Op
  <2>2. QED
    BY <2>1 DEF EndsInTime, Ends, IrqAsked, HeadChunk
<1>1. /\ radio'.air = radio.air /\ radio'.len = radio.len
      /\ radio'.receiving = radio.receiving /\ radio'.mode = radio.mode
      /\ radio'.pending = radio.pending
  BY <1>0 DEF EndsInTime, RxEnds, Reads
<1>2. /\ Inside(irq, radio', radio.pending, TRUE)
      /\ Told(irq, radio', TRUE, engine'.recv_pkt_len)
  <2>1. CASE irq.at = 29
    BY <2>1, EndMore
  <2>2. CASE irq.at = 15 /\ irq.almost_full
    BY <2>2, EndHead
  <2>3. CASE irq.at = 15 /\ ~irq.almost_full
    <3>1. /\ ~(irq.at \in Opening) /\ ~Asked(irq, TRUE) /\ irq.at \notin Rest
          /\ ~AskedMore(irq, TRUE) /\ ~HasMore(irq, TRUE) /\ irq.at # 27
      BY <2>3 DEF Opening, Asked, AskedMore, Rest, HasMore
    <3>2. QED
      BY <3>1 DEF Inside, Told
  <2>4. QED
    BY <2>1, <2>2, <2>3
<1>3. Up
  BY DEF KnownBefore, Down, Closing
<1>4. Outset(irq, radio', radio.pending, TRUE)
  <2>1. irq.at \notin Rest /\ irq.at \notin {21, 22, 23, 24}
    BY DEF Rest
  <2>2. QED
    BY <2>1, <1>1, <1>3 DEF Outset, KnownBefore
<1>5. TxAlone(irq, main, radio', radio.pending, FALSE)
  BY <1>1 DEF KnownBefore, TxAlone, Silent, Live
<1>6. irq.at # 3
  OBVIOUS
<1>7. QED
  BY <1>2, <1>3, <1>4, <1>5, <1>6 DEF IrqEnds

(* What each end needs of the invariants.                                   *)
LEMMA EndFacts ==
  ASSUME ServedInv, TxInv, RxInv(radio), OperationEnds
  PROVE  /\ Ends /\ KnownBefore /\ LengthRead /\ SameMarks
         /\ main.at # 0 => RxEnds(engine.op)
         /\ main.at = 0 => radio' = RadioOff
         /\ engine.op.name \in StillOps \cup {"config", "fifo_reset", "start_rx", "start_tx",
                                              "head", "rest"}
         /\ News(radio) = radio.pending
<1> USE DEF ServedInv, TxInv
<1>1. main' = main /\ IrqWaits /\ Finish
  BY DEF OperationEnds, MainRests, MainWaits
<1>2. /\ irq.at \in EndWaits /\ SameOp /\ SameMarks
      /\ irq'.packets_incoming = irq.packets_incoming
      /\ StruckNow \/ Stands3
  BY <1>1, EndIrq
<1>3. engine.at = 52 /\ engine' = WithAnswer(engine.op)
  BY <1>1 DEF Finish
<1>4. engine.pending = {} /\ ~DoneForMain /\ ~DoneForIrq
  BY <1>3, NotServedIsNotDone DEF PendingShort
<1>f. DoneForMain = FALSE /\ DoneForIrq = FALSE
  BY <1>4 DEF DoneForMain, DoneForIrq, DoneFor
<1>5. /\ engine'.at = 0 /\ engine'.owner = engine.owner
      /\ engine.at = 52 /\ engine.owner \in {"main", "int"}
      /\ DoneForMain' = (engine.owner = "main") /\ DoneForIrq' = (engine.owner = "int")
      /\ engine'.pending = IF engine.op.name = "int_status" THEN radio.pending ELSE {}
      /\ engine.owner = "main" =>
           /\ main.at \in {6, 42, 52} =>
                engine.op.name \in {"config", "fifo_reset", "state", "command"}
           /\ main.at \in {62, 65, 72, 76, 77, 103} =>
                engine.op.name \in {"word", "length", "fill", "command"}
           /\ main.at = 92 => engine.op.name = "start_tx"
           /\ main.at \in {56, 97} => engine.op.name = "start_rx"
           /\ main.at \in MainWaiting
      /\ engine.owner = "int" =>
           /\ irq.at \in {3, 9, 12, 15, 16, 18, 21, 24, 29}
           /\ irq.at \notin {16, 18} => irq.start /\ engine.op = irq.op
  BY <1>1, <1>2, EndOwner DEF RxInv
<1>6. engine.owner = "int" => engine.op.name \in IrqOps
  BY <1>3 DEF EngineOps
<1>7. Ends
  BY <1>1, <1>2, <1>4, <1>5, <1>6 DEF Ends
<1>8. LengthRead
  BY <1>3 DEF WithAnswer, EngineShape, LengthRead
<1>9. News(radio) = radio.pending
  BY <1>4 DEF News
<1>10. KnownBefore
  BY <1>f, <1>9 DEF RxInv, KnownBefore
<1>11. main.at # 0 => RxEnds(engine.op)
  BY <1>1, EndRadio
<1>12. main.at = 0 => radio' = RadioOff
  BY <1>1 DEF Finish, RadioBecomes
<1>13. engine.op.name \in StillOps \cup {"config", "fifo_reset", "start_rx", "start_tx",
                                         "head", "rest"}
  <2>1. CASE engine.owner = "int"
    BY <2>1, <1>6 DEF IrqOps, StillOps
  <2>2. CASE engine.owner = "main"
    BY <2>2, <1>5 DEF MainWaiting, StillOps
  <2>3. QED
    BY <1>5, <2>1, <2>2
<1>14. QED
  BY <1>2, <1>7, <1>8, <1>9, <1>10, <1>11, <1>12, <1>13

(* The Irq machine is where it was.                                         *)
LEMMA EndKnown ==
  ASSUME EndsInTime, KnownBefore, LengthRead, Pulses, IrqAsked,
         RxNumbers(radio'), Stands3, irq.at \notin {16, 18}
  PROVE  Known(radio)'
<1>n. News(radio)' = radio.pending
  BY EndNews
<1>1. CASE engine.owner = "main"
  <2>1. DoneForMain' = TRUE /\ DoneForIrq' = FALSE
    BY <1>1 DEF EndsInTime, Ends
  <2>2. MainLeaves
    <3>1. main.at \in {6, 42, 52, 56, 62, 65, 72, 76, 77, 103, 92, 97}
      BY <1>1 DEF EndsInTime, Ends, MainWaiting
    <3>2. QED
      BY <1>1, <3>1, EndSetUp, EndListen, EndBusy, EndTransmit, EndReturn
  <2>3. engine'.recv_pkt_len = engine.recv_pkt_len /\ engine'.pending = {}
    <3>1. engine.op.name \notin {"head", "int_status"}
      BY <1>1 DEF EndsInTime, Ends, MainWaiting
    <3>2. QED
      BY <3>1 DEF LengthRead, EndsInTime, Ends
  <2>s. irq'.packets_incoming = irq.packets_incoming /\ main' = main
    BY DEF EndsInTime, Ends
  <2>4. Inside(irq', radio', radio.pending, FALSE)
    BY <2>2, <2>s, StandsSame DEF MainLeaves
  <2>5. Told(irq', radio', FALSE, engine.recv_pkt_len)
    BY <2>2, <2>s, StandsSame DEF MainLeaves
  <2>6. Up' => Outset(irq', radio', radio.pending, FALSE)
    BY <2>2, <2>s, StandsSame DEF MainLeaves
  <2>7. TxAlone(irq', main', radio', radio.pending, TRUE)
    BY <2>2, <2>s, StandsSame DEF MainLeaves
  <2>8. Down(radio)'
    <3>1. main'.at # 0
      BY <2>s DEF EndsInTime
    <3>2. ~Up' => irq'.at \in {0, 1, 2, 3} \cup Closing /\ ~Follows(irq') /\ ~main'.enable_irq
      BY <2>2, <2>s DEF MainLeaves, Stands3, Follows
    <3>3. ASSUME ~Up', irq'.at \in {1, 2, 3} \/ (irq'.at = 0 /\ irq'.packets_incoming = 1)
          PROVE  Dark(radio') /\ engine'.pending = {}
      BY <2>2, <2>3, <2>s, <3>3 DEF MainLeaves, Stands3
    <3>4. QED
      BY <3>1, <3>2, <3>3 DEF Down
  <2>9. EngineFollows(radio)'
    <3>1. irq'.at \notin {14, 28}
      BY DEF Stands3, EndsInTime, Ends, EndWaits
    <3>2. QED
      BY <2>1, <3>1 DEF EngineFollows
  <2>10. QED
    BY <1>n, <2>1, <2>3, <2>4, <2>5, <2>6, <2>7, <2>8, <2>9 DEF Known
<1>2. CASE engine.owner = "int"
  <2>1. DoneForMain' = FALSE /\ DoneForIrq' = TRUE
    BY <1>2 DEF EndsInTime, Ends
  <2>2. IrqEnds
    <3>1. irq.at \in {3, 9, 12, 24, 15, 29, 21}
      BY <1>2 DEF EndsInTime, Ends
    <3>2. QED
      BY <1>2, <3>1, EndLook, EndRestart, EndChunks
  <2>s. irq'.packets_incoming = irq.packets_incoming /\ main' = main
    BY DEF EndsInTime, Ends
  <2>u. Up' <=> Up
    <3>1. engine.owner # "main"
      BY <1>2
    <3>2. QED
      BY <3>1, EndUp DEF KnownBefore
  <2>4. Inside(irq', radio', radio.pending, TRUE)
    BY <2>2, <2>s, StandsSame DEF IrqEnds
  <2>5. Told(irq', radio', TRUE, engine'.recv_pkt_len)
    BY <2>2, <2>s, StandsSame DEF IrqEnds
  <2>6. Up' => Outset(irq', radio', radio.pending, TRUE)
    BY <2>2, <2>s, <2>u, StandsSame DEF IrqEnds
  <2>7. TxAlone(irq', main', radio', radio.pending, FALSE)
    BY <2>2, <2>s, StandsSame DEF IrqEnds
  <2>8. Down(radio)'
    <3>1. main'.at # 0
      BY <2>s DEF EndsInTime
    <3>2. ~Up' => irq'.at \in {0, 1, 2, 3} \cup Closing /\ ~Follows(irq') /\ ~main'.enable_irq
      BY <2>2, <2>s, <2>u DEF IrqEnds, Stands3, Follows
    <3>3. ASSUME ~Up', irq'.at \in {1, 2, 3} \/ (irq'.at = 0 /\ irq'.packets_incoming = 1)
          PROVE  Dark(radio') /\ engine'.pending = {}
      BY <2>2, <2>s, <2>u, <3>3 DEF IrqEnds, Stands3
    <3>4. QED
      BY <3>1, <3>2, <3>3 DEF Down
  <2>9. EngineFollows(radio)'
    <3>1. irq'.at \notin {14, 28} /\ irq'.at = irq.at
      BY DEF Stands3, EndsInTime, Ends, EndWaits
    <3>2. QED
      BY <2>2, <3>1 DEF EngineFollows, IrqEnds
  <2>10. QED
    BY <1>n, <2>1, <2>4, <2>5, <2>6, <2>7, <2>8, <2>9 DEF Known
<1>3. QED
  BY <1>1, <1>2 DEF EndsInTime, Ends

(* The end of an operation that the radio did.                              *)
LEMMA EndRxInTime ==
  ASSUME ServedInv, TxInv, RxInv(radio), OperationEnds, main.at # 0
  PROVE  RxInv(radio)'
<1>1. /\ EndsInTime /\ KnownBefore /\ LengthRead
      /\ engine.op.name \in StillOps \cup {"config", "fifo_reset", "start_rx", "start_tx",
                                           "head", "rest"}
      /\ News(radio) = radio.pending
  BY EndFacts DEF EndsInTime
<1>2. RxNumbers(radio')
  BY <1>1, EndNumbers DEF KnownBefore, EndsInTime, Ends
<1>3. Registers(irq')
  BY <1>1, EndRegisters DEF KnownBefore, EndsInTime
<1>4. TxGuards' /\ IrqAsked' /\ Bounds(radio)'
  BY <1>1, EndTxGuards, EndAsked, EndBounds
     DEF KnownBefore, EndsInTime, LengthRead, TxInv
<1>5. Commanded'
  BY <1>1 DEF EndsInTime, Ends, RxInv, Commanded
<1>6. Known(radio)'
  <2>1. CASE irq'.at \in {16, 18}
    <3>1. Up => (radio.receiving => radio.mode = "rx")
      BY <1>1 DEF KnownBefore, Outset
    <3>2. Up' => (radio'.receiving => radio'.mode = "rx")
      BY <3>1, <1>1, EndReceiving DEF KnownBefore
    <3>3. QED
      BY <2>1, <3>2, <1>1, EndAside
  <2>2. CASE irq'.at \notin {16, 18}
    <3>1. Stands3 /\ irq.at \notin {16, 18}
      BY <1>1, <2>2 DEF EndsInTime, Ends, StruckNow, Stands3
    <3>2. QED
      BY <3>1, <1>1, <1>2, EndKnown DEF KnownBefore, TxInv
  <2>3. QED
    BY <2>1, <2>2
<1>7. QED
  BY <1>2, <1>3, <1>4, <1>5, <1>6 DEF Known, RxInv

(* One that ends while the radio is shut down.                              *)
LEMMA EndRxOff ==
  ASSUME ServedInv, TxInv, RxInv(radio), OperationEnds, main.at = 0
  PROVE  RxInv(radio)'
<1>1. /\ Ends /\ KnownBefore /\ LengthRead /\ radio' = RadioOff
      /\ News(radio) = radio.pending
  BY EndFacts
<1>2. RxNumbers(radio')
  BY <1>1, RxShutDown DEF RxInv, TxInv
<1>o. /\ radio'.mode = "off" /\ radio'.pending = {} /\ radio'.air = 0 /\ radio'.rxfifo = 0
      /\ ~radio'.receiving
  BY <1>1 DEF RadioOff
<1>3. Registers(irq')
  BY <1>1, EndRegisters DEF KnownBefore
<1>4. TxGuards' /\ IrqAsked' /\ Commanded'
  BY <1>1, EndTxGuards, EndAsked DEF KnownBefore, LengthRead, TxInv, RxInv, Commanded, Ends
<1>5. engine.owner = "int" /\ ~Up /\ ~Up'
  <2>1. engine.owner = "int"
    BY <1>1 DEF Ends, MainWaiting
  <2>2. QED
    BY <2>1, <1>1 DEF Ends, Up
<1>6. irq.at \in {0, 1, 2, 3} \cup Closing /\ ~Follows(irq) /\ irq.at # 3
  <2>1. irq.at \in {0, 1, 2, 3} \cup Closing /\ ~Follows(irq)
    BY <1>1, <1>5 DEF KnownBefore, Down
  <2>2. irq.at # 3
    <3>1. irq.at = 3 => engine.op.name = "int_status"
      BY <1>1, <1>5 DEF Ends, KnownBefore, IrqAsked
    <3>2. CanFinish(engine.op)
      BY DEF OperationEnds, Finish
    <3>3. engine.op.name # "int_status"
      BY <3>2 DEF CanFinish, CtsOps
    <3>4. QED
      BY <3>1, <3>3
  <2>3. QED
    BY <2>1, <2>2
<1>7. irq'.at \in {0, 1, 2} \cup Closing /\ ~Follows(irq')
  BY <1>1, <1>6 DEF Ends, StruckNow, Stands3, Follows, Closing
<1>8. engine'.pending = {} /\ engine'.at = 0 /\ main'.at = 0
  <2>1. engine.op.name # "int_status"
    BY DEF OperationEnds, Finish, CanFinish, CtsOps
  <2>2. QED
    BY <2>1, <1>1 DEF Ends
<1>9. /\ ~(irq'.at \in Opening) /\ ~Asked(irq, DoneForIrq)'
      /\ ~HasMore(irq, DoneForIrq)' /\ ~AskedMore(irq, DoneForIrq)' /\ irq'.at # 27
  BY <1>7 DEF Opening, Closing, Asked, HasMore, AskedMore
<1>10. Inside(irq, radio, News(radio), DoneForIrq)'
  BY <1>7, <1>9 DEF Inside
<1>11. Told(irq, radio, DoneForIrq, engine.recv_pkt_len)'
  BY <1>7, <1>9 DEF Told
<1>12. Down(radio)'
  BY <1>7, <1>8 DEF Down, Closing
<1>13. TxAlone(irq, main, radio, News(radio), DoneForMain)'
  <2>1. News(radio)' = {}
    BY <1>8, <1>o DEF News
  <2>2. ~Answered4(main, DoneForMain)'
    BY <1>8 DEF Answered4, OnAir
  <2>3. QED
    BY <2>1, <2>2, <1>o DEF TxAlone
<1>14. EngineFollows(radio)'
  BY <1>7, <1>o DEF EngineFollows, Closing
<1>15. Bounds(radio)'
  <2>1. DoneForIrq'
    BY <1>1, <1>5 DEF Ends
  <2>2. QED
    BY <2>1, <1>8 DEF Bounds
<1>16. QED
  BY <1>2, <1>3, <1>4, <1>5, <1>10, <1>11, <1>12, <1>13, <1>14, <1>15 DEF RxInv

(* The end of an operation keeps the invariant, in every state of the Main  *)
(* machine.                                                                 *)
LEMMA EndRx ==
  ASSUME ServedInv, TxInv, RxInv(radio), OperationEnds
  PROVE  RxInv(radio)'
  BY EndRxInTime, EndRxOff

(* No step breaks it.                                                       *)
LEMMA NextRx ==
  ASSUME LongFrames = FALSE, TRUE \notin EmptyCommands, NoEmptyPart,
         ServedInv, TxInv, RxInv(radio), [WirelessNext]_vars
  PROVE  RxInv(radio)'
<1>1. CASE Edge
  BY <1>1, EdgeRx, HeldRx
<1>2. CASE OperationEnds
  BY <1>2, EndRx
<1>3. CASE CtsError \/ NewConfig
  BY <1>3, ResetRx DEF CtsError, NewConfig
<1>4. CASE UNCHANGED vars
  BY <1>4 DEF vars, RxInv, Registers, Up, Down, TxGuards, IrqAsked, EngineFollows, Bounds,
              Bounded, Commanded, News, DoneForIrq, DoneForMain, DoneFor
<1>5. QED
  BY <1>1, <1>2, <1>3, <1>4 DEF WirelessNext

(* The FIFO of the transmitter does not hold more than it has room for,     *)
(* even when the Main machine has just given a frame up.                    *)
Holds(r) == r.txfifo <= MAX_FIFO_SIZE

(* No step puts more into it.                                               *)
LEMMA NextHolds ==
  ASSUME ServedInv, TxInv, TxInv', Holds(radio), [WirelessNext]_vars
  PROVE  Holds(radio')
<1>c. MAX_FIFO_SIZE \in Nat
  BY Constants
<1>n. radio.txfifo \in Nat /\ radio'.txfifo \in Nat
  BY DEF TxInv, RadioShape
<1>o. Holds(RadioOff)
  BY <1>c DEF Holds, RadioOff
<1>1. CASE Edge
  <2>1. \/ main.at = 0 /\ radio' = RadioOff
        \/ main.at # 0 /\ radio' = radio
        \/ Unseen \/ ByteOut \/ FrameOut
    BY <1>1, EdgeOutside DEF Edge, ServedInv, TxInv
  <2>2. CASE Unseen \/ ByteOut \/ FrameOut
    <3>1. radio'.txfifo <= radio.txfifo
      BY <2>2, <1>n DEF Unseen, ByteOut, FrameOut
    <3>2. QED
      BY <3>1, <1>n, <1>c DEF Holds
  <2>3. QED
    BY <2>1, <2>2, <1>o
<1>2. CASE OperationEnds
  <2>1. main' = main /\ Finish
    BY <1>2 DEF OperationEnds, MainRests, MainWaits
  <2>2. CASE main.at = 0
    BY <2>1, <2>2, <1>o DEF Finish, RadioBecomes
  <2>3. CASE main.at # 0
    BY <2>1, <2>3 DEF TxInv, Counted, Holds
  <2>4. QED
    BY <2>2, <2>3
<1>3. CASE CtsError \/ NewConfig
  BY <1>3 DEF CtsError, NewConfig, ResetAll
<1>4. CASE UNCHANGED vars
  BY <1>4 DEF vars
<1>5. QED
  BY <1>1, <1>2, <1>3, <1>4 DEF WirelessNext

(* The chunks that are read of a packet never take more out of the FIFO of  *)
(* the radio than it holds, and those of a frame never put in more than     *)
(* there is room for: for every threshold, every length of a packet and of  *)
(* a frame, as long as a frame takes less than the 30 ms of the watchdog,   *)
(* no command of the CPU is empty and no packet leaves an empty last part.  *)
THEOREM FifosAlwaysFit ==
  ASSUME LongFrames = FALSE, TRUE \notin EmptyCommands,
         \A l \in PacketLengths, k \in Nat : l + 2 # k * RX_THRESHOLD
  PROVE  WirelessSpec => []FifosFit
<1> DEFINE Inv == ServedInv /\ TxInv /\ RxInv(radio) /\ Holds(radio)
<1>e. NoEmptyPart
  BY DEF NoEmptyPart
<1>1. WirelessInit => Inv
  <2> SUFFICES ASSUME WirelessInit
               PROVE  Inv
    OBVIOUS
  <2>1. MAX_FIFO_SIZE \in Nat
    BY Constants
  <2>2. Holds(radio)
    BY <2>1 DEF WirelessInit, RadioOff, Holds
  <2>3. QED
    BY <2>2, InitServed, InitTx, InitRx
<1>2. Inv /\ [WirelessNext]_vars => Inv'
  <2> SUFFICES ASSUME Inv, [WirelessNext]_vars
               PROVE  Inv'
    OBVIOUS
  <2>1. ServedInv' /\ TxInv'
    BY NextTx
  <2>2. RxInv(radio)'
    BY <1>e, NextRx
  <2>3. Holds(radio)'
    BY <2>1, NextHolds
  <2>4. QED
    BY <2>1, <2>2, <2>3
<1>3. Inv => FifosFit
  BY DEF RxInv, RxNumbers, Holds, FifosFit
<1>4. QED
  BY <1>1, <1>2, <1>3, PTL DEF WirelessSpec

(* What SRAM_ctrl has stored since the mark of a packet of which t bytes    *)
(* have been taken: the sync word, the length with the RSSI, the bytes.     *)
Stored(t) == 1 + (t + 1) \div 2
(* No flag is left up that keeps it from storing, and the Irq machine is    *)
(* past the mark.                                                           *)
Clean == ~irq.Pkt_Received_flag /\ ~irq.Crc_Error_Rollback
Noted == \/ irq.at \in {9, 10, 11, 12, 13, 14, 15, 27, 28, 29, 30}
         \/ irq.at \in Rest /\ Follows(irq)
Count ==
  /\ irq.at \in {9, 10, 11} \/ (irq.at = 12 /\ ~DoneForIrq) => ram.words = 0
  /\ irq.at = 12 /\ DoneForIrq => ram.words = 1
  /\ Asked(irq, DoneForIrq) =>
       ram.words = IF irq.almost_full \/ irq.packets_incoming = 1 THEN 1
                   ELSE Stored(irq.Data_Recv_Pos)
  /\ HasMore(irq, DoneForIrq) \/ (irq.at \in Rest /\ Follows(irq)) =>
       ram.words = Stored(irq.Data_Recv_Pos)
  /\ AskedMore(irq, DoneForIrq) => ram.words = Stored(irq.Data_Recv_Pos - RX_THRESHOLD)
  /\ irq.at = 15 /\ DoneForIrq /\ ~irq.almost_full => ram.words = 2 + Words(radio.len)
RamInv ==
  /\ irq.at \in {7, 8} => irq.Pkt_Start_flag
  /\ Noted => ~irq.Pkt_Start_flag
  /\ Noted /\ Clean => ram.marked /\ Count

(* What the flags make of the words w that a step leaves.                   *)
RamTurns(w) ==
  /\ irq.Pkt_Start_flag => ram'.marked /\ ram'.words = 0
  /\ ~irq.Pkt_Start_flag /\ Clean /\ ram.marked => ram'.marked /\ ram'.words = w

(* The flags do nothing else.                                               *)
LEMMA RamFlags ==
  ASSUME NEW r, RamBecomes(r), DOMAIN r = {"fifo_i", "words", "marked"}
  PROVE  RamTurns(r.words)
<1> DEFINE start == irq.Pkt_Start_flag
           kept == ram.marked /\ ~irq.Crc_Error_Rollback /\ ~irq.Pkt_Received_flag
<1>1. ram' = [r EXCEPT !.marked = start \/ kept,
                       !.words = IF kept /\ ~start THEN r.words ELSE 0]
  BY DEF RamBecomes
<1>2. ram'.marked = (start \/ kept)
  BY <1>1
<1>3. ram'.words = IF kept /\ ~start THEN r.words ELSE 0
  BY <1>1
<1>4. start => ram'.marked /\ ram'.words = 0
  BY <1>2, <1>3
<1>5. ~start /\ kept => ram'.marked /\ ram'.words = r.words
  BY <1>2, <1>3
<1>6. QED
  BY <1>4, <1>5 DEF RamTurns, Clean

(* An edge stores nothing, ...                                              *)
LEMMA RamAtEdge ==
  ASSUME RamShape, EngineStep
  PROVE  RamTurns(ram.words)
<1>1. CASE RamBecomes(ram)
  BY <1>1, RamFlags DEF RamShape
<1>2. CASE SlaveStores
  <2>1. PICK l \in FrameLengths :
          RamBecomes([ram EXCEPT !.fifo_i = @ \o FrameWords(l)])
    BY <1>2 DEF SlaveStores
  <2> DEFINE q == ram.fifo_i \o FrameWords(l)
             r == [ram EXCEPT !.fifo_i = q]
  <2>2. RamBecomes(r)
    BY <2>1
  <2> HIDE DEF q
  <2>3. DOMAIN r = {"fifo_i", "words", "marked"} /\ r.words = ram.words
    BY DEF RamShape
  <2> HIDE DEF r
  <2>4. QED
    BY <2>2, <2>3, RamFlags
<1>3. QED
  BY <1>1, <1>2 DEF EngineStep, HeldInReset, Clear, Choose, Run, Outside

(* ... and the end of an operation these words.                             *)
LEMMA RamAtEnd ==
  ASSUME RamShape, Finish
  PROVE  /\ engine.op.name = "sync" => RamTurns(ram.words + 1)
         /\ engine.op.name = "head" =>
              RamTurns(ram.words + 1 + Words(Taken(engine.op) - 1))
         /\ engine.op.name = "rest" => RamTurns(ram.words + Words(Taken(engine.op)))
         /\ engine.op.name \notin {"sync", "head", "rest"} => RamTurns(ram.words)
<1> DEFINE op == engine.op
           n == Words(Taken(op) - 1)
           m == Words(Taken(op))
           k == FilledWords(op)
<1>1. RamBecomes(RamAfter(op))
  BY DEF Finish
<1>2. DOMAIN ram = {"fifo_i", "words", "marked"}
  BY DEF RamShape
<1>3. ASSUME NEW w, NEW r, r = [ram EXCEPT !.words = w], RamAfter(op) = r
      PROVE  RamTurns(w)
  <2>1. DOMAIN r = {"fifo_i", "words", "marked"} /\ r.words = w
    BY <1>2, <1>3
  <2>2. QED
    BY <2>1, <1>1, <1>3, RamFlags
<1>4. ASSUME NEW f, NEW r, r = [ram EXCEPT !.fifo_i = f], RamAfter(op) = r
      PROVE  RamTurns(ram.words)
  <2>1. DOMAIN r = {"fifo_i", "words", "marked"} /\ r.words = ram.words
    BY <1>2, <1>4
  <2>2. QED
    BY <2>1, <1>1, <1>4, RamFlags
<1>5. op.name = "sync" => RamTurns(ram.words + 1)
  <2>1. op.name = "sync" => RamAfter(op) = [ram EXCEPT !.words = ram.words + 1]
    BY DEF RamAfter
  <2>2. QED
    BY <2>1, <1>3
<1>6. op.name = "head" => RamTurns(ram.words + 1 + n)
  <2>1. op.name = "head" => RamAfter(op) = [ram EXCEPT !.words = ram.words + 1 + n]
    BY DEF RamAfter
  <2>2. QED
    BY <2>1, <1>3
<1>7. op.name = "rest" => RamTurns(ram.words + m)
  <2>1. op.name = "rest" => RamAfter(op) = [ram EXCEPT !.words = ram.words + m]
    BY DEF RamAfter
  <2>2. QED
    BY <2>1, <1>3
<1>8. op.name = "word" => RamTurns(ram.words)
  <2>1. op.name = "word" => RamAfter(op) = [ram EXCEPT !.fifo_i = Tail(ram.fifo_i)]
    BY DEF RamAfter
  <2>2. QED
    BY <2>1, <1>4
<1>9. op.name = "fill" => RamTurns(ram.words)
  <2>1. op.name = "fill" =>
          RamAfter(op) = [ram EXCEPT !.fifo_i = SubSeq(ram.fifo_i, k + 1, Len(ram.fifo_i))]
    BY DEF RamAfter
  <2>2. QED
    BY <2>1, <1>4
<1>10. op.name \notin {"sync", "head", "rest", "word", "fill"} => RamTurns(ram.words)
  <2>1. op.name \notin {"sync", "head", "rest", "word", "fill"} => RamAfter(op) = ram
    BY DEF RamAfter
  <2>2. QED
    BY <2>1, <1>1, <1>2, RamFlags
<1>11. QED
  BY <1>5, <1>6, <1>7, <1>8, <1>9, <1>10

(* The words follow the Irq machine: an edge takes none of them away, and   *)
(* counts the bytes of a chunk when it asks for it.                         *)
LEMMA EdgeRam ==
  ASSUME Registers(irq), Inside(irq, radio', News(radio'), DoneForIrq),
         RxNumbers(radio'), EngineFollows(radio'), RxDoes, RamInv, RamTurns(ram.words),
         ~DoneForIrq'
  PROVE  RamInv'
<1> USE DEF StaysTo, TurnsTo, TakesIn
<1>c. RX_THRESHOLD \in Nat
  BY RxConstants
<1>s. SUFFICES ASSUME irq'.at # 16
               PROVE  RamInv'
  <2>1. CASE irq'.at = 16
    BY <2>1 DEF RamInv, Noted, Rest
  <2>2. QED
    BY <2>1
(* Where the packet has been marked and nothing turns the flags.            *)
<1>k. ASSUME SameMarks, Noted
      PROVE  /\ ~irq'.Pkt_Start_flag /\ (Clean' <=> Clean)
             /\ Clean => ram'.marked /\ ram'.words = ram.words
  BY <1>k DEF SameMarks, Marks, RamInv, RamTurns, Clean
(* A step between two noted states keeps the flags and the words.           *)
<1>m. ASSUME SameMarks, Noted, irq'.at \notin {7, 8}, Noted', Clean /\ Count => Count'
      PROVE  RamInv'
  BY <1>m, <1>k DEF RamInv
<1>f. ASSUME SameMarks, ~Noted', irq'.at \notin {7, 8}
      PROVE  RamInv'
  BY <1>f DEF RamInv
<1>1. CASE RxWaits
  <2>0. SameMarks /\ irq'.at = irq.at /\ irq'.almost_full = irq.almost_full
        /\ irq'.packets_incoming = irq.packets_incoming
        /\ irq'.Data_Recv_Pos = irq.Data_Recv_Pos
        /\ irq.at \in {0, 1, 3, 5, 7, 9, 12, 15, 16, 18, 21, 24, 29}
        /\ (irq.at \in {3, 9, 12, 15, 18, 21, 24, 29} => ~DoneForIrq)
    BY <1>1, <1>s DEF RxWaits
  <2>1. CASE Noted
    <3>1. Noted' /\ irq'.at \notin {7, 8}
      BY <2>0, <2>1 DEF Noted, Rest, Follows
    <3>2. Clean /\ Count => Count'
      BY <2>0, <2>1, <1>k DEF Count, Asked, AskedMore, HasMore, Follows
    <3>3. QED
      BY <2>0, <2>1, <3>1, <3>2, <1>m
  <2>2. CASE ~Noted /\ irq.at # 7
    <3>1. ~Noted' /\ irq'.at \notin {7, 8}
      BY <2>0, <2>2 DEF Noted, Rest, Follows
    <3>2. QED
      BY <2>0, <3>1, <1>f
  <2>3. CASE irq.at = 7
    BY <2>0, <2>3 DEF RamInv, Noted, Rest, SameMarks, Marks
  <2>4. QED
    BY <2>1, <2>2, <2>3
<1>2. CASE RxWakes
  <2>0. SameMarks /\ irq.at = 0 /\ irq'.at = 1
        /\ irq'.packets_incoming = irq.packets_incoming
        /\ irq'.Data_Recv_Pos = irq.Data_Recv_Pos
    BY <1>2, <1>s DEF RxWakes
  <2>1. QED
    BY <2>0, <1>k, <1>m, <1>f DEF Noted, Rest, Follows, Count, Asked, AskedMore, HasMore
<1>3. CASE RxAsks
  <2>0. SameMarks /\ irq'.almost_full = irq.almost_full
        /\ irq'.packets_incoming = irq.packets_incoming
        /\ irq'.Data_Recv_Pos = irq.Data_Recv_Pos
    BY <1>3, <1>s DEF RxAsks
  <2>1. CASE irq.at = 1 /\ irq'.at = 2
    BY <2>0, <2>1, <1>k, <1>m, <1>f
       DEF Noted, Rest, Follows, Count, Asked, AskedMore, HasMore
  <2>2. CASE irq.at = 7 /\ irq'.at = 8
    BY <2>0, <2>2 DEF RamInv, Noted, Rest, SameMarks, Marks
  <2>3. CASE irq.at = 10 /\ irq'.at = 11
    BY <2>0, <2>3, <1>k, <1>m DEF Noted, Rest, Count, Asked, AskedMore, HasMore
  <2>4. CASE irq'.at \in {17, 23}
    BY <2>0, <2>4, <1>f DEF Noted, Rest
  <2>5. QED
    BY <1>3, <1>s, <2>1, <2>2, <2>3, <2>4 DEF RxAsks
<1>4. CASE RxStarts
  <2>1. irq'.at = 21
    BY <1>4, <1>s DEF RxStarts
  <2>2. QED
    BY <2>1 DEF RamInv, Noted, Rest
<1>5. CASE RxWalks
  <2>0. SameMarks /\ irq'.almost_full = irq.almost_full
        /\ irq'.packets_incoming = irq.packets_incoming
        /\ irq'.Data_Recv_Pos = irq.Data_Recv_Pos
    BY <1>5, <1>s DEF RxWalks
  <2>1. CASE irq.at \in Rest /\ irq'.at \in Rest
    BY <2>0, <2>1, <1>k, <1>m, <1>f
       DEF Noted, Rest, Follows, Count, Asked, AskedMore, HasMore
  <2>2. CASE irq.at = 11 /\ irq'.at = 12
    BY <2>0, <2>2, <1>k, <1>m DEF Noted, Rest, Count, Asked, AskedMore, HasMore
  <2>3. CASE irq.at = 14 /\ irq'.at = 15
    <3>1. Noted /\ Noted' /\ irq'.at \notin {7, 8}
      BY <2>3 DEF Noted
    <3>2. Clean /\ Count => Count'
      BY <2>0, <2>3, <3>1, <1>k DEF Count, Rest, Asked, AskedMore, HasMore
    <3>3. QED
      BY <2>0, <3>1, <3>2, <1>m
  <2>4. CASE irq.at = 28 /\ irq'.at = 29
    <3>1. Noted /\ Noted' /\ irq'.at \notin {7, 8}
      BY <2>4 DEF Noted
    <3>2. Clean /\ Count => Count'
      BY <2>0, <2>4, <3>1, <1>k DEF Count, Rest, Asked, AskedMore, HasMore
    <3>3. QED
      BY <2>0, <3>1, <3>2, <1>m
  <2>5. CASE irq'.at = 24
    BY <2>0, <2>5, <1>f DEF Noted, Rest
  <2>6. QED
    BY <1>5, <1>s, <2>1, <2>2, <2>3, <2>4, <2>5 DEF RxWalks, Rest
<1>6. CASE RxMarks
  <2>1. CASE irq.at = 6 /\ irq'.at = 7
    BY <1>6, <2>1 DEF RxMarks, MarksTurn, RamInv, Noted, Rest
  <2>2. CASE irq.at = 8 /\ irq'.at = 9
    <3>1. irq.Pkt_Start_flag /\ ~irq'.Pkt_Start_flag
      BY <1>6, <2>2 DEF RxMarks, MarksTurn, RamInv
    <3>2. ram'.marked /\ ram'.words = 0
      BY <3>1 DEF RamTurns
    <3>3. Count'
      BY <2>2, <3>2 DEF Count, Rest, Asked, AskedMore, HasMore
    <3>4. QED
      BY <2>2, <3>1, <3>2, <3>3 DEF RamInv
  <2>3. CASE irq'.at \in {18, 20}
    BY <2>3 DEF RamInv, Noted, Rest
  <2>4. QED
    BY <1>6, <1>s, <2>1, <2>2, <2>3 DEF RxMarks
<1>7. CASE RxTakes
  <2>0. SameMarks /\ DoneForIrq
    BY <1>7 DEF RxTakes
  <2>s. irq.at # 24 => irq'.almost_full = irq.almost_full
                       /\ irq'.packets_incoming = irq.packets_incoming
                       /\ irq'.Data_Recv_Pos = irq.Data_Recv_Pos
    BY <1>7, <1>s DEF RxTakes
  <2>1. CASE irq.at = 9 /\ irq'.at = 10
    BY <2>0, <2>1, <1>k, <1>m DEF Noted, Rest, Count, Asked, AskedMore, HasMore
  <2>2. CASE irq.at = 12 /\ irq'.at = 13
    <3>1. Noted /\ Noted' /\ irq'.at \notin {7, 8}
      BY <2>2 DEF Noted
    <3>2. irq.almost_full \/ irq.packets_incoming = 1
      BY <2>2 DEF Registers, Within, Opening
    <3>3. Clean /\ Count => Count'
      BY <2>0, <2>s, <2>2, <3>1, <3>2, <1>k DEF Count, Rest, Asked, AskedMore, HasMore
    <3>4. QED
      BY <2>0, <3>1, <3>3, <1>m
  <2>3. CASE (irq.at = 29 \/ (irq.at = 15 /\ irq.almost_full)) /\ irq'.at = 30
    <3>1. Noted /\ Noted' /\ irq'.at \notin {7, 8}
      BY <2>3 DEF Noted
    <3>2. Clean /\ Count => Count'
      BY <2>0, <2>s, <2>3, <3>1, <1>k DEF Count, Rest, Asked, AskedMore, HasMore
    <3>3. QED
      BY <2>0, <3>1, <3>2, <1>m
  <2>4. CASE irq'.at \in {19, 20, 22} \/ (irq'.at = 0 /\ irq'.packets_incoming = 0)
    BY <2>0, <2>4, <1>f DEF Noted, Rest, Follows
  <2>5. QED
    BY <1>7, <1>s, <2>1, <2>2, <2>3, <2>4 DEF RxTakes
<1>8. CASE RxReads
  <2>0. SameMarks /\ irq.at = 13 /\ irq'.at = 14 /\ irq'.almost_full = irq.almost_full
        /\ irq'.packets_incoming = irq.packets_incoming
        /\ (~irq.almost_full => irq'.Data_Recv_Pos = irq.Data_Recv_Pos)
    BY <1>8, <1>s DEF RxReads
  <2>1. Noted /\ Noted' /\ irq'.at \notin {7, 8}
    BY <2>0 DEF Noted
  <2>2. Clean /\ Count => Count'
    BY <2>0, <2>1, <1>k DEF Count, Rest, Asked, AskedMore, HasMore
  <2>3. QED
    BY <2>0, <2>1, <2>2, <1>m
<1>9. CASE RxReadsMore
  <2> DEFINE pos == irq.Data_Recv_Pos
             r == radio'
  <2>0. SameMarks /\ irq.at = 27 /\ irq'.at = 28
        /\ irq'.Data_Recv_Pos = (pos + RX_THRESHOLD) % 256
    BY <1>9, <1>s DEF RxReadsMore
  <2>1. Noted /\ Noted' /\ irq'.at \notin {7, 8}
    BY <2>0 DEF Noted
  <2>2. Amid(r, pos, News(r)) /\ ChunkWaits(r)
    BY <2>0 DEF Inside, HasMore
  <2>3. /\ pos \in 1 .. 255 /\ r.rxfifo >= RX_THRESHOLD
        /\ r.rxfifo + r.air + pos = r.len + 1
    BY <2>2 DEF Amid, Grid, Packet, ChunkWaits
  <2>n. r.rxfifo \in Nat /\ r.air \in Nat /\ r.len \in 0 .. 254
    BY DEF RxNumbers
  <2> HIDE DEF pos
  <2>4. pos + RX_THRESHOLD \in 0 .. 255
    BY <2>3, <2>n, <1>c
  <2>5. irq'.Data_Recv_Pos - RX_THRESHOLD = pos
    BY <2>0, <2>3, <2>4, <1>c
  <2>6. Clean /\ Count => ram'.words = Stored(pos)
    BY <2>0, <2>1, <1>k DEF Count, HasMore, pos
  <2>7. Clean /\ Count => ram'.words = Stored(irq'.Data_Recv_Pos - RX_THRESHOLD)
    BY <2>5, <2>6
  <2>8. Clean /\ Count => Count'
    BY <2>0, <2>7 DEF Count, Rest, Asked, AskedMore, HasMore
  <2>9. QED
    BY <2>0, <2>1, <2>8, <1>m
<1>10. CASE RxEndsChunk
  <2>0. SameMarks /\ irq.at = 30 /\ irq'.at = 0
        /\ irq'.packets_incoming = irq.packets_incoming
        /\ irq'.Data_Recv_Pos = irq.Data_Recv_Pos
    BY <1>10, <1>s DEF RxEndsChunk
  <2>1. QED
    BY <2>0, <1>k, <1>m, <1>f DEF Noted, Rest, Follows, Count, Asked, AskedMore, HasMore
<1>11. CASE SortsTx
  <2>0. SameMarks /\ irq.at = 3 /\ irq'.at \in {25, 4, 0}
        /\ irq'.packets_incoming = irq.packets_incoming
        /\ irq'.Data_Recv_Pos = irq.Data_Recv_Pos
    BY <1>11, <1>s DEF SortsTx
  <2>1. QED
    BY <2>0, <1>k, <1>m, <1>f DEF Noted, Rest, Follows, Count, Asked, AskedMore, HasMore
<1>12. CASE SortsCrc
  BY <1>12, <1>s DEF SortsCrc
<1>13. CASE SortsFull
  <2>0. SameMarks /\ irq.at = 3
    BY <1>13 DEF SortsFull
  <2>1. CASE irq'.at = 6
    BY <2>0, <2>1, <1>f DEF Noted, Rest
  <2>2. CASE Follows(irq) /\ irq'.at = 27 /\ irq'.Data_Recv_Pos = irq.Data_Recv_Pos
    <3>1. Noted /\ Noted' /\ irq'.at \notin {7, 8}
      BY <2>0, <2>2 DEF Noted, Rest
    <3>2. Clean /\ Count => Count'
      BY <2>0, <2>2, <3>1, <1>k DEF Count, Rest, Asked, AskedMore, HasMore
    <3>3. QED
      BY <2>0, <3>1, <3>2, <1>m
  <2>3. QED
    BY <1>13, <1>s, <2>1, <2>2 DEF SortsFull
<1>14. CASE SortsRx
  <2>0. SameMarks /\ irq.at = 3
    BY <1>14 DEF SortsRx
  <2>1. CASE irq'.at = 6
    BY <2>0, <2>1, <1>f DEF Noted, Rest
  <2>2. CASE /\ Follows(irq) /\ irq'.at = 13 /\ irq'.Data_Recv_Pos = irq.Data_Recv_Pos
             /\ ~irq'.almost_full /\ irq'.packets_incoming = irq.packets_incoming
    <3>1. Noted /\ Noted' /\ irq'.at \notin {7, 8}
      BY <2>0, <2>2 DEF Noted, Rest
    <3>2. Clean /\ Count => Count'
      BY <2>0, <2>2, <3>1, <1>k DEF Count, Rest, Asked, AskedMore, HasMore, Follows
    <3>3. QED
      BY <2>0, <3>1, <3>2, <1>m
  <2>3. QED
    BY <1>14, <1>s, <2>1, <2>2 DEF SortsRx
<1>15. CASE SortsSync
  <2>0. SameMarks /\ irq'.at = 0 /\ irq'.packets_incoming = 1
    BY <1>15, <1>s DEF SortsSync
  <2>1. QED
    BY <2>0, <1>f DEF Noted, Follows
<1>16. QED
  BY <1>1, <1>2, <1>3, <1>4, <1>5, <1>6, <1>7, <1>8, <1>9, <1>10, <1>11, <1>12, <1>13,
     <1>14, <1>15 DEF RxDoes

(* A chunk of a packet of which the beginning has been read.                *)
LEMMA EndStoresChunk ==
  ASSUME RxInv(radio), Ends, irq.at = 15, engine.op = irq.op, engine.owner = "int",
         Stands3, Count,
         engine.op.name = "head" =>
           ram'.words = ram.words + 1 + Words(Taken(engine.op) - 1),
         engine.op.name = "rest" => ram'.words = ram.words + Words(Taken(engine.op)),
         main.at # 0 => RxEnds(engine.op)
  PROVE  Count'
<1> DEFINE pos == irq.Data_Recv_Pos
           n == engine.recv_pkt_len
           op == engine.op
<1>c. RX_THRESHOLD \in Nat /\ RX_THRESHOLD > 2
  BY RxConstants
<1>e. RX_THRESHOLD % 2 = 0
  BY RxConstants
<1>o. \A name, len : Op(name, len).name = name /\ Op(name, len).len = len
  BY DEF Op
<1>0. /\ irq'.at = 15 /\ irq'.almost_full = irq.almost_full
      /\ irq'.Data_Recv_Pos = pos /\ DoneForIrq' /\ ~DoneForIrq
  BY DEF Ends, Stands3
<1>a. op = IF irq.almost_full THEN HeadChunk
           ELSE IF irq.packets_incoming = 1 THEN Op("head", 0)
           ELSE Op("rest", (n - pos + 1) % 256)
  BY DEF RxInv, IrqAsked
<1>w. ram.words = IF irq.almost_full \/ irq.packets_incoming = 1 THEN 1 ELSE Stored(pos)
  BY <1>0 DEF Count, Asked
<1>b. Bounded(radio, op)
  BY DEF RxInv, Bounds, Ends
<1>1. CASE irq.almost_full
  <2>1. op.name = "head" /\ op.len = RX_THRESHOLD - 2
    BY <1>1, <1>a, <1>o DEF HeadChunk
  <2>2. Taken(op) = RX_THRESHOLD - 2 + 1
    BY <2>1, <1>c DEF Taken
  <2>3. pos = RX_THRESHOLD - 1
    BY <1>1 DEF RxInv, Registers, Within
  <2>4. ram.words = 1 /\ ram'.words = ram.words + 1 + Words(Taken(op) - 1)
    BY <2>1, <1>1, <1>w
  <2>5. ram'.words = Stored(RX_THRESHOLD - 1)
    BY <2>2, <2>4, <1>c, <1>e DEF Stored, Words
  <2>6. QED
    BY <1>0, <1>1, <2>3, <2>5 DEF Count, Asked, AskedMore, HasMore, Rest
<1>2. CASE ~irq.almost_full /\ irq.packets_incoming = 1
  <2>1. op.name = "head" /\ op.len = 0
    BY <1>2, <1>a, <1>o
  <2>2. Taken(op) = radio.len + 1
    BY <2>1 DEF Taken
  <2>3. radio.len \in Nat
    BY DEF RxInv, RxNumbers
  <2>4. ram.words = 1 /\ ram'.words = ram.words + 1 + Words(Taken(op) - 1)
    BY <2>1, <1>2, <1>w
  <2>5. ram'.words = 2 + Words(radio.len)
    BY <2>2, <2>3, <2>4 DEF Words
  <2>6. radio'.len = radio.len
    BY <1>b, <2>1 DEF Bounded, Up, RxEnds, Reads
  <2>7. QED
    BY <1>0, <1>2, <2>5, <2>6 DEF Count, Asked, AskedMore, HasMore, Rest
<1>3. CASE ~irq.almost_full /\ irq.packets_incoming # 1
  <2>0. Follows(irq) /\ Asked(irq, DoneForIrq)
    <3>1. irq.packets_incoming # 0
      BY DEF RxInv, Registers, Within
    <3>2. QED
      BY <3>1, <1>0, <1>3 DEF Follows, Asked
  <2>1. op.name = "rest" /\ op.len = (n - pos + 1) % 256
    BY <1>3, <1>a, <1>o
  <2>2. op.len # 0 /\ radio'.len = radio.len
    BY <1>b, <2>1 DEF Bounded, Up, RxEnds, Reads
  <2>3. Amid(radio, pos, News(radio)) /\ ~radio.receiving /\ n = radio.len
    BY <1>3, <2>0 DEF RxInv, Inside, Told
  <2>p. pos % 2 = 1
    BY <2>3 DEF Amid, Grid
  <2>4. /\ pos \in 1 .. 255
        /\ radio.rxfifo + radio.air + pos = radio.len + 1 /\ radio.air = 0
        /\ radio.rxfifo \in Nat /\ radio.len \in 0 .. 254
    BY <2>3 DEF Amid, Grid, Packet, RxInv, RxNumbers
  <2> HIDE DEF pos
  <2>5. n - pos + 1 \in 0 .. 255
    <3>1. radio.len - pos + 1 = radio.rxfifo /\ radio.rxfifo <= 255
      BY <2>4
    <3>2. radio.rxfifo \in Nat
      BY <2>4
    <3>3. radio.rxfifo \in 0 .. 255
      BY <3>1, <3>2
    <3>4. QED
      BY <2>3, <3>1, <3>3
  <2>6. op.len = radio.len - pos + 1
    BY <2>1, <2>3, <2>5
  <2>7. Taken(op) = radio.len - pos + 1
    BY <2>1, <2>2, <2>6 DEF Taken
  <2>8. ram'.words = Stored(pos) + Words(radio.len - pos + 1)
    BY <2>1, <2>7, <1>3, <1>w DEF pos
  <2>9. ASSUME NEW p \in 1 .. 255, NEW l \in 0 .. 254, p % 2 = 1
        PROVE  Stored(p) + Words(l - p + 1) = 2 + Words(l)
    BY <2>9 DEF Stored, Words
  <2>10. ram'.words = 2 + Words(radio.len)
    BY <2>p, <2>4, <2>8, <2>9
  <2>11. QED
    BY <1>0, <1>3, <2>2, <2>10 DEF Count, Asked, AskedMore, HasMore, Rest
<1>4. QED
  BY <1>1, <1>2, <1>3

(* The end of an operation counts the words it has stored.                  *)
LEMMA EndRam ==
  ASSUME ServedInv, TxInv, RxInv(radio), RamInv, OperationEnds
  PROVE  RamInv'
<1>1. /\ Ends /\ KnownBefore /\ SameMarks
      /\ main.at # 0 => RxEnds(engine.op)
  BY EndFacts
<1>2. Finish
  BY DEF OperationEnds
<1>3. /\ engine.op.name = "sync" => RamTurns(ram.words + 1)
      /\ engine.op.name = "head" =>
           RamTurns(ram.words + 1 + Words(Taken(engine.op) - 1))
      /\ engine.op.name = "rest" => RamTurns(ram.words + Words(Taken(engine.op)))
      /\ engine.op.name \notin {"sync", "head", "rest"} => RamTurns(ram.words)
  BY <1>2, RamAtEnd DEF TxInv
<1>4. CASE StruckNow
  BY <1>4 DEF StruckNow, RamInv, Noted, Rest
<1>5. CASE Stands3 /\ ~Noted
  <2>1. ~Noted' /\ (irq'.at \in {7, 8} <=> irq.at \in {7, 8})
    BY <1>1, <1>5 DEF Stands3, Noted, Follows, Ends
  <2>2. QED
    BY <2>1, <1>1 DEF RamInv, SameMarks, Marks
<1>6. CASE Stands3 /\ Noted
  <2>0. /\ irq'.at = irq.at /\ irq'.almost_full = irq.almost_full
        /\ irq'.Data_Recv_Pos = irq.Data_Recv_Pos
        /\ irq'.packets_incoming = irq.packets_incoming
        /\ irq.at \in EndWaits /\ ~DoneForIrq
    BY <1>1, <1>6 DEF Stands3, Ends
  <2>1. irq'.at \notin {7, 8} /\ (Clean' <=> Clean) /\ ~irq.Pkt_Start_flag
        /\ ~irq'.Pkt_Start_flag
    BY <1>1, <1>6, <2>0 DEF RamInv, SameMarks, Marks, Clean, Noted, Rest
  <2>2. SUFFICES ASSUME Clean
                 PROVE  ram'.marked /\ Count'
    BY <2>1, <2>2 DEF RamInv
  <2>3. Count /\ ram.marked
    BY <1>6, <2>2 DEF RamInv
  <2>4. ASSUME NEW w, RamTurns(w)
        PROVE  ram'.marked /\ ram'.words = w
    BY <2>1, <2>2, <2>3, <2>4 DEF RamTurns
  <2>d. engine.owner = "int" /\ irq.at \notin {16, 18} => DoneForIrq' /\ engine.op = irq.op
    BY <1>1, <2>0 DEF Ends
  <2>5. CASE engine.owner = "main"
    <3>1. engine.op.name \notin {"sync", "head", "rest"} /\ ~DoneForIrq'
      BY <1>1, <2>5 DEF Ends, MainWaiting
    <3>2. ram'.marked /\ ram'.words = ram.words
      BY <3>1, <1>3, <2>4
    <3>3. Count'
      BY <2>0, <2>3, <3>1, <3>2 DEF Count, Asked, AskedMore, HasMore, Follows
    <3>4. QED
      BY <3>2, <3>3
  <2>6. CASE engine.owner = "int" /\ irq.at \in {3, 9}
    <3>1. engine.op.name \notin {"sync", "head", "rest"}
      BY <1>1, <2>6 DEF Ends, RxInv, IrqAsked
    <3>2. ram'.marked /\ ram'.words = ram.words
      BY <3>1, <1>3, <2>4
    <3>3. Count'
      BY <2>0, <2>3, <2>6, <3>2 DEF Count, Asked, AskedMore, HasMore, Follows, Rest
    <3>4. QED
      BY <3>2, <3>3
  <2>7. CASE engine.owner = "int" /\ irq.at = 12
    <3>1. engine.op.name = "sync" /\ ram.words = 0 /\ DoneForIrq'
      BY <2>d, <2>0, <2>3, <2>7 DEF RxInv, IrqAsked, Count
    <3>2. ram'.marked /\ ram'.words = 1
      BY <3>1, <1>3, <2>4
    <3>3. Count'
      BY <2>0, <2>7, <3>1, <3>2 DEF Count, Asked, AskedMore, HasMore, Rest
    <3>4. QED
      BY <3>2, <3>3
  <2>8. CASE engine.owner = "int" /\ irq.at = 15
    <3>1. engine.op = irq.op /\ engine.op.name \in {"head", "rest"}
      <4>1. engine.op = irq.op
        BY <1>1, <2>8 DEF Ends
      <4>2. irq.op = IF irq.almost_full THEN HeadChunk
                     ELSE IF irq.packets_incoming = 1 THEN Op("head", 0)
                     ELSE Op("rest",
                             (engine.recv_pkt_len - irq.Data_Recv_Pos + 1) % 256)
        BY <2>8 DEF RxInv, IrqAsked
      <4>3. \A name, len : Op(name, len).name = name
        BY DEF Op
      <4>4. QED
        BY <4>1, <4>2, <4>3 DEF HeadChunk
    <3>2. /\ engine.op.name = "head" =>
               ram'.words = ram.words + 1 + Words(Taken(engine.op) - 1)
          /\ engine.op.name = "rest" => ram'.words = ram.words + Words(Taken(engine.op))
          /\ ram'.marked
      BY <3>1, <1>3, <2>4
    <3>3. Count'
      BY <1>1, <1>6, <2>3, <2>8, <3>1, <3>2, EndStoresChunk
    <3>4. QED
      BY <3>2, <3>3
  <2>9. CASE engine.owner = "int" /\ irq.at = 29
    <3>1. engine.op = Op("rest", RX_THRESHOLD) /\ DoneForIrq'
      BY <2>d, <2>9 DEF RxInv, IrqAsked
    <3>2. RX_THRESHOLD \in Nat /\ RX_THRESHOLD > 2
      BY RxConstants
    <3>3. engine.op.name = "rest" /\ Taken(engine.op) = RX_THRESHOLD
      BY <3>1, <3>2 DEF Op, Taken
    <3>4. ram'.marked /\ ram'.words = ram.words + Words(Taken(engine.op))
      BY <3>3, <1>3, <2>4
    <3>5. ram.words = Stored(irq.Data_Recv_Pos - RX_THRESHOLD)
      BY <2>0, <2>3, <2>9 DEF Count, AskedMore
    <3>6. irq.Data_Recv_Pos \in Nat
      BY DEF RxInv, Registers, Within
    <3>7. RX_THRESHOLD % 2 = 0
      BY RxConstants
    <3>8. ASSUME NEW p \in Nat, NEW x \in Nat, x % 2 = 0
          PROVE  Stored(p - x) + Words(x) = Stored(p)
      BY <3>8 DEF Stored, Words
    <3>9. ram'.words = Stored(irq.Data_Recv_Pos)
      BY <3>2, <3>3, <3>4, <3>5, <3>6, <3>7, <3>8
    <3>10. Count'
      BY <2>0, <2>9, <3>1, <3>9 DEF Count, Asked, AskedMore, HasMore, Rest
    <3>11. QED
      BY <3>4, <3>10
  <2>10. irq.at \in {0, 1, 3, 5, 9, 12, 15, 29}
    BY <1>6, <2>0 DEF Noted, Rest, EndWaits
  <2>11. QED
    BY <1>1, <2>5, <2>6, <2>7, <2>8, <2>9, <2>10 DEF Ends
<1>7. QED
  BY <1>1, <1>4, <1>5, <1>6 DEF Ends

(* No step breaks it.                                                       *)
LEMMA NextRam ==
  ASSUME ServedInv, TxInv, RxInv(radio), RamInv, [WirelessNext]_vars
  PROVE  RamInv'
<1>r. ASSUME irq' = IrqReset
      PROVE  RamInv'
  <2>1. irq'.at = 0 /\ irq'.packets_incoming = 0
    BY <1>r DEF IrqReset, IrqInit
  <2>2. QED
    BY <2>1 DEF RamInv, Noted, Follows
<1>1. CASE Edge /\ main.reset_n
  <2>e. EngineStep /\ IrqStep
    BY <1>1 DEF Edge
  <2>1. RxInv(radio')
    BY <2>e, RxOutside DEF ServedInv, TxInv
  <2>2. RxDoes
    BY <1>1, <2>e, RxEdges DEF RxInv, Registers, Within, ServedInv
  <2>3. ~DoneForIrq'
    BY <2>e, EdgeEngine, EdgeNotDone DEF ServedInv, TxInv
  <2>4. RamTurns(ram.words)
    BY <2>e, RamAtEdge DEF TxInv
  <2>5. QED
    BY <2>1, <2>2, <2>3, <2>4, EdgeRam DEF RxInv
<1>2. CASE Edge /\ ~main.reset_n
  BY <1>2, <1>r DEF Edge, IrqStep
<1>3. CASE OperationEnds
  BY <1>3, EndRam
<1>4. CASE CtsError \/ NewConfig
  BY <1>4, <1>r DEF CtsError, NewConfig, ResetAll
<1>5. CASE UNCHANGED vars
  BY <1>5 DEF vars, RamInv, Noted, Clean, Count, DoneForIrq, DoneFor
<1>6. QED
  BY <1>1, <1>2, <1>3, <1>4, <1>5 DEF WirelessNext

(* All that is known of a reception and of the words of its packet.         *)
Reception == ServedInv /\ TxInv /\ RxInv(radio) /\ RamInv

(* No run leaves it.                                                        *)
LEMMA ReceptionHolds ==
  ASSUME LongFrames = FALSE, TRUE \notin EmptyCommands,
         \A l \in PacketLengths, k \in Nat : l + 2 # k * RX_THRESHOLD
  PROVE  WirelessSpec => []Reception
<1>e. NoEmptyPart
  BY DEF NoEmptyPart
<1>1. WirelessInit => Reception
  <2> SUFFICES ASSUME WirelessInit
               PROVE  Reception
    OBVIOUS
  <2>1. irq.at = 0 /\ irq.packets_incoming = 0
    BY DEF WirelessInit, IrqInit
  <2>2. RamInv
    BY <2>1 DEF RamInv, Noted, Follows
  <2>3. QED
    BY <2>2, InitServed, InitTx, InitRx DEF Reception
<1>2. Reception /\ [WirelessNext]_vars => Reception'
  <2> SUFFICES ASSUME Reception, [WirelessNext]_vars
               PROVE  Reception'
    OBVIOUS
  <2> USE DEF Reception
  <2>1. ServedInv' /\ TxInv'
    BY NextTx
  <2>2. RxInv(radio)'
    BY <1>e, NextRx
  <2>3. RamInv'
    BY NextRam
  <2>4. QED
    BY <2>1, <2>2, <2>3
<1>3. QED
  BY <1>1, <1>2, PTL DEF WirelessSpec

(* The steps of the Irq machine out of state 15, and those that raise the   *)
(* flag of a bad CRC.                                                       *)
LEMMA ReceptionSteps ==
  ASSUME Reception, WirelessNext
  PROVE  /\ irq.at = 15 /\ irq'.at = 19 =>
              DoneForIrq /\ ~irq.almost_full /\ RamTurns(ram.words)
         /\ ~irq.Crc_Error_Rollback /\ irq'.Crc_Error_Rollback =>
              irq.at = 3 /\ irq.packets_incoming > 1
<1> USE DEF Reception
<1>1. CASE Edge /\ main.reset_n
  <2>e. EngineStep /\ IrqStep
    BY <1>1 DEF Edge
  <2>1. RxDoes
    BY <1>1, <2>e, RxEdges DEF RxInv, Registers, Within, ServedInv
  <2>2. RamTurns(ram.words)
    BY <2>e, RamAtEdge DEF TxInv
  <2> USE DEF StaysTo, TurnsTo, TakesIn, SameMarks, Marks
  <2>3. ASSUME irq.at = 15, irq'.at = 19
        PROVE  DoneForIrq /\ ~irq.almost_full
    BY <2>1, <2>3 DEF RxDoes, RxWaits, RxWakes, RxAsks, RxStarts, RxWalks, RxMarks,
       RxTakes, RxReads, RxReadsMore, RxEndsChunk, SortsTx, SortsCrc, SortsFull,
       SortsRx, SortsSync
  <2>4. ASSUME ~irq.Crc_Error_Rollback, irq'.Crc_Error_Rollback
        PROVE  irq.at = 3 /\ irq.packets_incoming > 1
    BY <2>1, <2>4 DEF RxDoes, RxWaits, RxWakes, RxAsks, RxStarts, RxWalks, RxMarks,
       MarksTurn, RxTakes, RxReads, RxReadsMore, RxEndsChunk, SortsTx, SortsCrc,
       SortsFull, SortsRx, SortsSync
  <2>5. QED
    BY <2>2, <2>3, <2>4
<1>2. CASE irq' = IrqReset
  <2>1. irq'.at = 0 /\ irq'.Crc_Error_Rollback = irq.Crc_Error_Rollback
    BY <1>2 DEF IrqReset, IrqInit
  <2>2. QED
    BY <2>1
<1>3. CASE OperationEnds
  <2>1. SameMarks /\ irq'.at \in {irq.at, 16}
    BY <1>3, EndFacts DEF Ends, StruckNow, Stands3
  <2>2. QED
    BY <2>1 DEF SameMarks, Marks
<1>4. QED
  BY <1>1, <1>2, <1>3 DEF WirelessNext, Edge, IrqStep, CtsError, NewConfig, ResetAll

(* When a packet is announced, its sync word, its length and all its bytes  *)
(* lie behind the mark: the words of the chunks add up for every threshold  *)
(* and every length, as long as a frame takes less than the 30 ms of the    *)
(* watchdog, no command of the CPU is empty and no packet leaves an empty   *)
(* last part.                                                               *)
THEOREM AnnouncesWhole ==
  ASSUME LongFrames = FALSE, TRUE \notin EmptyCommands,
         \A l \in PacketLengths, k \in Nat : l + 2 # k * RX_THRESHOLD
  PROVE  WirelessSpec => AnnouncedWhole
<1>1. ASSUME Reception, WirelessNext, irq.at = 15, irq'.at = 19,
             ~irq.Crc_Error_Rollback, ~irq.Pkt_Received_flag, ~irq.Pkt_Start_flag
      PROVE  ram'.marked /\ ram'.words = 2 + Words(radio.len)
  <2>1. DoneForIrq /\ ~irq.almost_full /\ RamTurns(ram.words)
    BY <1>1, ReceptionSteps
  <2>2. Noted /\ Clean
    BY <1>1 DEF Noted, Clean
  <2>3. ram.marked /\ ram.words = 2 + Words(radio.len)
    BY <1>1, <2>1, <2>2 DEF Reception, RamInv, Count
  <2>4. QED
    BY <1>1, <2>1, <2>2, <2>3 DEF RamTurns
<1>2. Reception /\ [WirelessNext]_vars =>
        [irq.at = 15 /\ irq'.at = 19 /\ ~irq.Crc_Error_Rollback
           /\ ~irq.Pkt_Received_flag /\ ~irq.Pkt_Start_flag
         => ram'.marked /\ ram'.words = 2 + Words(radio.len)]_vars
  BY <1>1
<1>3. QED
  BY <1>2, ReceptionHolds, PTL DEF WirelessSpec, AnnouncedWhole

(* A packet of bad CRC is rolled back only when words of it were stored     *)
(* since its mark, under the same conditions.                               *)
THEOREM RollsBackJustly ==
  ASSUME LongFrames = FALSE, TRUE \notin EmptyCommands,
         \A l \in PacketLengths, k \in Nat : l + 2 # k * RX_THRESHOLD
  PROVE  WirelessSpec => RollbackJustified
<1>1. ASSUME Reception, WirelessNext, ~irq.Crc_Error_Rollback, irq'.Crc_Error_Rollback,
             ~irq.Pkt_Received_flag
      PROVE  ram.marked /\ ram.words > 1
  <2>1. irq.at = 3 /\ irq.packets_incoming > 1
    BY <1>1, ReceptionSteps
  <2>2. irq.at \in Rest /\ Follows(irq)
    BY <2>1 DEF Rest, Follows
  <2>3. ram.marked /\ ram.words = Stored(irq.Data_Recv_Pos)
    BY <1>1, <2>2 DEF Reception, RamInv, Count, Noted, Clean
  <2>4. irq.Data_Recv_Pos \in 1 .. 255
    BY <1>1, <2>2 DEF Reception, RxInv, Inside, Amid, Grid
  <2>5. QED
    BY <2>3, <2>4 DEF Stored
<1>2. Reception /\ [WirelessNext]_vars =>
        [~irq.Crc_Error_Rollback /\ irq'.Crc_Error_Rollback
         => \/ ram.marked /\ ram.words > 1
            \/ irq.Pkt_Received_flag \/ irq.Pkt_Start_flag]_vars
  BY <1>1
<1>3. QED
  BY <1>2, ReceptionHolds, PTL DEF WirelessSpec, RollbackJustified
=============================================================================
