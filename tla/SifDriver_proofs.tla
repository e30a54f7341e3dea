-------------------------- MODULE SifDriver_proofs --------------------------
(***************************************************************************)
(* Proofs about SifDriver, for any number of frames and packets.  Edges are *)
(* kept and frames come in turn with any writers and openings; the queue's  *)
(* one waker takes that nobody writes speed_kbps and the device is opened   *)
(* once; whole exchanges and packets in turn, that nobody writes at all.    *)
(***************************************************************************)
EXTENDS SifDriver, SequenceTheorems, FiniteSetTheorems, TLAPS

(* OneWaker is not inductive: it also takes that the work queue holds at    *)
(* most the last frame taken, and none while a frame is being written, that *)
(* a device not yet up has no frame and no timer, and that it is opened     *)
(* once, hence not closed.                                                  *)
WakerInv ==
  /\ OneWaker
  /\ works.tx = <<>> \/ works.tx = <<log.taken>>
  /\ dev.opens \in Nat
  /\ pc["tx"] = "write" => works.tx = <<>>
  /\ ~dev.up => ~dev.on /\ timer = "idle" /\ ~InFlight
  /\ dev.up \/ pc["open"] = "wait" => dev.opens # 0
  /\ pc["open"] = "wait" => ~dev.up
  /\ DOMAIN pc = Threads
  /\ timer \in {"idle", "pending", "bug"}
  /\ DOMAIN works = {"tx", "irqwork", "owner", "len", "writes"}
  /\ DOMAIN dev = {"up", "on", "opens"} /\ dev.on \in BOOLEAN /\ dev.up \in BOOLEAN
  /\ DOMAIN log = {"taken", "stored", "announced", "handed", "dropped"}

(* Who may open or change the mode in these theorems.                       *)
OneOpenNoModes == SpeedWriters = {} /\ MaxOpens <= 1

(* The names of the threads are told apart from those of the writers.       *)
LEMMA ThreadNames ==
  /\ {"tx", "rx", "open"} \subseteq Threads
  /\ \A w \in PowerWriters : w \in Threads /\ w # "tx" /\ w # "rx" /\ w # "open"
BY DriverAssumption DEF Threads, Workers

(* Nothing is under way before the device is opened.                        *)
LEMMA WakerInit == DriverInit => WakerInv
BY ThreadNames DEF DriverInit, WakerInv, OneWaker, InFlight

(* A step of a power writer changes pc of the writer and nothing else here. *)
LEMMA WakerStep ==
  ASSUME OneOpenNoModes, WakerInv, [DriverNext]_driverVars
  PROVE  WakerInv'
<1> USE DriverAssumption, ThreadNames DEF OneOpenNoModes, WakerInv, OneWaker,
        InFlight, At, Go
<1>1. CASE UNCHANGED driverVars
  BY <1>1 DEF driverVars
<1>2. CASE TxOk
  <2>1. dev.up /\ dev.on /\ timer = "idle" /\ works.tx = <<>> /\ pc["tx"] # "write"
    BY <1>2 DEF TxOk, MayTx
  <2>2. dev' = [dev EXCEPT !.on = FALSE] /\ UNCHANGED <<timer, pc>>
    BY <1>2 DEF TxOk
  <2>3. works' = [works EXCEPT !.tx = Append(<<>>, log.taken + 1)]
    BY <1>2, <2>1 DEF TxOk
  <2>4. log' = [log EXCEPT !.taken = log.taken + 1]
    BY <1>2 DEF TxOk
  <2>5. works'.tx = <<log'.taken>>
    BY <2>3, <2>4
  <2>6. DOMAIN works' = DOMAIN works /\ DOMAIN log' = DOMAIN log
    BY <2>3, <2>4
  <2>7. ~dev'.on /\ dev'.up /\ dev'.opens = dev.opens /\ DOMAIN dev' = DOMAIN dev
    BY <2>1, <2>2
  <2>8. QED
    BY <2>1, <2>2, <2>5, <2>6, <2>7
<1>3. CASE TxBusy
  BY <1>3 DEF TxBusy, MayTx
<1>4. CASE Withdraw
  BY <1>4 DEF Withdraw
<1>5. CASE TxWrite
  <2>1. works.tx = <<log.taken>> /\ Tail(<<log.taken>>) = <<>>
    BY <1>5 DEF TxWrite
  <2>2. works'.tx = <<>> /\ DOMAIN works' = DOMAIN works
    BY <1>5, <2>1 DEF TxWrite
  <2>3. pc' = [pc EXCEPT !["tx"] = "write"] /\ UNCHANGED <<dev, timer, log>>
    BY <1>5 DEF TxWrite
  <2>4. ~dev.on /\ dev.up /\ timer # "pending"
    BY <1>5 DEF TxWrite
  <2>5. pc'["open"] = pc["open"] /\ DOMAIN pc' = Threads
    BY <2>3
  <2>6. QED
    BY <2>2, <2>3, <2>4, <2>5
<1>6. CASE TxWake
  BY <1>6 DEF TxWake
<1>7. CASE TxUnlock
  BY <1>7 DEF TxUnlock
<1>8. CASE RxThread
  <2>1. CASE RxBegin
    BY <2>1 DEF RxBegin
  <2>2. CASE RxAskLen
    BY <2>2 DEF RxAskLen
  <2>3. CASE RxAskPacket
    BY <2>3 DEF RxAskPacket
  <2>4. CASE RxEnd
    BY <2>4 DEF RxEnd
  <2>5. QED
    BY <1>8, <2>1, <2>2, <2>3, <2>4 DEF RxThread
<1>9. CASE Announce
  BY <1>9 DEF Announce, Edge
<1>10. CASE Bus
  <2>1. CASE ShiftedOut
    BY <2>1 DEF ShiftedOut
  <2>2. CASE BusDone
    BY <2>2 DEF BusDone, LenDone, ConfigDone, FrameDone, CmdDone, ShiftedDone
  <2>3. QED
    BY <1>10, <2>1, <2>2 DEF Bus
<1>11. CASE Open
  BY <1>11 DEF Open
<1>12. CASE OpenDone
  BY <1>12 DEF OpenDone
<1>13. CASE Release
  BY <1>13 DEF Release
<1>14. ASSUME NEW w \in PowerWriters, PowerThread(w) PROVE WakerInv'
  <2>1. CASE PowerWrite(w)
    BY <1>14, <2>1 DEF PowerWrite, MayWrite, CountWrite
  <2>2. CASE PowerDone(w)
    BY <1>14, <2>2 DEF PowerDone
  <2>3. QED
    BY <1>14, <2>1, <2>2 DEF PowerThread
<1>15. QED
  BY <1>1, <1>2, <1>3, <1>4, <1>5, <1>6, <1>7, <1>8, <1>9, <1>10, <1>11, <1>12,
     <1>13, <1>14 DEF DriverNext, TxThread

(* The queue is stopped by one cause at a time and that cause will wake it: *)
(* si4463_tx never adds a timer that is pending and never has two frames on *)
(* their way, however the works, the messages and the timer interleave.     *)
THEOREM OneWakerAlways ==
  ASSUME OneOpenNoModes
  PROVE  DriverSpec => []OneWaker
<1>1. DriverInit => WakerInv
  BY WakerInit
<1>2. WakerInv /\ [DriverNext]_driverVars => WakerInv'
  BY WakerStep
<1>3. WakerInv => OneWaker
  BY DEF WakerInv
<1>4. QED
  BY <1>1, <1>2, <1>3, PTL DEF DriverSpec

-----------------------------------------------------------------------------
(* What the variables hold.  None of the following takes a bound on the     *)
(* writers, the openings or the frames but where it says so.                *)
Places  == {"idle", "write", "wake", "lock", "len", "packet", "zeros", "wait"}
Kinds   == {"frame", "len", "packet", "zeros", "cmd", "config"}
Sizes   == {"fits", "long", "none"}
Message == [by : Threads, kind : Kinds, arg : Nat]

DriverType ==
  /\ dev \in [up : BOOLEAN, on : BOOLEAN, opens : Nat]
  /\ works \in [tx : Seq(Nat), irqwork : BOOLEAN, owner : {"none", "tx", "rx"},
                len : Sizes, writes : Nat]
  /\ pc \in [Threads -> Places]
  /\ irq \in [requested : BOOLEAN, disabled : Int, latched : BOOLEAN]
  /\ bus \in Seq(Message)
  /\ fpga \in [configured : BOOLEAN, phase : {"quiet", "announced", "asked"},
               length : Sizes, broken : BOOLEAN]
  /\ log \in [taken : Nat, stored : Seq(Nat), announced : Seq(Sizes),
              handed : Seq(Sizes), dropped : Nat]

(* Where a thread is while its message is not done.                         *)
PlaceOf(kind) == CASE kind = "frame" -> "write"
                   [] kind \in {"cmd", "config"} -> "wait"
                   [] OTHER -> kind

(* The messages on the bus: one of a thread at a time, which waits for it,  *)
(* and of the kinds this thread sends.                                      *)
BusKept ==
  /\ \A i \in DOMAIN bus :
       /\ pc[bus[i].by] = PlaceOf(bus[i].kind)
       /\ bus[i].kind = "frame" <=> bus[i].by = "tx"
       /\ bus[i].kind \in {"len", "packet", "zeros"} <=> bus[i].by = "rx"
  /\ \A i, j \in DOMAIN bus : bus[i].by = bus[j].by => i = j

(* A message added at the end and one taken from the front, place by place. *)
LEMMA Added ==
  ASSUME NEW S, NEW b \in Seq(S), NEW m \in S
  PROVE  /\ Append(b, m) \in Seq(S)
         /\ DOMAIN Append(b, m) = DOMAIN b \cup {Len(b) + 1}
         /\ Len(b) + 1 \notin DOMAIN b /\ Append(b, m)[Len(b) + 1] = m
         /\ Len(Append(b, m)) = Len(b) + 1
         /\ \A i \in DOMAIN b : Append(b, m)[i] = b[i]
<1>1. DOMAIN b = 1 .. Len(b) /\ Len(b) \in Nat
  OBVIOUS
<1>2. Append(b, m) \in Seq(S) /\ Len(Append(b, m)) = Len(b) + 1
  OBVIOUS
<1>3. DOMAIN Append(b, m) = 1 .. (Len(b) + 1)
  BY <1>2
<1>4. \A i \in DOMAIN b : Append(b, m)[i] = b[i]
  BY <1>1
<1>5. Append(b, m)[Len(b) + 1] = m
  OBVIOUS
<1>6. QED
  BY <1>1, <1>2, <1>3, <1>4, <1>5

(* What is behind the first message once it is taken.                       *)
LEMMA Taken ==
  ASSUME NEW S, NEW b \in Seq(S), b # <<>>
  PROVE  /\ Tail(b) \in Seq(S) /\ Head(b) = b[1] /\ 1 \in DOMAIN b
         /\ \A i \in DOMAIN Tail(b) :
              i + 1 \in DOMAIN b /\ i + 1 # 1 /\ Tail(b)[i] = b[i + 1]
         /\ \A i \in DOMAIN b \ {1} :
              i - 1 \in DOMAIN Tail(b) /\ Tail(b)[i - 1] = b[i]
<1>1. Tail(b) \in Seq(S) /\ Len(Tail(b)) = Len(b) - 1
      /\ \A i \in 1 .. Len(Tail(b)) : Tail(b)[i] = b[i + 1]
  BY HeadTailProperties
<1>2. DOMAIN b = 1 .. Len(b) /\ Len(b) \in Nat \ {0}
  BY EmptySeq
<1>3. DOMAIN Tail(b) = 1 .. (Len(b) - 1)
  BY <1>1, <1>2
<1>4. \A i \in DOMAIN Tail(b) :
        i + 1 \in DOMAIN b /\ i + 1 # 1 /\ Tail(b)[i] = b[i + 1]
  BY <1>1, <1>2, <1>3
<1>5. \A i \in DOMAIN b \ {1} : i \in Int /\ i - 1 \in DOMAIN Tail(b) /\ (i - 1) + 1 = i
  BY <1>2, <1>3
<1>6. \A i \in DOMAIN b \ {1} : Tail(b)[i - 1] = b[i]
  BY <1>4, <1>5
<1>7. 1 \in DOMAIN b /\ Head(b) = b[1]
  BY <1>2
<1>8. QED
  BY <1>1, <1>4, <1>5, <1>6, <1>7

(* A message on its way is of a thread.                                     *)
LEMMA BusTyped ==
  ASSUME DriverType
  PROVE  \A i \in DOMAIN bus :
           bus[i].by \in Threads /\ bus[i].kind \in Kinds /\ bus[i].arg \in Nat
<1>1. bus \in Seq(Message)
  BY DEF DriverType
<1>2. \A i \in DOMAIN bus : bus[i] \in Message
  BY <1>1
<1>3. QED
  BY <1>2 DEF Message

(* Giving a message that its thread waits for, when it had none; completing *)
(* one; and moving a thread that has no message.                            *)
LEMMA GiveKeeps ==
  ASSUME DriverType, BusKept, NEW t \in Threads, NEW kind \in Kinds, NEW arg \in Nat,
         Completed(t), Give(t, kind, arg), Go(t, PlaceOf(kind)),
         kind = "frame" <=> t = "tx",
         kind \in {"len", "packet", "zeros"} <=> t = "rx"
  PROVE  BusKept' /\ bus' \in Seq(Message)
<1> DEFINE m == [by |-> t, kind |-> kind, arg |-> arg]
<1>1. m \in Message
  BY DEF Message
<1>2. bus \in Seq(Message) /\ bus' = Append(bus, m)
  BY DEF DriverType, Give
<1>3. /\ bus' \in Seq(Message) /\ DOMAIN bus' = DOMAIN bus \cup {Len(bus) + 1}
      /\ Len(bus) + 1 \notin DOMAIN bus /\ bus'[Len(bus) + 1] = m
      /\ \A i \in DOMAIN bus : bus'[i] = bus[i]
  BY <1>1, <1>2, Added
<1>4. pc' = [pc EXCEPT ![t] = PlaceOf(kind)] /\ DOMAIN pc = Threads
  BY DEF Go, DriverType
<1>5. \A i \in DOMAIN bus : bus[i].by # t /\ bus[i].by \in Threads
  BY BusTyped DEF Completed
<1>6. ASSUME NEW i \in DOMAIN bus' 
      PROVE  /\ pc'[bus'[i].by] = PlaceOf(bus'[i].kind)
             /\ bus'[i].kind = "frame" <=> bus'[i].by = "tx"
             /\ bus'[i].kind \in {"len", "packet", "zeros"} <=> bus'[i].by = "rx"
  <2>1. CASE i = Len(bus) + 1
    BY <2>1, <1>3, <1>4
  <2>2. CASE i \in DOMAIN bus
    BY <2>2, <1>3, <1>4, <1>5 DEF BusKept
  <2>3. QED
    BY <2>1, <2>2, <1>3
<1>7. \A i, j \in DOMAIN bus' : bus'[i].by = bus'[j].by => i = j
  BY <1>3, <1>5 DEF BusKept
<1>8. QED
  BY <1>3, <1>6, <1>7 DEF BusKept

(* The completion of a message leaves each other one with a thread that     *)
(* waits for it.                                                            *)
LEMMA TakeKeeps ==
  ASSUME DriverType, BusKept, bus # <<>>, bus' = Tail(bus), pc' = pc
  PROVE  BusKept' /\ bus' \in Seq(Message)
<1>1. bus \in Seq(Message)
  BY DEF DriverType
<1>2. Tail(bus) \in Seq(Message)
      /\ \A i \in DOMAIN Tail(bus) : i + 1 \in DOMAIN bus /\ Tail(bus)[i] = bus[i + 1]
  BY <1>1, Taken
<1>3. \A i \in DOMAIN Tail(bus) : i \in Int
  BY <1>2
<1>4. \A i, j \in DOMAIN Tail(bus) : Tail(bus)[i].by = Tail(bus)[j].by => i = j
  BY <1>2, <1>3 DEF BusKept
<1>5. QED
  BY <1>2, <1>4 DEF BusKept

(* A thread whose message is completed waits for none.                      *)
LEMMA MoveKeeps ==
  ASSUME DriverType, BusKept, NEW t \in Threads, NEW to, Completed(t), Go(t, to), bus' = bus
  PROVE  BusKept'
<1>1. \A i \in DOMAIN bus : bus[i].by # t /\ bus[i].by \in Threads
  BY BusTyped DEF Completed
<1>2. QED
  BY <1>1 DEF BusKept, Go, DriverType

(* A thread that is not where it waits for a message has none on the bus.   *)
LEMMA NoneGiven ==
  ASSUME DriverType, BusKept, NEW t \in Threads, pc[t] \in {"idle", "lock", "wake"}
  PROVE  Completed(t)
<1>1. \A i \in DOMAIN bus : bus[i].kind \in Kinds
  BY BusTyped
<1>2. \A k \in Kinds : PlaceOf(k) \notin {"idle", "lock", "wake"}
  BY DEF Kinds, PlaceOf
<1>3. QED
  BY <1>1, <1>2 DEF BusKept, Completed

(* Every thread is one of the workers or one writer, of one file only.      *)
LEMMA WriterNames ==
  /\ {"tx", "rx", "open"} \subseteq Threads
  /\ \A w \in SpeedWriters \cup PowerWriters :
       w \in Threads /\ w # "tx" /\ w # "rx" /\ w # "open"
BY DriverAssumption DEF Threads, Workers

(* Types and messages at the start.                                         *)
LEMMA BasicInit == DriverInit => DriverType /\ BusKept
<1> SUFFICES ASSUME DriverInit PROVE DriverType /\ BusKept
  OBVIOUS
<1>1. bus = <<>> /\ DOMAIN bus = {}
  BY DEF DriverInit
<1>2. DriverType
  BY DEF DriverInit, DriverType, Places, Sizes
<1>3. QED
  BY <1>1, <1>2 DEF BusKept

(* And after every step.                                                    *)
LEMMA BasicStep ==
  ASSUME DriverType, BusKept, [DriverNext]_driverVars
  PROVE  DriverType' /\ BusKept'
<1> USE WriterNames
<1>0. /\ dev.opens + 1 \in Nat /\ works.writes + 1 \in Nat
      /\ log.taken + 1 \in Nat /\ log.dropped + 1 \in Nat
      /\ irq.disabled + 1 \in Int /\ irq.disabled - 1 \in Int
  <2>1. /\ dev.opens \in Nat /\ works.writes \in Nat /\ log.taken \in Nat
        /\ log.dropped \in Nat /\ irq.disabled \in Int
    BY DEF DriverType
  <2>2. QED
    BY <2>1
<1>1. CASE UNCHANGED driverVars
  BY <1>1 DEF driverVars, DriverType, BusKept
<1>2. CASE TxOk
  <2>1. works.tx \in Seq(Nat) /\ Append(works.tx, log.taken + 1) \in Seq(Nat)
    BY <1>0 DEF DriverType
  <2>2. BusKept'
    BY <1>2 DEF TxOk, BusKept
  <2>3. QED
    BY <1>0, <1>2, <2>1, <2>2 DEF TxOk, DriverType
<1>3. CASE TxBusy
  BY <1>3 DEF TxBusy, DriverType, BusKept
<1>4. CASE Withdraw
  BY <1>4 DEF Withdraw, DriverType, BusKept
<1>5. CASE TxWrite
  <2>1. works.tx \in Seq(Nat) /\ works.tx # <<>>
    BY <1>5 DEF TxWrite, DriverType
  <2>2. Head(works.tx) \in Nat /\ Tail(works.tx) \in Seq(Nat)
    BY <2>1, HeadTailProperties
  <2>3. Completed("tx")
    BY <1>5, NoneGiven DEF TxWrite, At
  <2>4. BusKept' /\ bus' \in Seq(Message)
    BY <1>5, <2>2, <2>3, GiveKeeps DEF TxWrite, PlaceOf, Kinds
  <2>5. works' = [works EXCEPT !.tx = Tail(works.tx), !.owner = "tx"]
        /\ pc' = [pc EXCEPT !["tx"] = "write"] /\ UNCHANGED <<dev, timer, irq, fpga, log>>
    BY <1>5 DEF TxWrite, Go
  <2>6. QED
    BY <2>2, <2>4, <2>5 DEF DriverType, Places
<1>6. CASE TxWake
  <2>1. BusKept'
    BY <1>6, MoveKeeps DEF TxWake
  <2>2. QED
    BY <1>6, <2>1 DEF TxWake, Go, DriverType, Places
<1>7. CASE TxUnlock
  <2>1. Completed("tx")
    BY <1>7, NoneGiven DEF TxUnlock, At
  <2>2. BusKept'
    BY <1>7, <2>1, MoveKeeps DEF TxUnlock
  <2>3. QED
    BY <1>7, <2>2 DEF TxUnlock, Go, DriverType, Places
<1>8. CASE RxBegin
  <2>1. Completed("rx")
    BY <1>8, NoneGiven DEF RxBegin, At
  <2>2. BusKept'
    BY <1>8, <2>1, MoveKeeps DEF RxBegin
  <2>3. QED
    BY <1>8, <2>2 DEF RxBegin, Go, DriverType, Places
<1>9. CASE RxAskLen
  <2>1. Completed("rx")
    BY <1>9, NoneGiven DEF RxAskLen, At
  <2>2. BusKept' /\ bus' \in Seq(Message)
    BY <1>9, <2>1, GiveKeeps DEF RxAskLen, PlaceOf, Kinds
  <2>3. QED
    BY <1>9, <2>2 DEF RxAskLen, Go, DriverType, Places
<1>10. CASE RxAskPacket
  <2>1. PICK k \in {"packet", "zeros"} :
          Give("rx", k, 0) /\ Go("rx", k) /\ Completed("rx")
    BY <1>10 DEF RxAskPacket
  <2>2. PlaceOf(k) = k /\ k \in Kinds
    BY DEF PlaceOf, Kinds
  <2>3. BusKept' /\ bus' \in Seq(Message)
    BY <2>1, <2>2, GiveKeeps
  <2>4. QED
    BY <1>10, <2>1, <2>3 DEF RxAskPacket, Go, DriverType, Places
<1>11. CASE RxEnd
  <2>1. BusKept'
    BY <1>11, MoveKeeps DEF RxEnd
  <2>2. log.handed \in Seq(Sizes) /\ works.len \in Sizes
        /\ Append(log.handed, works.len) \in Seq(Sizes)
    BY DEF DriverType
  <2>3. log' = [log EXCEPT !.handed = Append(log.handed, works.len)]
        \/ log' = [log EXCEPT !.dropped = log.dropped + 1]
    BY <1>11 DEF RxEnd
  <2>4. QED
    BY <1>0, <1>11, <2>1, <2>2, <2>3 DEF RxEnd, Go, DriverType, Places
<1>12. CASE Announce
  <2>1. PICK l \in Sizes : /\ fpga' = [fpga EXCEPT !.phase = "announced", !.length = l]
                           /\ log' = [log EXCEPT !.announced = Append(@, l)]
    BY <1>12, DriverAssumption DEF Announce, Sizes
  <2>2. QED
    <3>1. log.announced \in Seq(Sizes) /\ Append(log.announced, l) \in Seq(Sizes)
      BY DEF DriverType
    <3>2. BusKept'
      BY <1>12 DEF Announce, BusKept
    <3>3. QED
      BY <1>12, <2>1, <3>1, <3>2 DEF Announce, Edge, DriverType
<1>13. CASE ShiftedOut
  BY <1>13 DEF ShiftedOut, DriverType, BusKept
<1>14. CASE BusDone
  <2>1. BusKept' /\ bus' \in Seq(Message)
    BY <1>14, TakeKeeps DEF BusDone
  <2>2. Head(bus) \in Message
    BY <1>14, HeadTailProperties DEF BusDone, DriverType
  <2>3. Head(bus).arg \in Nat
    BY <2>2 DEF Message
  <2>4. CASE LenDone
    BY <1>14, <2>1, <2>4 DEF BusDone, LenDone, DriverType
  <2>5. CASE ConfigDone
    BY <1>14, <2>1, <2>5 DEF BusDone, ConfigDone, DriverType
  <2>6. CASE FrameDone
    <3>1. log.stored \in Seq(Nat) /\ Append(log.stored, Head(bus).arg) \in Seq(Nat)
      BY <2>3 DEF DriverType
    <3>2. QED
      BY <1>14, <2>1, <2>6, <3>1 DEF BusDone, FrameDone, Asked, DriverType
  <2>7. CASE CmdDone
    BY <1>14, <2>1, <2>7 DEF BusDone, CmdDone, Asked, DriverType
  <2>8. CASE ShiftedDone
    BY <1>14, <2>1, <2>8 DEF BusDone, ShiftedDone, DriverType
  <2>9. QED
    BY <1>14, <2>4, <2>5, <2>6, <2>7, <2>8 DEF BusDone
<1>15. CASE Open
  <2>1. Completed("open")
    BY <1>15, NoneGiven DEF Open, At
  <2>2. BusKept' /\ bus' \in Seq(Message)
    BY <1>15, <2>1, GiveKeeps DEF Open, PlaceOf, Kinds
  <2>3. QED
    BY <1>0, <1>15, <2>2 DEF Open, Go, DriverType, Places
<1>16. CASE OpenDone
  <2>1. BusKept'
    BY <1>16, MoveKeeps DEF OpenDone
  <2>2. QED
    BY <1>16, <2>1 DEF OpenDone, Go, DriverType, Places
<1>17. CASE Release
  BY <1>17 DEF Release, DriverType, BusKept
<1>18. ASSUME NEW w \in SpeedWriters \cup PowerWriters,
              SpeedWrite(w) \/ PowerWrite(w)
       PROVE  DriverType' /\ BusKept'
  <2>1. PICK k \in {"config", "cmd"} : Give(w, k, 0) /\ Go(w, "wait")
    BY <1>18 DEF SpeedWrite, PowerWrite
  <2>2. Completed(w)
    BY <1>18, NoneGiven DEF SpeedWrite, PowerWrite, MayWrite, At
  <2>3. PlaceOf(k) = "wait" /\ k \in Kinds
    BY DEF PlaceOf, Kinds
  <2>4. BusKept' /\ bus' \in Seq(Message)
    BY <2>1, <2>2, <2>3, GiveKeeps
  <2>5. CASE SpeedWrite(w)
    BY <1>0, <1>18, <2>4, <2>5 DEF SpeedWrite, CountWrite, Go, DriverType, Places
  <2>6. CASE PowerWrite(w)
    BY <1>0, <1>18, <2>4, <2>6 DEF PowerWrite, CountWrite, Go, DriverType, Places
  <2>7. QED
    BY <1>18, <2>5, <2>6
<1>19. ASSUME NEW w \in SpeedWriters \cup PowerWriters, SpeedDone(w) \/ PowerDone(w)
       PROVE  DriverType' /\ BusKept'
  <2>1. BusKept'
    BY <1>19, MoveKeeps DEF SpeedDone, PowerDone
  <2>2. CASE SpeedDone(w)
    BY <1>0, <1>19, <2>1, <2>2 DEF SpeedDone, Go, DriverType, Places
  <2>3. CASE PowerDone(w)
    BY <1>19, <2>1, <2>3 DEF PowerDone, Go, DriverType, Places
  <2>4. QED
    BY <1>19, <2>2, <2>3
<1>20. QED
  BY <1>1, <1>2, <1>3, <1>4, <1>5, <1>6, <1>7, <1>8, <1>9, <1>10, <1>11, <1>12,
     <1>13, <1>14, <1>15, <1>16, <1>17, <1>18, <1>19
     DEF DriverNext, TxThread, RxThread, Bus, SpeedThread, PowerThread

(* Every variable keeps its type, and every message on the SPI bus has a    *)
(* thread that waits for its completion (main.c spi_async and               *)
(* wait_for_completion).                                                    *)
THEOREM DriverTyped == DriverSpec => [](DriverType /\ BusKept)
<1>1. DriverInit => DriverType /\ BusKept
  BY BasicInit
<1>2. DriverType /\ BusKept /\ [DriverNext]_driverVars => (DriverType /\ BusKept)'
  BY BasicStep
<1>3. QED
  BY <1>1, <1>2, PTL DEF DriverSpec

-----------------------------------------------------------------------------
(* EdgeKept.  The interrupt is disabled as often as there are writers of    *)
(* speed_kbps waiting for their message: so the last to finish is the one   *)
(* whose enable_irq replays the edge.                                       *)
Waiting == {w \in SpeedWriters : pc[w] = "wait"}
DisabledByWaiting ==
  IsFiniteSet(Waiting) /\ irq.disabled = Cardinality(Waiting)

(* Whoever disables the interrupt enables it when its message is through.   *)
LEMMA DisabledStep ==
  ASSUME DriverType, DisabledByWaiting, [DriverNext]_driverVars
  PROVE  DisabledByWaiting'
<1> USE WriterNames
<1>1. ASSUME NEW w \in SpeedWriters, SpeedWrite(w) PROVE DisabledByWaiting'
  <2>1. pc[w] = "idle" /\ pc' = [pc EXCEPT ![w] = "wait"] /\ pc \in [Threads -> Places]
        /\ irq'.disabled = irq.disabled + 1
    BY <1>1 DEF SpeedWrite, MayWrite, At, Go, DriverType
  <2>2. w \notin Waiting /\ Waiting' = Waiting \cup {w}
    BY <2>1 DEF Waiting
  <2>3. IsFiniteSet(Waiting') /\ Cardinality(Waiting') = Cardinality(Waiting) + 1
    BY <2>2, FS_AddElement DEF DisabledByWaiting
  <2>4. QED
    BY <2>1, <2>3 DEF DisabledByWaiting
<1>2. ASSUME NEW w \in SpeedWriters, SpeedDone(w) PROVE DisabledByWaiting'
  <2>1. pc[w] = "wait" /\ pc' = [pc EXCEPT ![w] = "idle"] /\ pc \in [Threads -> Places]
        /\ irq'.disabled = irq.disabled - 1
    BY <1>2 DEF SpeedDone, At, Go, DriverType
  <2>2. w \in Waiting /\ Waiting' = Waiting \ {w}
    BY <2>1 DEF Waiting
  <2>3. IsFiniteSet(Waiting') /\ Cardinality(Waiting') = Cardinality(Waiting) - 1
    BY <2>2, FS_RemoveElement DEF DisabledByWaiting
  <2>4. QED
    BY <2>1, <2>3 DEF DisabledByWaiting
<1>3. ASSUME irq'.disabled = irq.disabled, \A w \in SpeedWriters : pc'[w] = pc[w]
      PROVE  DisabledByWaiting'
  <2>1. Waiting' = Waiting
    BY <1>3 DEF Waiting
  <2>2. QED
    BY <1>3, <2>1 DEF DisabledByWaiting
<1>4. ASSUME NEW t \in {"tx", "rx", "open"}, NEW to, Go(t, to), irq' = irq
      PROVE  DisabledByWaiting'
  BY <1>3, <1>4 DEF Go, DriverType
<1>5. CASE pc' = pc /\ irq'.disabled = irq.disabled
  BY <1>3, <1>5
<1>6. CASE UNCHANGED driverVars
  BY <1>5, <1>6 DEF driverVars
<1>7. CASE TxOk \/ TxBusy \/ Withdraw
  BY <1>5, <1>7 DEF TxOk, TxBusy, Withdraw
<1>8. CASE TxThread
  BY <1>4, <1>8 DEF TxThread, TxWrite, TxWake, TxUnlock
<1>9. CASE RxThread
  BY <1>4, <1>9 DEF RxThread, RxBegin, RxAskLen, RxAskPacket, RxEnd
<1>10. CASE Announce
  <2>1. irq'.disabled = irq.disabled /\ pc' = pc
    BY <1>10 DEF Announce, Edge, DriverType
  <2>2. QED
    BY <1>5, <2>1
<1>11. CASE Bus
  BY <1>5, <1>11 DEF Bus, BusDone, ShiftedOut
<1>12. CASE Open \/ OpenDone
  BY <1>4, <1>12 DEF Open, OpenDone
<1>13. CASE Release
  <2>1. irq'.disabled = irq.disabled /\ pc' = pc
    BY <1>13 DEF Release, DriverType
  <2>2. QED
    BY <1>5, <2>1
<1>14. ASSUME NEW w \in PowerWriters, PowerThread(w) PROVE DisabledByWaiting'
  <2>1. irq' = irq /\ w \notin SpeedWriters
    BY <1>14, DriverAssumption DEF PowerThread, PowerWrite, PowerDone
  <2>2. \E to : pc' = [pc EXCEPT ![w] = to]
    BY <1>14 DEF PowerThread, PowerWrite, PowerDone, Go
  <2>3. QED
    BY <1>3, <2>1, <2>2 DEF DriverType
<1>15. QED
  BY <1>1, <1>2, <1>6, <1>7, <1>8, <1>9, <1>10, <1>11, <1>12, <1>13, <1>14
     DEF DriverNext, SpeedThread

(* A "len" that stays on the bus keeps the edge, as does each other cause   *)
(* that a step leaves alone.                                                *)
LEMMA EdgeStep ==
  ASSUME DriverType, BusKept, DisabledByWaiting, EdgeKept, [DriverNext]_driverVars
  PROVE  EdgeKept'
<1> USE WriterNames
<1>0. irq.disabled \in Nat
  BY FS_CardinalityType DEF DisabledByWaiting
<1>1. ASSUME NEW t \in Threads, NEW kind \in Kinds, NEW arg \in Nat,
             Give(t, kind, arg), \E i \in DOMAIN bus : bus[i].kind = "len"
      PROVE  \E i \in DOMAIN bus' : bus'[i].kind = "len"
  <2>1. [by |-> t, kind |-> kind, arg |-> arg] \in Message /\ bus \in Seq(Message)
    BY DEF Message, DriverType
  <2>2. QED
    BY <1>1, <2>1, Added DEF Give
(* A step that leaves the phase alone, or the edge's other causes.          *)
<1>2. ASSUME fpga'.phase = fpga.phase, irq' = irq \/ ~irq'.requested,
             works'.irqwork = works.irqwork, pc["rx"] = "lock" => pc'["rx"] = "lock",
             (\E i \in DOMAIN bus : bus[i].kind = "len")
               => \E i \in DOMAIN bus' : bus'[i].kind = "len"
      PROVE  EdgeKept'
  BY <1>2 DEF EdgeKept
<1>3. CASE UNCHANGED driverVars
  BY <1>2, <1>3 DEF driverVars
<1>4. CASE TxOk
  <2>1. works'.irqwork = works.irqwork
    BY <1>4 DEF TxOk, DriverType
  <2>2. QED
    BY <1>2, <1>4, <2>1 DEF TxOk
<1>5. CASE TxBusy \/ Withdraw
  BY <1>2, <1>5 DEF TxBusy, Withdraw
<1>6. CASE TxWrite
  <2>1. works.tx \in Seq(Nat) /\ works.tx # <<>>
    BY <1>6 DEF TxWrite, DriverType
  <2>2. Head(works.tx) \in Nat
    BY <2>1, HeadTailProperties
  <2>3. works'.irqwork = works.irqwork /\ pc'["rx"] = pc["rx"]
    BY <1>6 DEF TxWrite, DriverType, Go
  <2>4. QED
    BY <1>1, <1>2, <1>6, <2>2, <2>3 DEF TxWrite, Kinds
<1>7. CASE TxWake \/ TxUnlock
  <2>1. works'.irqwork = works.irqwork /\ pc'["rx"] = pc["rx"]
    BY <1>7 DEF TxWake, TxUnlock, DriverType, Go
  <2>2. QED
    BY <1>2, <1>7, <2>1 DEF TxWake, TxUnlock
<1>8. CASE RxBegin
  <2>1. pc'["rx"] = "lock"
    BY <1>8 DEF RxBegin, Go, DriverType
  <2>2. QED
    BY <2>1 DEF EdgeKept
<1>9. CASE RxAskLen
  <2>1. [by |-> "rx", kind |-> "len", arg |-> 0] \in Message /\ bus \in Seq(Message)
    BY DEF Message, DriverType, Kinds
  <2>2. \E i \in DOMAIN bus' : bus'[i].kind = "len"
    BY <1>9, <2>1, Added DEF RxAskLen, Give
  <2>3. QED
    BY <2>2 DEF EdgeKept
<1>10. CASE RxAskPacket
  <2>1. PICK k \in {"packet", "zeros"} : Give("rx", k, 0) /\ pc["rx"] = "len"
    BY <1>10 DEF RxAskPacket, At
  <2>2. k \in Kinds
    BY DEF Kinds
  <2>3. QED
    BY <1>1, <1>2, <1>10, <2>1, <2>2 DEF RxAskPacket
<1>11. CASE RxEnd
  <2>1. works'.irqwork = works.irqwork /\ pc["rx"] # "lock"
    BY <1>11 DEF RxEnd, At, DriverType
  <2>2. QED
    BY <1>2, <1>11, <2>1 DEF RxEnd
<1>12. CASE Announce
  <2>1. /\ irq.requested /\ irq.disabled = 0 => works'.irqwork
        /\ irq.requested /\ irq.disabled > 0 => irq'.latched
        /\ irq'.disabled = irq.disabled /\ irq'.requested = irq.requested
    BY <1>12 DEF Announce, Edge, DriverType
  <2>2. QED
    BY <1>0, <2>1 DEF EdgeKept
<1>13. CASE ShiftedOut
  <2>1. fpga'.phase = "quiet"
    BY <1>13 DEF ShiftedOut, DriverType
  <2>2. QED
    BY <2>1 DEF EdgeKept
<1>14. CASE BusDone
  <2>1. bus \in Seq(Message) /\ bus # <<>> /\ bus' = Tail(bus)
    BY <1>14 DEF BusDone, DriverType
  <2>2. CASE LenDone
    <3>1. fpga'.phase = "asked"
      BY <2>2 DEF LenDone, DriverType
    <3>2. QED
      BY <3>1 DEF EdgeKept
  <2>3. CASE Head(bus).kind # "len"
    <3>1. ASSUME NEW i \in DOMAIN bus, bus[i].kind = "len"
          PROVE  \E j \in DOMAIN bus' : bus'[j].kind = "len"
      <4>1. i \in DOMAIN bus \ {1}
        BY <2>1, <2>3, <3>1, Taken
      <4>2. i - 1 \in DOMAIN Tail(bus) /\ Tail(bus)[i - 1] = bus[i]
        BY <2>1, <4>1, Taken
      <4>3. QED
        BY <2>1, <3>1, <4>2
    <3>2. fpga'.phase = fpga.phase \/ fpga'.phase = "quiet"
      BY <1>14, <2>3 DEF BusDone, LenDone, ConfigDone, FrameDone, CmdDone,
                         ShiftedDone, DriverType
    <3>3. works' = works
      BY <1>14, <2>3 DEF BusDone, LenDone, ConfigDone, FrameDone, CmdDone, ShiftedDone
    <3>4. QED
      BY <1>2, <1>14, <3>1, <3>2, <3>3 DEF BusDone, EdgeKept
  <2>4. QED
    BY <1>14, <2>2, <2>3 DEF BusDone, ConfigDone, FrameDone, CmdDone, ShiftedDone
<1>15. CASE Open
  <2>1. pc'["rx"] = pc["rx"]
    BY <1>15 DEF Open, Go, DriverType
  <2>2. QED
    BY <1>1, <1>2, <1>15, <2>1 DEF Open, Kinds
<1>16. CASE OpenDone
  <2>1. pc'["rx"] = pc["rx"]
    BY <1>16 DEF OpenDone, Go, DriverType
  <2>2. QED
    BY <1>2, <1>16, <2>1 DEF OpenDone
<1>17. CASE Release
  <2>1. ~irq'.requested
    BY <1>17 DEF Release, DriverType
  <2>2. QED
    BY <2>1 DEF EdgeKept
<1>18. ASSUME NEW w \in SpeedWriters, SpeedWrite(w) PROVE EdgeKept'
  <2>1. /\ works'.irqwork = works.irqwork /\ pc'["rx"] = pc["rx"]
        /\ irq'.latched = irq.latched /\ irq'.disabled = irq.disabled + 1
        /\ irq'.requested = irq.requested
    BY <1>18 DEF SpeedWrite, CountWrite, Go, DriverType
  <2>2. (\E i \in DOMAIN bus : bus[i].kind = "len")
          => \E i \in DOMAIN bus' : bus'[i].kind = "len"
    BY <1>1, <1>18 DEF SpeedWrite, Kinds
  <2>3. fpga' = fpga
    BY <1>18 DEF SpeedWrite
  <2>4. QED
    BY <1>0, <2>1, <2>2, <2>3 DEF EdgeKept
<1>19. ASSUME NEW w \in SpeedWriters, SpeedDone(w) PROVE EdgeKept'
  <2>1. /\ works.irqwork => works'.irqwork
        /\ irq.disabled = 1 /\ irq.latched /\ irq.requested => works'.irqwork
        /\ irq.latched /\ irq.disabled > 1 => irq'.latched
        /\ irq'.disabled = irq.disabled - 1 /\ irq'.requested = irq.requested
        /\ pc'["rx"] = pc["rx"]
    BY <1>19 DEF SpeedDone, Go, DriverType
  <2>2. bus' = bus /\ fpga' = fpga
    BY <1>19 DEF SpeedDone
  <2>3. QED
    BY <1>0, <2>1, <2>2 DEF EdgeKept
<1>20. ASSUME NEW w \in PowerWriters, PowerThread(w) PROVE EdgeKept'
  <2>1. works'.irqwork = works.irqwork /\ pc'["rx"] = pc["rx"]
    BY <1>20 DEF PowerThread, PowerWrite, PowerDone, CountWrite, Go, DriverType
  <2>2. CASE PowerWrite(w)
    BY <1>1, <1>2, <2>1, <2>2 DEF PowerWrite, Kinds
  <2>3. CASE PowerDone(w)
    BY <1>2, <2>1, <2>3 DEF PowerDone
  <2>4. QED
    BY <1>20, <2>2, <2>3 DEF PowerThread
<1>21. QED
  BY <1>3, <1>4, <1>5, <1>6, <1>7, <1>8, <1>9, <1>10, <1>11, <1>12, <1>13, <1>14,
     <1>15, <1>16, <1>17, <1>18, <1>19, <1>20
     DEF DriverNext, TxThread, RxThread, Bus, SpeedThread

(* The edge that announces a packet is never lost, with any number of       *)
(* writers to both files of debugfs, openings and closings at any moment.   *)
THEOREM EdgeAlwaysKept == DriverSpec => []EdgeKept
<1> DEFINE Inv == DriverType /\ BusKept /\ DisabledByWaiting /\ EdgeKept
<1>1. DriverInit => Inv
  <2>1. DriverInit => Waiting = {} /\ irq.disabled = 0 /\ fpga.phase = "quiet"
    BY WriterNames DEF DriverInit, Waiting, Threads
  <2>2. QED
    BY <2>1, BasicInit, FS_EmptySet DEF DisabledByWaiting, EdgeKept
<1>2. Inv /\ [DriverNext]_driverVars => Inv'
  BY BasicStep, DisabledStep, EdgeStep
<1>3. QED
  BY <1>1, <1>2, PTL DEF DriverSpec

-----------------------------------------------------------------------------
(* FramesInTurn, said place by place: what is stored, then the frame on the *)
(* bus if there is one, then the work queue.                                *)
Turns == [k \in 1 .. log.taken |-> k]
FramesOrdered ==
  ~fpga.broken =>
    /\ (\A i \in DOMAIN bus : bus[i].kind # "frame") => log.stored \o works.tx = Turns
    /\ \A i \in DOMAIN bus : bus[i].kind = "frame" =>
         log.stored \o <<bus[i].arg>> \o works.tx = Turns

(* The frames up to the next.                                               *)
LEMMA TurnsGrow ==
  ASSUME NEW n \in Nat, NEW s \in Seq(Nat), s = [k \in 1 .. n |-> k]
  PROVE  Append(s, n + 1) = [k \in 1 .. n + 1 |-> k]
<1> DEFINE u == [k \in 1 .. n + 1 |-> k]
<1>1. Len(s) = n /\ DOMAIN s = 1 .. n /\ \A k \in 1 .. n : s[k] = k
  OBVIOUS
<1>2. u \in Seq(Nat) /\ Len(u) = n + 1 /\ \A k \in 1 .. n + 1 : u[k] = k
  OBVIOUS
<1>3. Append(s, n + 1) \in Seq(Nat) /\ Len(Append(s, n + 1)) = n + 1
  BY <1>1
<1>4. \A k \in 1 .. n + 1 : Append(s, n + 1)[k] = k
  BY <1>1, Added
<1>5. QED
  BY <1>2, <1>3, <1>4, SeqEqual

(* A frame at the end of the work queue.                                    *)
LEMMA AppendBehind ==
  ASSUME NEW s \in Seq(Nat), NEW t \in Seq(Nat), NEW x \in Nat
  PROVE  s \o Append(t, x) = Append(s \o t, x) /\ s \o t \in Seq(Nat)
<1>1. <<x>> \in Seq(Nat) /\ Append(t, x) = t \o <<x>>
  BY AppendIsConcat
<1>2. s \o t \in Seq(Nat) /\ Append(s \o t, x) = (s \o t) \o <<x>>
  BY ConcatProperties, AppendIsConcat
<1>3. QED
  BY <1>1, <1>2, ConcatAssociative

(* A frame from its front.                                                  *)
LEMMA FrontTaken ==
  ASSUME NEW s \in Seq(Nat), NEW q \in Seq(Nat), q # <<>>
  PROVE  /\ Head(q) \in Nat /\ Tail(q) \in Seq(Nat)
         /\ s \o <<Head(q)>> \o Tail(q) = s \o q
<1>1. Head(q) \in Nat /\ Tail(q) \in Seq(Nat) /\ Len(q) \in Nat \ {0}
  BY HeadTailProperties, EmptySeq
<1>2. 1 \in 1 .. Len(q) /\ Len(q) \in 1 .. Len(q)
  BY <1>1
<1>3. SubSeq(q, 1, Len(q)) = <<q[1]>> \o SubSeq(q, 1 + 1, Len(q))
  BY <1>2, SubSeqRecursiveFirst
<1>4. Tail(q) = SubSeq(q, 2, Len(q)) /\ SubSeq(q, 1, Len(q)) = q /\ Head(q) = q[1]
  BY TailIsSubSeq, SubSeqFull, Taken
<1>5. q = <<Head(q)>> \o Tail(q)
  BY <1>3, <1>4
<1>6. <<Head(q)>> \in Seq(Nat)
  BY <1>1
<1>7. (s \o <<Head(q)>>) \o Tail(q) = s \o (<<Head(q)>> \o Tail(q))
  BY <1>1, <1>6, ConcatAssociative
<1>8. QED
  BY <1>1, <1>5, <1>7

(* No frame overtakes another on its way to the FPGA.                       *)
LEMMA FramesStep ==
  ASSUME DriverType, BusKept, FramesOrdered, [DriverNext]_driverVars
  PROVE  FramesOrdered'
<1> USE WriterNames
<1>0. log.stored \in Seq(Nat) /\ works.tx \in Seq(Nat) /\ log.taken \in Nat
      /\ bus \in Seq(Message) /\ fpga.broken \in BOOLEAN /\ log.taken + 1 \in Nat
  BY DEF DriverType
<1>1. \A i \in DOMAIN bus : bus[i].kind = "frame" => pc["tx"] = "write"
  BY DEF BusKept, PlaceOf
<1>2. ASSUME fpga'.broken = fpga.broken, log'.taken = log.taken,
             log'.stored = log.stored, works'.tx = works.tx, bus' = bus
      PROVE  FramesOrdered'
  BY <1>2 DEF FramesOrdered, Turns
(* A message that is no frame is given.                                     *)
<1>3. ASSUME fpga'.broken = fpga.broken, log'.taken = log.taken,
             log'.stored = log.stored, works'.tx = works.tx,
             NEW t \in Threads, NEW kind \in Kinds \ {"frame"}, Give(t, kind, 0)
      PROVE  FramesOrdered'
  <2>1. [by |-> t, kind |-> kind, arg |-> 0] \in Message
    BY DEF Message
  <2>2. bus' = Append(bus, [by |-> t, kind |-> kind, arg |-> 0])
    BY <1>3 DEF Give
  <2>3. /\ DOMAIN bus' = DOMAIN bus \cup {Len(bus) + 1}
        /\ bus'[Len(bus) + 1].kind # "frame" /\ \A i \in DOMAIN bus : bus'[i] = bus[i]
    BY <1>0, <2>1, <2>2, Added
  <2>4. QED
    BY <1>3, <2>3 DEF FramesOrdered, Turns
<1>4. CASE UNCHANGED driverVars
  BY <1>2, <1>4 DEF driverVars
<1>5. CASE TxOk
  <2>1. /\ works'.tx = Append(works.tx, log.taken + 1)
        /\ log'.taken = log.taken + 1 /\ log'.stored = log.stored
        /\ UNCHANGED <<bus, fpga>>
    BY <1>5 DEF TxOk, DriverType
  <2>2. ASSUME NEW q \in Seq(Nat), q \o works.tx = Turns
        PROVE  q \o works'.tx = Turns'
    <3>1. PICK x \in Nat : x = log.taken + 1
      BY <1>0
    <3>2. PICK t \in Seq(Nat) : t = works.tx
      BY <1>0
    <3>3. q \o Append(t, x) = Append(q \o t, x) /\ q \o t \in Seq(Nat)
      BY AppendBehind
    <3>4. q \o t = [k \in 1 .. log.taken |-> k]
      BY <2>2, <3>2 DEF Turns
    <3>5. Append(q \o t, log.taken + 1) = [k \in 1 .. log.taken + 1 |-> k]
      BY <1>0, <3>3, <3>4, TurnsGrow
    <3>6. Turns' = [k \in 1 .. log.taken + 1 |-> k] /\ works'.tx = Append(t, x)
      BY <2>1, <3>1, <3>2 DEF Turns
    <3>7. QED
      BY <3>1, <3>3, <3>5, <3>6
  <2>3. \A i \in DOMAIN bus : log.stored \o <<bus[i].arg>> \in Seq(Nat)
    <3>1. ASSUME NEW a \in Nat PROVE log.stored \o <<a>> \in Seq(Nat)
      BY <1>0, ConcatProperties
    <3>2. QED
      BY <3>1, BusTyped
  <2>4. QED
    BY <1>0, <2>1, <2>2, <2>3 DEF FramesOrdered
<1>6. CASE TxBusy \/ Withdraw
  BY <1>2, <1>6 DEF TxBusy, Withdraw
<1>7. CASE TxWrite
  <2>1. works.tx # <<>> /\ \A i \in DOMAIN bus : bus[i].kind # "frame"
    BY <1>1, <1>7 DEF TxWrite, At
  <2>2. /\ Head(works.tx) \in Nat /\ Tail(works.tx) \in Seq(Nat)
        /\ log.stored \o <<Head(works.tx)>> \o Tail(works.tx) = log.stored \o works.tx
    BY <1>0, <2>1, FrontTaken
  <2>3. bus' = Append(bus, [by |-> "tx", kind |-> "frame", arg |-> Head(works.tx)])
    BY <1>7 DEF TxWrite, Give
  <2>4. [by |-> "tx", kind |-> "frame", arg |-> Head(works.tx)] \in Message
    BY <2>2 DEF Message, Kinds
  <2>5. /\ DOMAIN bus' = DOMAIN bus \cup {Len(bus) + 1}
        /\ bus'[Len(bus) + 1].kind = "frame" /\ bus'[Len(bus) + 1].arg = Head(works.tx)
        /\ \A i \in DOMAIN bus : bus'[i] = bus[i]
    BY <1>0, <2>3, <2>4, Added
  <2>6. works'.tx = Tail(works.tx) /\ UNCHANGED <<fpga, log>>
    BY <1>7 DEF TxWrite, DriverType
  <2>7. QED
    BY <2>1, <2>2, <2>5, <2>6 DEF FramesOrdered, Turns
<1>8. CASE TxWake \/ TxUnlock
  <2>1. works'.tx = works.tx
    BY <1>8 DEF TxWake, TxUnlock, DriverType
  <2>2. QED
    BY <1>2, <1>8, <2>1 DEF TxWake, TxUnlock
<1>9. CASE RxThread
  <2>1. works'.tx = works.tx /\ log'.taken = log.taken /\ log'.stored = log.stored
        /\ fpga' = fpga
    BY <1>9 DEF RxThread, RxBegin, RxAskLen, RxAskPacket, RxEnd, DriverType
  <2>2. CASE bus' = bus
    BY <1>2, <2>1, <2>2
  <2>3. CASE \E k \in {"len", "packet", "zeros"} : Give("rx", k, 0)
    BY <1>3, <2>1, <2>3 DEF Kinds
  <2>4. QED
    BY <1>9, <2>2, <2>3 DEF RxThread, RxBegin, RxAskLen, RxAskPacket, RxEnd
<1>10. CASE Announce
  <2>1. /\ works'.tx = works.tx /\ log'.taken = log.taken /\ log'.stored = log.stored
        /\ fpga'.broken = fpga.broken /\ bus' = bus
    BY <1>10 DEF Announce, Edge, DriverType
  <2>2. QED
    BY <1>2, <2>1
<1>11. CASE ShiftedOut
  <2>1. fpga'.broken = fpga.broken
    BY <1>11 DEF ShiftedOut, DriverType
  <2>2. QED
    BY <1>2, <1>11, <2>1 DEF ShiftedOut
<1>12. CASE BusDone
  <2>1. bus # <<>> /\ bus' = Tail(bus) /\ log'.taken = log.taken /\ works'.tx = works.tx
        /\ (~fpga'.broken => ~fpga.broken)
    BY <1>12 DEF BusDone, LenDone, ConfigDone, FrameDone, CmdDone, ShiftedDone,
                 DriverType
  <2>2. /\ Head(bus) = bus[1] /\ 1 \in DOMAIN bus
        /\ \A i \in DOMAIN bus' : i + 1 \in DOMAIN bus /\ i + 1 # 1 /\ bus'[i] = bus[i + 1]
        /\ \A i \in DOMAIN bus \ {1} : i - 1 \in DOMAIN bus' /\ bus'[i - 1] = bus[i]
    BY <1>0, <2>1, Taken
  <2>3. CASE Head(bus).kind = "frame"
    <3>1. FrameDone
      BY <1>12, <2>3 DEF BusDone, LenDone, ConfigDone, FrameDone, CmdDone, ShiftedDone
    <3>2. ~fpga'.broken => log'.stored = Append(log.stored, bus[1].arg)
      BY <2>2, <3>1 DEF FrameDone, Asked, DriverType
    <3>3. \A i \in DOMAIN bus : bus[i].kind = "frame" => i = 1
      BY <2>2, <2>3 DEF BusKept
    <3>4. \A i \in DOMAIN bus' : bus'[i].kind # "frame"
      BY <2>2, <3>3
    <3>5. bus[1].arg \in Nat
      BY <2>2, BusTyped
    <3>6. Append(log.stored, bus[1].arg) = log.stored \o <<bus[1].arg>>
      BY <1>0, <3>5, AppendIsConcat
    <3>7. ~fpga'.broken => log'.stored \o works'.tx = Turns
      BY <2>1, <2>2, <2>3, <3>2, <3>6 DEF FramesOrdered
    <3>8. QED
      BY <2>1, <3>4, <3>7 DEF FramesOrdered, Turns
  <2>4. CASE Head(bus).kind # "frame"
    <3>1. log'.stored = log.stored
      BY <1>12, <2>4 DEF BusDone, LenDone, ConfigDone, FrameDone, CmdDone, ShiftedDone
    <3>2. ASSUME NEW i \in DOMAIN bus, bus[i].kind = "frame"
          PROVE  i - 1 \in DOMAIN bus' /\ bus'[i - 1] = bus[i]
      <4>1. i \in DOMAIN bus \ {1}
        BY <2>2, <2>4, <3>2
      <4>2. QED
        BY <2>2, <4>1
    <3>3. (\A i \in DOMAIN bus' : bus'[i].kind # "frame")
            => \A i \in DOMAIN bus : bus[i].kind # "frame"
      BY <3>2
    <3>4. ASSUME NEW i \in DOMAIN bus', bus'[i].kind = "frame", ~fpga.broken
          PROVE  log.stored \o <<bus'[i].arg>> \o works.tx = Turns
      <4>1. i + 1 \in DOMAIN bus /\ bus'[i] = bus[i + 1]
        BY <2>2
      <4>2. QED
        BY <3>4, <4>1 DEF FramesOrdered
    <3>5. QED
      BY <2>1, <3>1, <3>3, <3>4 DEF FramesOrdered, Turns
  <2>5. QED
    BY <2>3, <2>4
<1>13. CASE Open
  BY <1>3, <1>13 DEF Open, Kinds
<1>14. CASE OpenDone \/ Release
  BY <1>2, <1>14 DEF OpenDone, Release
<1>15. ASSUME NEW w \in SpeedWriters \cup PowerWriters, SpeedThread(w) \/ PowerThread(w)
       PROVE  FramesOrdered'
  <2>1. works'.tx = works.tx /\ log' = log /\ fpga' = fpga
    BY <1>15 DEF SpeedThread, PowerThread, SpeedWrite, SpeedDone, PowerWrite,
                 PowerDone, CountWrite, DriverType
  <2>2. CASE bus' = bus
    BY <1>2, <2>1, <2>2
  <2>3. CASE \E k \in {"config", "cmd"} : Give(w, k, 0)
    BY <1>3, <1>15, <2>1, <2>3 DEF Kinds
  <2>4. QED
    BY <1>15, <2>2, <2>3 DEF SpeedThread, PowerThread, SpeedWrite, SpeedDone,
                             PowerWrite, PowerDone
<1>16. QED
  BY <1>4, <1>5, <1>6, <1>7, <1>8, <1>9, <1>10, <1>11, <1>12, <1>13, <1>14, <1>15
     DEF DriverNext, TxThread, RxThread, Bus

(* Until an exchange is broken each frame of the network stack reaches the  *)
(* FPGA once and in its turn, whoever writes to debugfs, opens and closes.  *)
THEOREM FramesAlwaysInTurn == DriverSpec => []FramesInTurn
<1> DEFINE Inv == DriverType /\ BusKept /\ FramesOrdered
<1>1. DriverInit => Inv
  <2>1. ASSUME DriverInit PROVE FramesOrdered
    <3>1. bus = <<>> /\ log.stored = <<>> /\ works.tx = <<>> /\ log.taken = 0
      BY <2>1 DEF DriverInit
    <3>2. <<>> \o <<>> = <<>> /\ <<>> = [k \in 1 .. 0 |-> k]
      OBVIOUS
    <3>3. QED
      BY <3>1, <3>2 DEF FramesOrdered, Turns
  <2>2. QED
    BY <2>1, BasicInit
<1>2. Inv /\ [DriverNext]_driverVars => Inv'
  BY BasicStep, FramesStep
<1>3. Inv => FramesInTurn
  <2>1. ASSUME Inv, NEW i \in DOMAIN bus, bus[i].kind = "frame"
        PROVE  {j \in DOMAIN bus : bus[j].kind = "frame"} = {i}
    BY <2>1 DEF BusKept
  <2>2. QED
    BY <2>1 DEF FramesOrdered, FramesInTurn, Turns
<1>4. QED
  BY <1>1, <1>2, <1>3, PTL DEF DriverSpec

-----------------------------------------------------------------------------
(* ExchangeWhole.  Nobody writes to debugfs, and the device is opened once: *)
(* the others do not take the mutex (main.c:1057-1117, 579-590).            *)
OneOpenNoWriters == SpeedWriters \cup PowerWriters = {} /\ MaxOpens <= 1

Sent(kinds) == \E i \in DOMAIN bus : bus[i].kind \in kinds
Exchanging  == pc["rx"] \in {"len", "packet", "zeros"}

(* The owner of the mutex is the thread whose messages are on their way;    *)
(* the mode is set once, before the first packet; a packet that waits has   *)
(* one who will ask for it, one that is asked for has one who fetches it.   *)
ExchangeInv ==
  /\ ~fpga.broken /\ ~Sent({"cmd"})
  /\ irq.disabled = 0 /\ ~irq.latched
  /\ works.owner = "tx" <=> pc["tx"] \in {"write", "wake"}
  /\ works.owner = "rx" <=> Exchanging
  /\ ~fpga.configured => fpga.phase = "quiet"
  /\ dev.opens <= 1
  /\ dev.opens = 0 =>
       ~dev.up /\ pc["open"] # "wait" /\ ~Sent({"config"}) /\ ~fpga.configured
  /\ Sent({"config"}) => ~fpga.configured
  /\ Asked => \/ pc["rx"] = "len" /\ ~Sent({"len"})
              \/ Sent({"packet", "zeros"})
  /\ pc["rx"] = "len" /\ ~Sent({"len"}) => Asked
  /\ works.irqwork \/ pc["rx"] = "lock" \/ Sent({"len"}) => fpga.phase = "announced"
  /\ ~(works.irqwork /\ (pc["rx"] = "lock" \/ Sent({"len"})))

(* A message given to the SPI core is on its way.                           *)
LEMMA SentGiven ==
  ASSUME DriverType, NEW t \in Threads, NEW kind \in Kinds, NEW arg \in Nat,
         Give(t, kind, arg), NEW K
  PROVE  Sent(K)' <=> Sent(K) \/ kind \in K
<1>1. [by |-> t, kind |-> kind, arg |-> arg] \in Message /\ bus \in Seq(Message)
  BY DEF Message, DriverType
<1>2. /\ DOMAIN bus' = DOMAIN bus \cup {Len(bus) + 1}
      /\ bus'[Len(bus) + 1] = [by |-> t, kind |-> kind, arg |-> arg]
      /\ \A i \in DOMAIN bus : bus'[i] = bus[i]
  BY <1>1, Added DEF Give
<1>3. QED
  BY <1>2 DEF Sent

(* A message that is completed is not, but for others of its kind.          *)
LEMMA SentTaken ==
  ASSUME DriverType, BusKept, bus # <<>>, bus' = Tail(bus), NEW K
  PROVE  /\ Head(bus) = bus[1] /\ 1 \in DOMAIN bus
         /\ Sent(K)' => Sent(K)
         /\ Sent(K) /\ Head(bus).kind \notin K => Sent(K)'
         /\ (\A i \in DOMAIN bus : bus[i].kind \in K => bus[i].by = Head(bus).by)
              => ~Sent(K)'
<1>1. bus \in Seq(Message)
  BY DEF DriverType
<1>2. /\ Head(bus) = bus[1] /\ 1 \in DOMAIN bus
      /\ \A i \in DOMAIN bus' : i + 1 \in DOMAIN bus /\ i + 1 # 1 /\ bus'[i] = bus[i + 1]
      /\ \A i \in DOMAIN bus \ {1} : i - 1 \in DOMAIN bus' /\ bus'[i - 1] = bus[i]
  BY <1>1, Taken
<1>3. Sent(K)' => Sent(K)
  BY <1>2 DEF Sent
<1>4. ASSUME NEW i \in DOMAIN bus, bus[i].kind \in K, Head(bus).kind \notin K
      PROVE  Sent(K)'
  <2>1. i \in DOMAIN bus \ {1}
    BY <1>2, <1>4
  <2>2. QED
    BY <1>2, <1>4, <2>1 DEF Sent
<1>5. ASSUME \A i \in DOMAIN bus : bus[i].kind \in K => bus[i].by = Head(bus).by,
             NEW j \in DOMAIN bus', bus'[j].kind \in K
      PROVE  FALSE
  <2>1. j + 1 \in DOMAIN bus /\ j + 1 # 1 /\ bus[j + 1].by = bus[1].by
    BY <1>2, <1>5
  <2>2. QED
    BY <1>2, <2>1 DEF BusKept
<1>6. QED
  BY <1>2, <1>3, <1>4, <1>5 DEF Sent

(* Who waits for a message of which kind.                                   *)
LEMMA SentBy ==
  ASSUME DriverType, BusKept, OneOpenNoWriters
  PROVE  /\ Sent({"frame"}) => pc["tx"] = "write"
         /\ Sent({"len"}) => pc["rx"] = "len"
         /\ Sent({"packet", "zeros"}) => pc["rx"] \in {"packet", "zeros"}
         /\ Sent({"config"}) => pc["open"] = "wait"
         /\ Threads = {"tx", "rx", "open"}
         /\ \A i \in DOMAIN bus : bus[i].kind \in {"config", "cmd"} => bus[i].by = "open"
<1>1. Threads = {"tx", "rx", "open"}
  BY DEF OneOpenNoWriters, Threads, Workers
<1>2. \A i \in DOMAIN bus : bus[i].kind \in {"config", "cmd"} => bus[i].by = "open"
  BY <1>1, BusTyped DEF BusKept
<1>3. QED
  BY <1>1, <1>2 DEF BusKept, PlaceOf, Sent

(* ExchangeInv is inductive.                                                *)
LEMMA ExchangeStep ==
  ASSUME DriverType, BusKept, DriverType', BusKept', OneOpenNoWriters, ExchangeInv,
         [DriverNext]_driverVars
  PROVE  ExchangeInv'
<1> USE WriterNames, SentBy DEF OneOpenNoWriters, Exchanging, Asked
<1>1. ASSUME UNCHANGED <<works, pc, irq, bus, fpga>>, dev'.opens = dev.opens,
             dev'.up => dev.up \/ dev.opens # 0
      PROVE  ExchangeInv'
  BY <1>1 DEF ExchangeInv, Sent
<1>2. CASE UNCHANGED driverVars
  BY <1>1, <1>2 DEF driverVars
<1>3. CASE TxOk
  <2>1. works'.owner = works.owner /\ works'.irqwork = works.irqwork
        /\ dev'.opens = dev.opens /\ dev'.up = dev.up
    BY <1>3 DEF TxOk, DriverType
  <2>2. QED
    BY <1>3, <2>1 DEF TxOk, ExchangeInv, Sent
<1>4. CASE TxBusy \/ Withdraw
  BY <1>1, <1>4 DEF TxBusy, Withdraw, DriverType
<1>5. CASE TxWrite
  <2>1. Head(works.tx) \in Nat
    BY <1>5, HeadTailProperties DEF TxWrite, DriverType
  <2>2. \A K : "frame" \notin K => (Sent(K)' <=> Sent(K))
    BY <1>5, <2>1, SentGiven DEF TxWrite, Kinds
  <2>3. /\ works'.owner = "tx" /\ works'.irqwork = works.irqwork /\ works.owner = "none"
        /\ pc'["tx"] = "write" /\ pc'["rx"] = pc["rx"]
        /\ pc'["open"] = pc["open"]
        /\ UNCHANGED <<dev, irq, fpga>>
    BY <1>5 DEF TxWrite, Go, DriverType
  <2>4. QED
    BY <2>2, <2>3 DEF ExchangeInv
<1>6. CASE TxWake
  <2>1. /\ pc'["tx"] = "wake" /\ pc["tx"] = "write" /\ pc'["rx"] = pc["rx"]
        /\ pc'["open"] = pc["open"]
        /\ dev'.opens = dev.opens /\ dev'.up = dev.up
        /\ UNCHANGED <<works, irq, bus, fpga>>
    BY <1>6 DEF TxWake, At, Go, DriverType
  <2>2. QED
    BY <2>1 DEF ExchangeInv, Sent
<1>7. CASE TxUnlock
  <2>1. /\ pc'["tx"] = "idle" /\ pc["tx"] = "wake" /\ pc'["rx"] = pc["rx"]
        /\ pc'["open"] = pc["open"]
        /\ works'.owner = "none" /\ works'.irqwork = works.irqwork
        /\ UNCHANGED <<dev, irq, bus, fpga>>
    BY <1>7 DEF TxUnlock, At, Go, DriverType
  <2>2. QED
    BY <2>1 DEF ExchangeInv, Sent
<1>8. CASE RxBegin
  <2>1. /\ pc'["rx"] = "lock" /\ pc["rx"] = "idle" /\ pc'["tx"] = pc["tx"]
        /\ pc'["open"] = pc["open"]
        /\ works'.owner = works.owner /\ works.irqwork /\ ~works'.irqwork
        /\ UNCHANGED <<dev, irq, bus, fpga>>
    BY <1>8 DEF RxBegin, At, Go, DriverType
  <2>2. QED
    BY <2>1 DEF ExchangeInv, Sent
<1>9. CASE RxAskLen
  <2>1. \A K : Sent(K)' <=> Sent(K) \/ "len" \in K
    BY <1>9, SentGiven DEF RxAskLen, Kinds
  <2>2. /\ pc'["rx"] = "len" /\ pc["rx"] = "lock" /\ pc'["tx"] = pc["tx"]
        /\ pc'["open"] = pc["open"]
        /\ works'.owner = "rx" /\ works.owner = "none" /\ works'.irqwork = works.irqwork
        /\ UNCHANGED <<dev, irq, fpga>>
    BY <1>9 DEF RxAskLen, At, Go, DriverType
  <2>3. QED
    BY <2>1, <2>2 DEF ExchangeInv
<1>10. CASE RxAskPacket
  <2>1. PICK k \in {"packet", "zeros"} : Give("rx", k, 0) /\ Go("rx", k)
    BY <1>10 DEF RxAskPacket
  <2>2. \A K : Sent(K)' <=> Sent(K) \/ k \in K
    BY <2>1, SentGiven DEF Kinds
  <2>3. ~Sent({"len"})
    BY <1>10 DEF RxAskPacket, Completed, BusKept, Sent
  <2>4. /\ pc'["rx"] = k /\ pc["rx"] = "len" /\ pc'["tx"] = pc["tx"]
        /\ pc'["open"] = pc["open"]
        /\ UNCHANGED <<dev, works, irq, fpga>>
    BY <1>10, <2>1 DEF RxAskPacket, At, Go, DriverType
  <2>5. QED
    BY <2>2, <2>3, <2>4 DEF ExchangeInv
<1>11. CASE RxEnd
  <2>1. /\ pc'["rx"] = "idle" /\ pc["rx"] \in {"packet", "zeros"} /\ pc'["tx"] = pc["tx"]
        /\ pc'["open"] = pc["open"]
        /\ works'.owner = "none" /\ works'.irqwork = works.irqwork
        /\ UNCHANGED <<dev, irq, bus, fpga>>
    BY <1>11 DEF RxEnd, At, Go, DriverType
  <2>2. ~Sent({"packet", "zeros"}) /\ ~Sent({"len"})
    BY <1>11 DEF RxEnd, Completed, BusKept, Sent
  <2>3. QED
    BY <2>1, <2>2 DEF ExchangeInv, Sent
<1>12. CASE Announce
  <2>1. /\ fpga.phase = "quiet" /\ fpga.configured /\ fpga'.phase = "announced"
        /\ fpga'.configured = fpga.configured /\ fpga'.broken = fpga.broken
        /\ UNCHANGED <<dev, pc, bus>>
    BY <1>12 DEF Announce, DriverType
  <2>2. irq'.disabled = irq.disabled /\ works'.owner = works.owner
    BY <1>12 DEF Announce, Edge, DriverType
  <2>3. irq'.latched => irq.latched \/ irq.disabled > 0
    BY <1>12 DEF Announce, Edge, DriverType
  <2>4. QED
    BY <2>1, <2>2, <2>3 DEF ExchangeInv, Sent
<1>13. CASE ShiftedOut
  <2>1. /\ fpga.phase = "asked" /\ fpga'.phase = "quiet"
        /\ fpga'.configured = fpga.configured /\ fpga'.broken = fpga.broken
        /\ UNCHANGED <<dev, works, pc, irq, bus>>
    BY <1>13 DEF ShiftedOut, DriverType
  <2>2. Sent({"packet", "zeros"}) /\ ~Sent({"len"})
    <3>1. bus # <<>> /\ bus \in Seq(Message) /\ Head(bus).kind \in {"packet", "zeros"}
      BY <1>13 DEF ShiftedOut, DriverType
    <3>2. 1 \in DOMAIN bus /\ Head(bus) = bus[1]
      BY <3>1, Taken
    <3>3. QED
      BY <3>1, <3>2 DEF Sent
  <2>3. QED
    BY <2>1, <2>2 DEF ExchangeInv, Sent
<1>14. CASE BusDone
  <2>1. bus # <<>> /\ bus' = Tail(bus) /\ UNCHANGED <<dev, timer, pc, irq>>
    BY <1>14 DEF BusDone
  <2>2. \A K : /\ Sent(K)' => Sent(K)
               /\ Sent(K) /\ Head(bus).kind \notin K => Sent(K)'
               /\ (\A i \in DOMAIN bus : bus[i].kind \in K => bus[i].by = Head(bus).by)
                    => ~Sent(K)'
    BY <2>1, SentTaken
  <2>3. \A K : Head(bus).kind \in K => Sent(K)
    BY <2>1, SentTaken DEF Sent
  <2>4. works'.owner = works.owner /\ works'.irqwork = works.irqwork
    BY <1>14 DEF BusDone, LenDone, ConfigDone, FrameDone, CmdDone, ShiftedDone, DriverType
  <2>5. CASE LenDone
    <3>1. Sent({"len"})
      BY <2>3, <2>5 DEF LenDone
    <3>2. Head(bus).by = "rx"
      BY <2>1, <2>5, SentTaken DEF LenDone, BusKept
    <3>3. ~Sent({"len"})'
      BY <2>2, <3>2 DEF BusKept
    <3>4. /\ fpga'.phase = "asked" /\ fpga'.configured = fpga.configured
          /\ fpga.phase = "announced" => fpga'.broken = fpga.broken
      BY <2>5 DEF LenDone, DriverType
    <3>5. QED
      BY <2>1, <2>2, <2>4, <3>1, <3>3, <3>4 DEF ExchangeInv
  <2>6. CASE ConfigDone
    <3>1. Sent({"config"}) /\ Head(bus).kind = "config"
      BY <2>3, <2>6 DEF ConfigDone
    <3>2. Head(bus).by = "open"
      BY <2>1, <3>1, SentTaken
    <3>3. ~Sent({"config"})'
      BY <2>2, <3>2
    <3>4. ~fpga.configured /\ fpga.phase = "quiet" /\ dev.opens # 0
      BY <3>1 DEF ExchangeInv
    <3>5. fpga'.phase = "quiet" /\ fpga'.configured /\ fpga'.broken = fpga.broken
      BY <2>6, <3>4 DEF ConfigDone, DriverType
    <3>6. QED
      BY <2>1, <2>2, <2>4, <3>1, <3>3, <3>4, <3>5 DEF ExchangeInv
  <2>7. CASE FrameDone
    <3>1. Sent({"frame"}) /\ Head(bus).kind = "frame"
      BY <2>3, <2>7 DEF FrameDone
    <3>2. fpga.phase # "asked"
      BY <3>1 DEF ExchangeInv
    <3>3. fpga'.phase = fpga.phase /\ fpga'.configured = fpga.configured
          /\ fpga'.broken = fpga.broken
      BY <2>7, <3>2 DEF FrameDone, DriverType
    <3>4. QED
      BY <2>1, <2>2, <2>4, <3>1, <3>3 DEF ExchangeInv
  <2>8. CASE CmdDone
    <3>1. Sent({"cmd"})
      BY <2>3, <2>8 DEF CmdDone
    <3>2. QED
      BY <3>1 DEF ExchangeInv
  <2>9. CASE ShiftedDone
    <3>1. fpga' = fpga /\ fpga.phase # "asked" /\ Sent({"packet", "zeros"})
          /\ Head(bus).kind \in {"packet", "zeros"}
      BY <2>3, <2>9 DEF ShiftedDone
    <3>2. QED
      BY <2>1, <2>2, <2>4, <3>1 DEF ExchangeInv
  <2>10. QED
    BY <1>14, <2>5, <2>6, <2>7, <2>8, <2>9 DEF BusDone
<1>15. CASE Open
  <2>1. dev.opens = 0 /\ dev'.opens = 1 /\ dev'.up = dev.up /\ pc["open"] = "idle"
    BY <1>15, DriverAssumption DEF Open, At, DriverType
  <2>2. \A K : Sent(K)' <=> Sent(K) \/ "config" \in K
    BY <1>15, SentGiven DEF Open, Kinds
  <2>3. pc'["tx"] = pc["tx"] /\ pc'["rx"] = pc["rx"]
    BY <1>15 DEF Open, Go, DriverType
  <2>4. QED
    BY <1>15, <2>1, <2>2, <2>3 DEF Open, ExchangeInv
<1>16. CASE OpenDone
  <2>1. pc'["tx"] = pc["tx"] /\ pc'["rx"] = pc["rx"] /\ pc["open"] = "wait"
        /\ dev'.opens = dev.opens
    BY <1>16 DEF OpenDone, Go, At, DriverType
  <2>2. QED
    BY <1>16, <2>1 DEF OpenDone, ExchangeInv, Sent
<1>17. CASE Release
  BY <1>17, DriverAssumption DEF Release, ExchangeInv, DriverType
<1>18. QED
  BY <1>2, <1>3, <1>4, <1>5, <1>6, <1>7, <1>8, <1>9, <1>10, <1>11, <1>12, <1>13,
     <1>14, <1>15, <1>16, <1>17 DEF DriverNext, TxThread, RxThread, Bus

(* No exchange at the start.                                                *)
LEMMA ExchangeInit == DriverInit => ExchangeInv
BY WriterNames DEF DriverInit, ExchangeInv, Exchanging, Asked, Sent

(* No message comes between the two of a reception and none is begun        *)
(* without a packet to fetch: the FPGA never takes one for the clock of     *)
(* another, for any number of frames and packets.                           *)
THEOREM ExchangeAlwaysWhole ==
  ASSUME OneOpenNoWriters
  PROVE  DriverSpec => []ExchangeWhole
<1> DEFINE Inv == DriverType /\ BusKept /\ ExchangeInv
<1>1. DriverInit => Inv
  BY BasicInit, ExchangeInit
<1>2. Inv /\ [DriverNext]_driverVars => Inv'
  BY BasicStep, ExchangeStep
<1>3. Inv => ExchangeWhole
  BY DEF ExchangeInv, ExchangeWhole
<1>4. QED
  BY <1>1, <1>2, <1>3, PTL DEF DriverSpec

-----------------------------------------------------------------------------
(* PacketsInTurn.  A packet announced is waiting, being read, handed over   *)
(* or thrown away, and while it is read the driver has its length.          *)
Fitting == {n \in DOMAIN log.announced : log.announced[n] = "fits"}
Reading == Asked \/ pc["rx"] \in {"packet", "zeros"}
LengthsKnown ==
  /\ fpga.phase = "announced" => fpga.length \in {"fits", "long"}
  /\ Reading => works.len \in {"fits", "long"}
  /\ pc["rx"] = "packet" => works.len = "fits"
  /\ pc["rx"] = "zeros" => works.len = "long"
HandedFit == \A n \in DOMAIN log.handed : log.handed[n] = "fits"
FitWaits    == IF fpga.phase = "announced" /\ fpga.length = "fits" THEN 1 ELSE 0
FitRead     == IF Reading /\ works.len = "fits" THEN 1 ELSE 0
FitsCounted == Cardinality(Fitting) = Len(log.handed) + FitWaits + FitRead
AllCounted ==
  Len(log.announced) = Len(log.handed) + log.dropped
    + (IF fpga.phase = "announced" THEN 1 ELSE 0) + (IF Reading THEN 1 ELSE 0)

PacketsCounted ==
  LengthsKnown /\ HandedFit /\ IsFiniteSet(Fitting) /\ FitsCounted /\ AllCounted

(* A packet is counted once at each place it passes.                        *)
LEMMA PacketsStep ==
  ASSUME DriverType, BusKept, OneOpenNoWriters, ExchangeInv, PacketsCounted,
         [DriverNext]_driverVars
  PROVE  PacketsCounted'
<1> USE WriterNames
<1>0. /\ log.handed \in Seq(Sizes) /\ log.announced \in Seq(Sizes) /\ log.dropped \in Nat
      /\ Len(log.handed) \in Nat /\ Len(log.announced) \in Nat
      /\ pc["rx"] \in Places /\ Cardinality(Fitting) \in Nat
  <2>1. Cardinality(Fitting) \in Nat
    BY FS_CardinalityType DEF PacketsCounted
  <2>2. QED
    BY <2>1 DEF DriverType
(* A step that leaves all this alone.                                       *)
<1>1. ASSUME fpga'.phase = fpga.phase, fpga'.length = fpga.length, works'.len = works.len,
             log'.handed = log.handed, log'.announced = log.announced,
             log'.dropped = log.dropped,
             pc'["rx"] \in {"packet", "zeros"} <=> pc["rx"] \in {"packet", "zeros"},
             pc'["rx"] = "packet" <=> pc["rx"] = "packet"
      PROVE  PacketsCounted'
  <2>1. Fitting' = Fitting
    BY <1>1 DEF Fitting
  <2>2. Reading' <=> Reading
    BY <1>1 DEF Reading, Asked
  <2>3. QED
    BY <1>1, <2>1, <2>2 DEF PacketsCounted, LengthsKnown, HandedFit, FitsCounted, FitWaits, FitRead,
             AllCounted
<1>2. CASE UNCHANGED driverVars
  BY <1>1, <1>2 DEF driverVars
<1>3. CASE TxOk \/ TxBusy \/ Withdraw \/ TxThread \/ Open \/ OpenDone \/ Release
  <2>1. pc'["rx"] = pc["rx"] /\ fpga' = fpga
    BY <1>3 DEF TxOk, TxBusy, Withdraw, TxThread, TxWrite, TxWake, TxUnlock, Open,
                OpenDone, Release, Go, DriverType
  <2>2. works'.len = works.len
    BY <1>3 DEF TxOk, TxBusy, Withdraw, TxThread, TxWrite, TxWake, TxUnlock, Open,
                OpenDone, Release, DriverType
  <2>3. log'.handed = log.handed /\ log'.announced = log.announced
        /\ log'.dropped = log.dropped
    BY <1>3 DEF TxOk, TxBusy, Withdraw, TxThread, TxWrite, TxWake, TxUnlock, Open,
                OpenDone, Release, DriverType
  <2>4. QED
    BY <1>1, <2>1, <2>2, <2>3
<1>4. CASE RxBegin \/ RxAskLen
  <2>1. pc["rx"] \in {"idle", "lock"} /\ pc'["rx"] \in {"lock", "len"}
    BY <1>4 DEF RxBegin, RxAskLen, At, Go, DriverType
  <2>2. works'.len = works.len /\ UNCHANGED <<fpga, log>>
    BY <1>4 DEF RxBegin, RxAskLen, DriverType
  <2>3. QED
    BY <1>1, <2>1, <2>2
<1>5. CASE RxAskPacket
  <2>1. ~Sent({"len"}) /\ pc["rx"] = "len"
    BY <1>5 DEF RxAskPacket, Completed, BusKept, Sent, At
  <2>2. Asked
    BY <2>1 DEF ExchangeInv
  <2>3. /\ works.len = "fits" => pc'["rx"] = "packet"
        /\ works.len # "fits" => pc'["rx"] = "zeros"
    BY <1>5 DEF RxAskPacket, Go, DriverType
  <2>4. UNCHANGED <<works, fpga, log>>
    BY <1>5 DEF RxAskPacket
  <2>5. QED
    BY <2>1, <2>2, <2>3, <2>4
         DEF PacketsCounted, LengthsKnown, HandedFit, FitsCounted, FitWaits, FitRead,
             AllCounted, Fitting,
             Reading, Asked
<1>6. CASE RxEnd
  <2>1. ~Sent({"packet", "zeros"}) /\ pc["rx"] \in {"packet", "zeros"}
    BY <1>6 DEF RxEnd, Completed, BusKept, Sent, At
  <2>2. ~Asked
    BY <2>1 DEF ExchangeInv
  <2>3. pc'["rx"] = "idle" /\ works'.len = works.len /\ fpga' = fpga
    BY <1>6 DEF RxEnd, Go, DriverType
  <2>4. CASE pc["rx"] = "packet"
    <3>1. log' = [log EXCEPT !.handed = Append(log.handed, works.len)]
      BY <1>6, <2>4 DEF RxEnd, At
    <3>2. works.len = "fits" /\ works.len \in Sizes
      BY <2>4 DEF PacketsCounted, LengthsKnown, Sizes
    <3>3. /\ log'.handed = Append(log.handed, works.len)
          /\ log'.announced = log.announced /\ log'.dropped = log.dropped
      BY <3>1 DEF DriverType
    <3>4. /\ Len(log'.handed) = Len(log.handed) + 1
          /\ \A n \in DOMAIN log'.handed : log'.handed[n] = "fits"
      BY <1>0, <3>2, <3>3, Added DEF PacketsCounted, HandedFit
    <3>5. Fitting' = Fitting
      BY <3>3 DEF Fitting
    <3>6. Reading /\ ~Reading'
      BY <2>1, <2>2, <2>3 DEF Reading, Asked
    <3>7. LengthsKnown' /\ HandedFit'
      BY <2>3, <3>4, <3>6 DEF PacketsCounted, LengthsKnown, HandedFit
    <3>8. FitsCounted'
      <4>1. FitRead = 1 /\ FitRead' = 0 /\ FitWaits' = FitWaits /\ FitWaits \in Nat
        BY <2>3, <3>2, <3>6 DEF FitWaits, FitRead
      <4>2. QED
        BY <1>0, <3>4, <3>5, <4>1 DEF PacketsCounted, FitsCounted
    <3>9. AllCounted'
      BY <1>0, <2>3, <3>3, <3>4, <3>6 DEF PacketsCounted, AllCounted
    <3>10. QED
      BY <3>5, <3>7, <3>8, <3>9 DEF PacketsCounted
  <2>5. CASE pc["rx"] = "zeros"
    <3>1. log' = [log EXCEPT !.dropped = log.dropped + 1]
      BY <1>6, <2>5 DEF RxEnd, At
    <3>2. /\ log'.handed = log.handed /\ log'.announced = log.announced
          /\ log'.dropped = log.dropped + 1
      BY <3>1 DEF DriverType
    <3>3. Fitting' = Fitting
      BY <3>2 DEF Fitting
    <3>4. Reading /\ ~Reading' /\ works.len = "long"
      BY <2>2, <2>3, <2>5 DEF Reading, Asked, PacketsCounted, LengthsKnown
    <3>5. LengthsKnown' /\ HandedFit'
      BY <2>3, <3>2, <3>4 DEF PacketsCounted, LengthsKnown, HandedFit
    <3>6. FitRead = 0 /\ FitRead' = 0 /\ FitWaits' = FitWaits
      BY <2>3, <3>4 DEF FitWaits, FitRead
    <3>7. FitsCounted'
      BY <3>2, <3>3, <3>6 DEF PacketsCounted, FitsCounted
    <3>8. AllCounted'
      <4>1. PICK w \in {0, 1} : w = (IF fpga.phase = "announced" THEN 1 ELSE 0)
        OBVIOUS
      <4>2. Len(log.announced) = Len(log.handed) + log.dropped + w + 1
        BY <3>4, <4>1 DEF PacketsCounted, AllCounted
      <4>3. Len(log'.announced) = Len(log'.handed) + log'.dropped + w + 0
        BY <1>0, <3>2, <4>1, <4>2
      <4>4. QED
        BY <2>3, <3>4, <4>1, <4>3 DEF AllCounted
    <3>9. QED
      BY <3>3, <3>5, <3>7, <3>8 DEF PacketsCounted
  <2>6. QED
    BY <2>1, <2>4, <2>5
<1>7. CASE Announce
  <2>1. PICK l \in {"fits", "long"} :
          /\ fpga' = [fpga EXCEPT !.phase = "announced", !.length = l]
          /\ log' = [log EXCEPT !.announced = Append(log.announced, l)]
    BY <1>7, DriverAssumption DEF Announce
  <2>2. /\ fpga'.phase = "announced" /\ fpga'.length = l /\ fpga.phase = "quiet"
        /\ log'.announced = Append(log.announced, l)
        /\ log'.handed = log.handed /\ log'.dropped = log.dropped /\ pc' = pc
    BY <1>7, <2>1 DEF Announce, DriverType
  <2>3. works'.len = works.len
    BY <1>7 DEF Announce, Edge, DriverType
  <2>4. DEFINE n == Len(log.announced) + 1
  <2>5. /\ DOMAIN log'.announced = DOMAIN log.announced \cup {n}
        /\ n \notin DOMAIN log.announced /\ log'.announced[n] = l
        /\ Len(log'.announced) = Len(log.announced) + 1
        /\ \A i \in DOMAIN log.announced : log'.announced[i] = log.announced[i]
    BY <1>0, <2>2, Added DEF Sizes
  <2>6. Reading' <=> Reading
    BY <2>2 DEF Reading, Asked
  <2>7. CASE l = "fits"
    <3>1. Fitting' = Fitting \cup {n} /\ n \notin Fitting
      BY <2>5, <2>7 DEF Fitting
    <3>2. IsFiniteSet(Fitting') /\ Cardinality(Fitting') = Cardinality(Fitting) + 1
      BY <3>1, FS_AddElement DEF PacketsCounted
    <3>3. LengthsKnown' /\ HandedFit'
      BY <2>2, <2>3, <2>6, <2>7 DEF PacketsCounted, LengthsKnown, HandedFit
    <3>4. FitsCounted'
      <4>1. FitWaits = 0 /\ FitWaits' = 1 /\ FitRead' = FitRead /\ FitRead \in Nat
        BY <2>2, <2>3, <2>6, <2>7 DEF FitWaits, FitRead
      <4>2. QED
        BY <1>0, <2>2, <3>2, <4>1 DEF PacketsCounted, FitsCounted
    <3>5. AllCounted'
      BY <1>0, <2>2, <2>5, <2>6 DEF PacketsCounted, AllCounted
    <3>6. QED
      BY <3>2, <3>3, <3>4, <3>5 DEF PacketsCounted
  <2>8. CASE l = "long"
    <3>1. Fitting' = Fitting
      BY <2>5, <2>8 DEF Fitting
    <3>2. LengthsKnown' /\ HandedFit'
      BY <2>2, <2>3, <2>6, <2>8 DEF PacketsCounted, LengthsKnown, HandedFit
    <3>3. FitsCounted'
      BY <1>0, <2>2, <2>3, <2>6, <2>8, <3>1 DEF PacketsCounted, FitsCounted, FitWaits, FitRead
    <3>4. AllCounted'
      BY <1>0, <2>2, <2>5, <2>6 DEF PacketsCounted, AllCounted
    <3>5. QED
      BY <3>1, <3>2, <3>3, <3>4 DEF PacketsCounted
  <2>9. QED
    BY <2>7, <2>8
<1>8. CASE ShiftedOut
  <2>1. /\ fpga.phase = "asked" /\ fpga'.phase = "quiet"
        /\ UNCHANGED <<works, pc, log>>
    BY <1>8 DEF ShiftedOut, Asked, DriverType
  <2>2. pc["rx"] \in {"packet", "zeros"}
    <3>1. bus # <<>> /\ bus \in Seq(Message) /\ Head(bus).kind \in {"packet", "zeros"}
      BY <1>8 DEF ShiftedOut, DriverType
    <3>2. Sent({"packet", "zeros"})
      BY <3>1, Taken DEF Sent
    <3>3. QED
      BY <3>2, SentBy
  <2>3. QED
    BY <2>1, <2>2
         DEF PacketsCounted, LengthsKnown, HandedFit, FitsCounted, FitWaits, FitRead,
             AllCounted, Fitting,
             Reading, Asked
<1>9. CASE BusDone
  <2>1. bus # <<>> /\ bus' = Tail(bus) /\ pc' = pc
    BY <1>9 DEF BusDone
  <2>2. \A K : Head(bus).kind \in K => Sent(K)
    BY <2>1, SentTaken DEF Sent
  <2>3. CASE LenDone
    <3>1. Sent({"len"})
      BY <2>2, <2>3 DEF LenDone
    <3>2. pc["rx"] = "len" /\ fpga.phase = "announced"
      BY <3>1, SentBy DEF ExchangeInv
    <3>3. works'.len = fpga.length /\ fpga'.phase = "asked" /\ fpga'.length = fpga.length
          /\ log' = log
      BY <2>3 DEF LenDone, DriverType
    <3>4. QED
      BY <1>0, <2>1, <3>2, <3>3
         DEF PacketsCounted, LengthsKnown, HandedFit, FitsCounted, FitWaits, FitRead,
             AllCounted, Fitting,
             Reading, Asked
  <2>4. CASE ConfigDone
    <3>1. fpga.phase = "quiet"
      BY <2>2, <2>4 DEF ConfigDone, ExchangeInv
    <3>2. fpga'.phase = fpga.phase /\ fpga'.length = fpga.length /\ UNCHANGED <<works, log>>
      BY <2>4, <3>1 DEF ConfigDone, Asked, DriverType
    <3>3. QED
      BY <1>1, <2>1, <3>2
  <2>5. CASE FrameDone \/ CmdDone \/ ShiftedDone
    <3>1. /\ fpga'.phase = fpga.phase /\ fpga'.length = fpga.length /\ works' = works
          /\ log'.handed = log.handed /\ log'.announced = log.announced
          /\ log'.dropped = log.dropped
      BY <2>5 DEF FrameDone, CmdDone, ShiftedDone, DriverType
    <3>2. QED
      BY <1>1, <2>1, <3>1
  <2>6. QED
    BY <1>9, <2>3, <2>4, <2>5 DEF BusDone
<1>10. QED
  BY <1>2, <1>3, <1>4, <1>5, <1>6, <1>7, <1>8, <1>9 DEF OneOpenNoWriters, DriverNext,
     RxThread, Bus

(* The network stack is handed the packets that fit and no other: each is   *)
(* handed over, being read, or the one that waits; no more are handed over  *)
(* and thrown away than were announced.                                     *)
THEOREM PacketsAlwaysInTurn ==
  ASSUME OneOpenNoWriters
  PROVE  DriverSpec => []PacketsInTurn
<1> DEFINE Inv == DriverType /\ BusKept /\ ExchangeInv /\ PacketsCounted
<1>1. DriverInit => Inv
  <2>1. ASSUME DriverInit PROVE PacketsCounted
    <3>1. log.announced = <<>> /\ log.handed = <<>> /\ log.dropped = 0
          /\ fpga.phase = "quiet" /\ pc["rx"] = "idle"
      BY <2>1, WriterNames DEF DriverInit
    <3>2. Fitting = {}
      BY <3>1 DEF Fitting
    <3>3. QED
      BY <3>1, <3>2, FS_EmptySet DEF PacketsCounted, LengthsKnown, HandedFit,
           FitsCounted, FitWaits, FitRead, AllCounted, Reading, Asked
  <2>2. QED
    BY <2>1, BasicInit, ExchangeInit
<1>2. Inv /\ [DriverNext]_driverVars => Inv'
  BY BasicStep, ExchangeStep, PacketsStep
<1>3. Inv => PacketsInTurn
  <2>1. ASSUME Inv PROVE PacketsInTurn
    <3>1. Len(log.handed) \in Nat /\ log.dropped \in Nat /\ Len(log.announced) \in Nat
      BY <2>1 DEF DriverType
    <3>2. Cardinality(Fitting) \in Nat
      BY <2>1, FS_CardinalityType DEF PacketsCounted
    <3>3. Cardinality(Fitting) - Len(log.handed) \in
            (IF fpga.phase = "announced" THEN 0 .. 2 ELSE 0 .. 1)
      <4>1. CASE fpga.phase = "announced"
        <5>1. PICK a \in {0, 1}, b \in {0, 1} : Cardinality(Fitting) = Len(log.handed) + a + b
          BY <2>1 DEF PacketsCounted, FitsCounted, FitWaits, FitRead
        <5>2. QED
          BY <3>1, <3>2, <4>1, <5>1
      <4>2. CASE fpga.phase # "announced"
        BY <2>1, <3>1, <3>2, <4>2 DEF PacketsCounted, FitsCounted, FitWaits, FitRead
      <4>3. QED
        BY <4>1, <4>2
    <3>4. Len(log.handed) + log.dropped <= Len(log.announced)
      BY <2>1, <3>1 DEF PacketsCounted, AllCounted
    <3>5. QED
      BY <2>1, <3>3, <3>4 DEF PacketsInTurn, PacketsCounted, HandedFit, Fitting
  <2>2. QED
    BY <2>1
<1>4. QED
  BY <1>1, <1>2, <1>3, PTL DEF DriverSpec
=============================================================================
