----------------------------- MODULE SifDriver -----------------------------
(***************************************************************************)
(* fpga-si4463/kernel_module/main.c: the threads of the driver.  The        *)
(* network stack calls si4463_tx, which stops the queue and leaves the frame *)
(* to a single-threaded work queue; a falling edge of cpu_recv_int schedules *)
(* irqwork, which reads a packet by two messages; mutex_txrx keeps the two  *)
(* works apart.  Writers of debugfs send messages of their own and do not   *)
(* take the mutex.  Opening the device sends the default mode.              *)
(*                                                                          *)
(* A thread runs until it waits: for the mutex or for its message.  The SPI *)
(* core takes the messages of all of them in turn.  Behind it is Slave_Ctrl, *)
(* seen by whole messages.  A frame is its number, a packet is the class of *)
(* its length.                                                              *)
(***************************************************************************)
EXTENDS Integers, Sequences, FiniteSets

CONSTANTS
  SpeedWriters,  \* the processes that may write to speed_kbps of debugfs
  PowerWriters,  \* and to power_lvl
  Lengths,       \* the packets: "fits", or "long", above MAXPACKETLEN
  RamFull,       \* whether ISRAMFULL may be read: a subset of BOOLEAN
  MaxFrames,     \* bounds: frames offered by the network stack,
  MaxPackets,    \* packets announced by the FPGA,
  MaxWrites,     \* writes to debugfs,
  MaxOpens       \* times the device is opened

Workers == {"tx", "rx", "open"}
Threads == Workers \cup SpeedWriters \cup PowerWriters

ASSUME DriverAssumption ==
  /\ RamFull \subseteq BOOLEAN /\ Lengths \subseteq {"fits", "long"}
  /\ Workers \cap (SpeedWriters \cup PowerWriters) = {}
  /\ SpeedWriters \cap PowerWriters = {}
  /\ {MaxFrames, MaxPackets, MaxWrites, MaxOpens} \subseteq Nat

VARIABLES
  dev,      \* the network device: up, its queue stopped, its open and release
  timer,    \* tx_withdraw_timer: "idle", "pending", or "bug" if added twice
  works,    \* frames on dev_workqueue, irqwork and the length it was told,
            \* the owner of mutex_txrx, writes to debugfs so far
  pc,       \* where each thread is
  irq,      \* the interrupt: requested, disabled how often, latched meanwhile
  bus,      \* the messages given to the SPI core, in order
  fpga,     \* Slave_Ctrl: whether the radio was ever configured, what of a
            \* packet was handed out, whether an exchange was broken
  log       \* frames taken and stored, packets announced and handed over

driverVars == <<dev, timer, works, pc, irq, bus, fpga, log>>

DriverInit ==
  /\ dev = [up |-> FALSE, on |-> FALSE, opens |-> 0]
  /\ timer = "idle"
  /\ works = [tx |-> <<>>, irqwork |-> FALSE, owner |-> "none",
              len |-> "none", writes |-> 0]
  /\ pc = [t \in Threads |-> "idle"]
  /\ irq = [requested |-> TRUE, disabled |-> 0, latched |-> FALSE]
  /\ bus = <<>>
  /\ fpga = [configured |-> FALSE, phase |-> "quiet", length |-> "none",
             broken |-> FALSE]
  /\ log = [taken |-> 0, stored |-> <<>>, announced |-> <<>>, handed |-> <<>>,
            dropped |-> 0]

-----------------------------------------------------------------------------
(* spidev_sync: give a message to the core, wait until it is done.          *)
Give(t, kind, arg) == bus' = Append(bus, [by |-> t, kind |-> kind, arg |-> arg])
Completed(t) == \A i \in DOMAIN bus : bus[i].by # t

At(t, from) == pc[t] = from /\ timer # "bug"
Go(t, to)   == pc' = [pc EXCEPT ![t] = to]

(* si4463_tx.  The stack calls it while the queue is not stopped, one frame *)
(* at a time, and offers the same frame again if it was busy.  add_timer is *)
(* not for a timer that is pending.  The timer does not run off before the  *)
(* queue is stopped: both are softirqs, on the one core of the Galileo.     *)
MayTx == dev.up /\ dev.on /\ log.taken < MaxFrames /\ timer # "bug"

TxBusy ==
  /\ MayTx /\ TRUE \in RamFull
  /\ timer' = IF timer = "idle" THEN "pending" ELSE "bug"
  /\ dev' = [dev EXCEPT !.on = FALSE]
  /\ UNCHANGED <<works, pc, irq, bus, fpga, log>>

TxOkLeavesOn ==                  \* wrong: the queue is not stopped
  /\ MayTx /\ FALSE \in RamFull
  /\ works' = [works EXCEPT !.tx = Append(@, log.taken + 1)]
  /\ log' = [log EXCEPT !.taken = @ + 1]
  /\ UNCHANGED <<dev, timer, pc, irq, bus, fpga>>

TxOkFront ==                     \* wrong: the work is put before the others
  /\ MayTx /\ FALSE \in RamFull
  /\ dev' = [dev EXCEPT !.on = FALSE]
  /\ works' = [works EXCEPT !.tx = <<log.taken + 1>> \o @]
  /\ log' = [log EXCEPT !.taken = @ + 1]
  /\ UNCHANGED <<timer, pc, irq, bus, fpga>>

TxOk ==
  /\ MayTx /\ FALSE \in RamFull
  /\ dev' = [dev EXCEPT !.on = FALSE]
  /\ works' = [works EXCEPT !.tx = Append(@, log.taken + 1)]
  /\ log' = [log EXCEPT !.taken = @ + 1]
  /\ UNCHANGED <<timer, pc, irq, bus, fpga>>

(* withdraw: the timer, whose expiry is set once in si4463_probe, runs off.  *)
Withdraw ==
  /\ timer = "pending"
  /\ timer' = "idle"
  /\ dev' = [dev EXCEPT !.on = TRUE]
  /\ UNCHANGED <<works, pc, irq, bus, fpga, log>>

(* si4463_tx_worker and spi_write_packet.                                   *)
TxWriteUnlocked ==               \* wrong: does not take the mutex
  /\ At("tx", "idle") /\ works.tx # <<>>
  /\ works' = [works EXCEPT !.tx = Tail(@)]
  /\ Give("tx", "frame", Head(works.tx)) /\ Go("tx", "write")
  /\ UNCHANGED <<dev, timer, irq, fpga, log>>

TxWrite ==
  /\ At("tx", "idle") /\ works.tx # <<>> /\ works.owner = "none"
  /\ works' = [works EXCEPT !.tx = Tail(@), !.owner = "tx"]
  /\ Give("tx", "frame", Head(works.tx)) /\ Go("tx", "write")
  /\ UNCHANGED <<dev, timer, irq, fpga, log>>

TxWakeNot ==                     \* wrong: the queue is not woken
  /\ At("tx", "write") /\ Completed("tx")
  /\ Go("tx", "wake")
  /\ UNCHANGED <<dev, timer, works, irq, bus, fpga, log>>

TxWake ==
  /\ At("tx", "write") /\ Completed("tx")
  /\ dev' = [dev EXCEPT !.on = TRUE]
  /\ Go("tx", "wake")
  /\ UNCHANGED <<timer, works, irq, bus, fpga, log>>

TxUnlock ==
  /\ At("tx", "wake")
  /\ works' = [works EXCEPT !.owner = "none"]
  /\ Go("tx", "idle")
  /\ UNCHANGED <<dev, timer, irq, bus, fpga, log>>

-----------------------------------------------------------------------------
(* The falling edge of cpu_recv_int: si4463_isr_data schedules irqwork,     *)
(* unless the interrupt is disabled; then the edge is latched.              *)
Edge ==
  /\ works' = [works EXCEPT !.irqwork = @ \/ (irq.requested /\ irq.disabled = 0)]
  /\ irq' = [irq EXCEPT !.latched = @ \/ (irq.requested /\ irq.disabled > 0)]

(* Slave_Ctrl announces a packet when the one before is shifted out, which  *)
(* may be before the driver knows that its message is done.                 *)
Announce ==
  /\ fpga.phase = "quiet" /\ fpga.configured
  /\ Len(log.announced) < MaxPackets
  /\ \E l \in Lengths :
       /\ fpga' = [fpga EXCEPT !.phase = "announced", !.length = l]
       /\ log' = [log EXCEPT !.announced = Append(@, l)]
  /\ Edge
  /\ UNCHANGED <<dev, timer, pc, bus>>

(* si4463_isrwork.  The work is no longer scheduled once it begins.         *)
RxBeginKeeps ==                  \* wrong: scheduled until it is done
  /\ At("rx", "idle") /\ works.irqwork
  /\ Go("rx", "lock")
  /\ UNCHANGED <<dev, timer, works, irq, bus, fpga, log>>

RxBegin ==
  /\ At("rx", "idle") /\ works.irqwork
  /\ works' = [works EXCEPT !.irqwork = FALSE]
  /\ Go("rx", "lock")
  /\ UNCHANGED <<dev, timer, irq, bus, fpga, log>>

RxAskLen ==
  /\ At("rx", "lock") /\ works.owner = "none"
  /\ works' = [works EXCEPT !.owner = "rx"]
  /\ Give("rx", "len", 0) /\ Go("rx", "len")
  /\ UNCHANGED <<dev, timer, irq, fpga, log>>

(* spi_recv_packet, or spi_write_data with as many zeros when it refuses.   *)
RxAskPacket ==
  /\ At("rx", "len") /\ Completed("rx")
  /\ IF works.len = "fits" THEN Give("rx", "packet", 0) /\ Go("rx", "packet")
                           ELSE Give("rx", "zeros", 0) /\ Go("rx", "zeros")
  /\ UNCHANGED <<dev, timer, works, irq, fpga, log>>

RxEndEarly ==                    \* wrong: an edge seen meanwhile is forgotten
  /\ \E at \in {"packet", "zeros"} :
       /\ At("rx", at) /\ Completed("rx")
       /\ log' = IF at = "packet"
                 THEN [log EXCEPT !.handed = Append(@, works.len)]
                 ELSE [log EXCEPT !.dropped = @ + 1]
  /\ works' = [works EXCEPT !.owner = "none", !.irqwork = FALSE]
  /\ Go("rx", "idle")
  /\ UNCHANGED <<dev, timer, irq, bus, fpga>>

RxEnd ==
  /\ \E at \in {"packet", "zeros"} :
       /\ At("rx", at) /\ Completed("rx")
       /\ log' = IF at = "packet"
                 THEN [log EXCEPT !.handed = Append(@, works.len)]
                 ELSE [log EXCEPT !.dropped = @ + 1]
  /\ works' = [works EXCEPT !.owner = "none"]
  /\ Go("rx", "idle")
  /\ UNCHANGED <<dev, timer, irq, bus, fpga>>

-----------------------------------------------------------------------------
(* status_power_lvl_write and update_power_lvl.                             *)
MayWrite(w) == At(w, "idle") /\ works.writes < MaxWrites
CountWrite  == works' = [works EXCEPT !.writes = @ + 1]

PowerWrite(w) ==
  /\ MayWrite(w) /\ CountWrite
  /\ Give(w, "cmd", 0) /\ Go(w, "wait")
  /\ UNCHANGED <<dev, timer, irq, fpga, log>>

PowerDone(w) ==
  /\ At(w, "wait") /\ Completed(w) /\ Go(w, "idle")
  /\ UNCHANGED <<dev, timer, works, irq, bus, fpga, log>>

(* status_speed_write and update_device_with_new_config: the queue stopped  *)
(* and the interrupt disabled around the message.                           *)
SpeedWrite(w) ==
  /\ MayWrite(w) /\ CountWrite
  /\ dev' = [dev EXCEPT !.on = FALSE]
  /\ irq' = [irq EXCEPT !.disabled = @ + 1]
  /\ Give(w, "config", 0) /\ Go(w, "wait")
  /\ UNCHANGED <<timer, fpga, log>>

(* enable_irq replays a latched edge.                                       *)
SpeedDoneForgets(w) ==           \* wrong: the latched edge is cleared
  /\ At(w, "wait") /\ Completed(w) /\ Go(w, "idle")
  /\ irq' = [irq EXCEPT !.disabled = @ - 1, !.latched = FALSE]
  /\ dev' = [dev EXCEPT !.on = TRUE]
  /\ UNCHANGED <<timer, works, bus, fpga, log>>

SpeedDone(w) ==
  /\ At(w, "wait") /\ Completed(w) /\ Go(w, "idle")
  /\ LET replay == irq.disabled = 1 /\ irq.latched /\ irq.requested IN
     /\ irq' = [irq EXCEPT !.disabled = @ - 1,
                           !.latched = @ /\ irq.disabled > 1]
     /\ works' = [works EXCEPT !.irqwork = @ \/ replay]
  /\ dev' = [dev EXCEPT !.on = TRUE]
  /\ UNCHANGED <<timer, bus, fpga, log>>

(* si4463_start and si4463_release, which the stack does not call at once.  *)
(* The interrupt is requested in si4463_probe only.                         *)
Open ==
  /\ ~dev.up /\ At("open", "idle") /\ dev.opens < MaxOpens
  /\ dev' = [dev EXCEPT !.opens = @ + 1]
  /\ Give("open", "config", 0) /\ Go("open", "wait")
  /\ UNCHANGED <<timer, works, irq, fpga, log>>

OpenDone ==
  /\ At("open", "wait") /\ Completed("open")
  /\ dev' = [dev EXCEPT !.up = TRUE, !.on = TRUE]
  /\ Go("open", "idle")
  /\ UNCHANGED <<timer, works, irq, bus, fpga, log>>

Release ==
  /\ dev.up /\ At("open", "idle") /\ dev.opens < MaxOpens
  /\ dev' = [dev EXCEPT !.up = FALSE, !.on = FALSE]
  /\ irq' = [irq EXCEPT !.requested = FALSE]
  /\ UNCHANGED <<timer, works, pc, bus, fpga, log>>

-----------------------------------------------------------------------------
(* The SPI core carries out its first message.  What Slave_Ctrl is told     *)
(* while it serves a packet it takes for the clock of that packet.          *)
Asked == fpga.phase = "asked"

LenDone ==
  /\ Head(bus).kind = "len"
  /\ works' = [works EXCEPT !.len = fpga.length]
  /\ fpga' = [fpga EXCEPT !.phase = "asked",
                          !.broken = @ \/ fpga.phase # "announced"]
  /\ UNCHANGED log

ConfigDone ==
  /\ Head(bus).kind = "config"
  /\ fpga' = IF Asked THEN [fpga EXCEPT !.broken = TRUE]
                      ELSE [fpga EXCEPT !.phase = "quiet", !.configured = TRUE]
  /\ UNCHANGED <<works, log>>

FrameDone ==
  /\ Head(bus).kind = "frame"
  /\ fpga' = [fpga EXCEPT !.broken = @ \/ Asked]
  /\ log' = IF Asked THEN log
                     ELSE [log EXCEPT !.stored = Append(@, Head(bus).arg)]
  /\ UNCHANGED works

CmdDone ==
  /\ Head(bus).kind = "cmd"
  /\ fpga' = [fpga EXCEPT !.broken = @ \/ Asked]
  /\ UNCHANGED <<works, log>>

ShiftedDone ==
  /\ Head(bus).kind \in {"packet", "zeros"} /\ ~Asked
  /\ UNCHANGED <<works, fpga, log>>

BusDone ==
  /\ bus # <<>> /\ bus' = Tail(bus)
  /\ LenDone \/ ConfigDone \/ FrameDone \/ CmdDone \/ ShiftedDone
  /\ UNCHANGED <<dev, timer, pc, irq>>

(* The last byte of the packet is loaded; the message is not done yet.      *)
ShiftedOut ==
  /\ bus # <<>> /\ Head(bus).kind \in {"packet", "zeros"} /\ Asked
  /\ fpga' = [fpga EXCEPT !.phase = "quiet"]
  /\ UNCHANGED <<dev, timer, works, pc, irq, bus, log>>

-----------------------------------------------------------------------------
TxThread == TxWrite \/ TxWake \/ TxUnlock
RxThread == RxBegin \/ RxAskLen \/ RxAskPacket \/ RxEnd
Bus      == BusDone \/ ShiftedOut
SpeedThread(w) == SpeedWrite(w) \/ SpeedDone(w)
PowerThread(w) == PowerWrite(w) \/ PowerDone(w)

DriverNext ==
  \/ TxOk \/ TxBusy \/ Withdraw \/ TxThread \/ RxThread
  \/ Announce \/ Bus \/ Open \/ OpenDone \/ Release
  \/ \E w \in SpeedWriters : SpeedThread(w)
  \/ \E w \in PowerWriters : PowerThread(w)

DriverSpec == DriverInit /\ [][DriverNext]_driverVars

(* Works run, messages end, the timer runs off; the stack, the FPGA and the *)
(* user need do nothing.                                                    *)
FairDriverSpec ==
  /\ DriverSpec
  /\ WF_driverVars(TxThread) /\ WF_driverVars(RxThread)
  /\ WF_driverVars(Bus) /\ WF_driverVars(Withdraw) /\ WF_driverVars(OpenDone)

-----------------------------------------------------------------------------
(* While the queue runs there is no frame on its way and no timer set, and  *)
(* never both: so si4463_tx adds no timer that is pending, and each stop of *)
(* the queue (main.c:601-612) has one who ends it (withdraw, main.c:84-88,  *)
(* or spi_write_packet, main.c:416).                                        *)
InFlight == works.tx # <<>> \/ pc["tx"] = "write"
OneWaker ==
  /\ timer # "bug"
  /\ dev.on => timer = "idle" /\ ~InFlight
  /\ ~(timer = "pending" /\ InFlight)

(* No frame comes between the two messages of a reception, and none is      *)
(* begun without a packet to fetch (main.c:579-590, 704-727): Slave_Ctrl    *)
(* would take its bytes for the clock of the packet.                        *)
ExchangeWhole == ~fpga.broken

(* Each frame si4463_tx took is stored by the FPGA once and in its turn     *)
(* (main.c:592-623): those stored, then the one given to the SPI core, never *)
(* two, then those of the work queue, are those taken.                      *)
FramesInTurn ==
  LET given == {i \in DOMAIN bus : bus[i].kind = "frame"}
      turns == [k \in 1 .. log.taken |-> k]
  IN ~fpga.broken =>
       /\ given = {} => log.stored \o works.tx = turns
       /\ \A i \in given :
            given = {i} /\ log.stored \o <<bus[i].arg>> \o works.tx = turns

(* An edge is never lost: while a packet waits, irqwork is scheduled, will  *)
(* be when the interrupt is enabled again, or has begun and not yet asked   *)
(* (main.c:693-727, 357-364).                                               *)
EdgeKept ==
  fpga.phase = "announced" /\ irq.requested =>
    \/ works.irqwork \/ (irq.latched /\ irq.disabled > 0)
    \/ pc["rx"] = "lock"
    \/ \E i \in DOMAIN bus : bus[i].kind = "len"

(* The packets handed to the network stack are those announced that fit,    *)
(* but for the one being read and one announced since (main.c:486-564).     *)
PacketsInTurn ==
  LET fitting == {n \in DOMAIN log.announced : log.announced[n] = "fits"} IN
  /\ Cardinality(fitting) - Len(log.handed) \in
       (IF fpga.phase = "announced" THEN 0 .. 2 ELSE 0 .. 1)
  /\ \A n \in DOMAIN log.handed : log.handed[n] = "fits"
  /\ Len(log.handed) + log.dropped <= Len(log.announced)

(* A stopped queue is woken in the end, whatever the RAM does.              *)
QueueWoken == dev.up /\ ~dev.on ~> dev.on

(* Every packet announced is handed over or thrown away in the end.         *)
PacketsServed ==
  \A n \in 1 .. MaxPackets :
    Len(log.announced) >= n ~> Len(log.handed) + log.dropped >= n
=============================================================================
