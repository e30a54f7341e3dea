------------------------------ MODULE HostPort ------------------------------
(***************************************************************************)
(* fpga-si4463/kernel_module/main.c seen from the SPI pins: the messages    *)
(* the driver sends and what it makes of the bytes it gets.  The SPI core   *)
(* sends one message at a time; mutex_txrx keeps frames from coming between *)
(* the two messages of a reception, but not commands and configurations,    *)
(* which do not take it.  The threads of the driver are those of SifDriver. *)
(***************************************************************************)
EXTENDS Integers, Sequences

CONSTANTS Frames,      \* the frames the network stack may send
          Commands,    \* single commands, without their length byte
          Configs,     \* configurations, without their length bytes
          MaxMessages  \* bound: frames, commands and configurations sent

VARIABLES host,    \* the message on the bus, and what was sent and received
          work     \* the interrupt line as last seen, and the scheduled work

HostInit ==
  /\ host = [msg |-> "none", out |-> <<>>, in |-> <<>>, owed |-> <<>>,
             sent |-> <<>>, got |-> <<>>]
  /\ work = [int |-> TRUE, pending |-> FALSE]

(* A message is the bytes the driver still has to shift out.                *)
Begin(msg, bytes) == [host EXCEPT !.msg = msg, !.out = bytes, !.in = <<>>]

SendMessage(msg, head, body) ==
  /\ host.msg = "none" /\ Len(host.sent) < MaxMessages
  /\ host' = [Begin(msg, head \o body) EXCEPT
               !.sent = Append(@, [msg |-> msg, body |-> body])]

(* Between the two messages of a reception the driver owes the second one,  *)
(* with the length it was told.                                             *)
NothingOwed == host.owed = <<>>

(* spi_write_packet, unless the pin says that the RAM is full.              *)
SendFrameAnyway(ramFull) ==      \* wrong: the pin is not looked at
  /\ NothingOwed
  /\ \E f \in Frames : SendMessage("frame", <<102, Len(f)>>, f)

SendFrame(ramFull) ==
  /\ ~ramFull /\ NothingOwed
  /\ \E f \in Frames : SendMessage("frame", <<102, Len(f)>>, f)

(* update_power_lvl, update_device_with_new_config.                         *)
SendCommand == \E c \in Commands : SendMessage("cmd", <<18, Len(c)>>, c)
SendConfig ==
  \E c \in Configs :
    SendMessage("config", <<17, Len(c) \div 256, Len(c) % 256>>, c)

(* si4463_isrwork, on its way after a falling edge of cpu_recv_int: first   *)
(* the message of spi_recv_packetlen, then as many bytes as it returned.    *)
AskLen ==
  /\ host.msg = "none" /\ work.pending /\ NothingOwed
  /\ host' = Begin("len", <<119, 0, 0>>)

Done(msg) == host.msg = msg /\ host.out = <<>>

EndLen ==
  /\ Done("len")
  /\ host' = [Begin("none", <<>>) EXCEPT !.owed = <<host.in[3]>>]

AskPacket ==
  /\ host.msg = "none" /\ ~NothingOwed
  /\ host' = Begin("packet", [k \in 1 .. host.owed[1] |-> 0])

MAXPACKETLEN == 253

HandPacketOver ==                \* what is longer is read and thrown away
  /\ Done("packet")
  /\ host' = [Begin("none", <<>>) EXCEPT
               !.owed = <<>>,
               !.got = IF Len(host.in) \in 1 .. MAXPACKETLEN
                        THEN Append(@, host.in) ELSE @]

EndSent ==
  /\ \E msg \in {"frame", "cmd", "config"} : Done(msg)
  /\ host' = Begin("none", <<>>)

(* The interrupt is the falling edge of cpu_recv_int; it schedules the work *)
(* whatever the driver is doing, once however often it comes.               *)
TakeInterrupt(int) ==
  work' = [int |-> int,
           pending |-> \/ work.int /\ ~int
                       \/ work.pending /\ ~(host.msg = "none" /\ host'.msg = "len")]

(* One byte is shifted both ways.                                           *)
ShiftByte(miso) ==
  /\ host.out # <<>>
  /\ host' = [host EXCEPT !.out = Tail(@), !.in = Append(@, miso)]

(* What the driver begins of its own accord, and what it does as soon as it *)
(* is scheduled.                                                            *)
DriverBegins(ramFull) == SendFrame(ramFull) \/ SendCommand \/ SendConfig
DriverReacts == AskLen \/ EndLen \/ AskPacket \/ HandPacketOver \/ EndSent
=============================================================================
