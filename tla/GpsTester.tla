----------------------------- MODULE GpsTester -----------------------------
(***************************************************************************)
(* i2c-gps/main.cpp and Ublox.cpp: the tester of the two radios.  In one car *)
(* a thread decodes the sentences of the GPS receiver into an Ublox object,  *)
(* another puts its time and place into packets for both radios, and the     *)
(* main thread reads the menu; in the other car the packets are received,    *)
(* and the share of those that are missing is shown.  Nothing of the Ublox   *)
(* object is locked.                                                         *)
(***************************************************************************)
EXTENDS Integers, Sequences, FiniteSets

CONSTANTS
  Radios,         \* in the order of sending: sub1G (rf), then 802.11p (wifi)
  LastN,           \* the packets the rate of losses is taken over, 20
  Base,           \* seconds in a minute and minutes in an hour, 60
  MaxClock, MaxSn, MaxStarts,     \* bounds of the model
  MaxAir                          \* packets that wait in a socket

Channels == {Radios[i] : i \in DOMAIN Radios}

ASSUME TesterAssumption ==
  /\ Radios \in Seq(Channels) /\ Radios # <<>>
  /\ \A i, j \in DOMAIN Radios : Radios[i] = Radios[j] => i = j
  /\ Channels \cap {"off", "wait", "hours", "minutes", "seconds", "sleep", "dead"} = {}
  /\ LastN \in Nat \ {0} /\ Base \in Nat \ {0, 1} /\ MaxAir \in Nat \ {0}
  /\ MaxClock \in Nat /\ MaxSn \in Nat /\ MaxStarts \in Nat

VARIABLES
  clock,      \* the time of the last sentence
  gps,        \* the Ublox object, and how far the decoder is in a sentence
  sender,     \* send_tester_loop
  bound,      \* the ports the process has bound
  started,    \* sendloopflag
  starts,     \* how often the program was started
  air,        \* the packets on their way, per channel
  ring,       \* pktsn_last20 and where the next one goes, per channel
  print       \* print_distance_loop and the flags it resets

testerVars == <<clock, gps, sender, bound, started, starts, air, ring, print>>

Second(t) == t % Base
Minute(t) == (t \div Base) % Base
Hour(t)   == t \div (Base * Base)
TimeOf(h, m, s) == Base * Base * h + Base * m + s

GpsOff == [pc |-> "idle", hours |-> 0, minutes |-> 0, seconds |-> 0,
           fixtype |-> FALSE, valid |-> FALSE]
SenderOff == [pc |-> "off", hours |-> 0, minutes |-> 0, seconds |-> 0,
              sn |-> [c \in Channels |-> 1]]
NoPacket == [sn |-> -1, start |-> 0]

TesterInit ==
  /\ clock = 0 /\ gps = GpsOff /\ sender = SenderOff
  /\ bound = {} /\ started = FALSE /\ starts = 1
  /\ air = [c \in Channels |-> <<>>]
  /\ ring = [c \in Channels |-> [at |-> 0, wrapped |-> FALSE,
                                 set |-> [i \in 0 .. LastN - 1 |-> NoPacket]]]
  /\ print = [pc |-> "show", valid |-> [c \in Channels |-> FALSE]]

-----------------------------------------------------------------------------
(* The decoder.  GGA: seconds, minutes, hours in this order, then fixtype.   *)
(* RMC: the same time again, then datetime.valid.  A sentence with a bad     *)
(* checksum, and any other, leaves the time alone.                           *)
Gga ==
  /\ gps.pc = "idle" /\ clock < MaxClock /\ clock' \in clock + 1 .. MaxClock
  /\ gps' = [gps EXCEPT !.pc = "seconds"]
  /\ UNCHANGED <<sender, bound, started, starts, air, ring, print>>

Rmc ==
  /\ gps.pc = "fixed" /\ gps' = [gps EXCEPT !.pc = "seconds2"]
  /\ UNCHANGED <<clock, sender, bound, started, starts, air, ring, print>>

Decodes(pc, next, field, value) ==
  /\ gps.pc = pc /\ gps' = [gps EXCEPT !.pc = next, ![field] = value]
  /\ UNCHANGED <<clock, sender, bound, started, starts, air, ring, print>>

(* Wrong: the hours first, as they are written in the sentence.              *)
TimeHoursFirst == \/ Decodes("seconds", "minutes", "hours", Hour(clock))
                  \/ Decodes("minutes", "hours", "minutes", Minute(clock))
                  \/ Decodes("hours", "fixtype", "seconds", Second(clock))

Time == \/ Decodes("seconds", "minutes", "seconds", Second(clock))
        \/ Decodes("minutes", "hours", "minutes", Minute(clock))
        \/ Decodes("hours", "fixtype", "hours", Hour(clock))

TimeAgain == \/ Decodes("seconds2", "minutes2", "seconds", Second(clock))
             \/ Decodes("minutes2", "hours2", "minutes", Minute(clock))
             \/ Decodes("hours2", "valid", "hours", Hour(clock))

Fixtype == \E fix \in BOOLEAN : Decodes("fixtype", "fixed", "fixtype", fix)
Valid   == \E v \in BOOLEAN : Decodes("valid", "idle", "valid", v)

Decode == Gga \/ Rmc \/ Time \/ TimeAgain \/ Fixtype \/ Valid

-----------------------------------------------------------------------------
(* send_tester_loop: waits for datetime.valid, binds its two ports (a bind   *)
(* that fails ends the thread), then reads the time field by field, sends    *)
(* one packet on each channel with the number of that channel, and sleeps.   *)
SenderAt(pc, next) == sender.pc = pc /\ sender' = [sender EXCEPT !.pc = next]

Open ==
  /\ sender.pc = "wait" /\ gps.valid
  /\ SenderAt("wait", IF bound = {} THEN "hours" ELSE "dead")
  /\ bound' = Channels
  /\ UNCHANGED <<clock, gps, started, starts, air, ring, print>>

Reads(pc, next, field, value) ==
  /\ sender.pc = pc /\ sender' = [sender EXCEPT !.pc = next, ![field] = value]
  /\ UNCHANGED <<clock, gps, bound, started, starts, air, ring, print>>

ReadTime ==
  \/ gps.fixtype /\ Reads("hours", "minutes", "hours", gps.hours)
  \/ Reads("minutes", "seconds", "minutes", gps.minutes)
  \/ Reads("seconds", Radios[1], "seconds", gps.seconds)

(* sendto: the packet is queued, lost on its way or, when the socket         *)
(* refuses it, the last thing the thread does.                               *)
SendOn(i) ==
  LET c == Radios[i]
      next == IF i < Len(Radios) THEN Radios[i + 1] ELSE "sleep"
      sn == sender.sn[c]
  IN  /\ sender.pc = c /\ sn <= MaxSn
      /\ \/ /\ Len(air[c]) < MaxAir
            /\ air' = [air EXCEPT ![c] = Append(@, [sn |-> sn, start |-> starts])]
            /\ sender' = [sender EXCEPT !.sn[c] = @ + 1, !.pc = next]
         \/ /\ \E pc \in {next, "dead"} :
                  sender' = [sender EXCEPT !.sn[c] = @ + 1, !.pc = pc]
            /\ UNCHANGED air
      /\ UNCHANGED <<clock, gps, bound, started, starts, ring, print>>

Wake ==
  /\ SenderAt("sleep", "hours")
  /\ UNCHANGED <<clock, gps, bound, started, starts, air, ring, print>>

Send == Open \/ ReadTime \/ (\E i \in DOMAIN Radios : SendOn(i)) \/ Wake

-----------------------------------------------------------------------------
(* The menu: 's' starts a sender unless one was started; 't' cancels the     *)
(* decoder and the sender where they sleep, print or send, and joins them;   *)
(* their sockets stay open, and no command starts the decoder again.         *)
MenuS ==
  /\ ~started /\ started' = TRUE /\ sender' = [SenderOff EXCEPT !.pc = "wait"]
  /\ UNCHANGED <<clock, gps, bound, starts, air, ring, print>>

MenuT ==
  /\ started /\ gps.pc \in {"idle", "fixed"}
  /\ sender.pc \in {"wait", "sleep", "dead"} \cup Channels
  /\ started' = FALSE /\ gps' = [gps EXCEPT !.pc = "off"]
  /\ sender' = SenderOff
  /\ UNCHANGED <<clock, bound, starts, air, ring, print>>

(* The program is killed and started again.                                  *)
Restart ==
  /\ starts < MaxStarts /\ starts' = starts + 1
  /\ gps' = GpsOff /\ sender' = SenderOff /\ bound' = {} /\ started' = FALSE
  /\ UNCHANGED <<clock, air, ring, print>>

-----------------------------------------------------------------------------
(* cal_pktlossrate_lastn: the gaps, from slot 0 on, up to an empty slot; the *)
(* number of packets, not yet divided by n.  `start' is the number that      *)
(* would be next.                                                            *)
CountLosses(set, step) ==
  LET sn(i) == set[i].sn
      count[i \in 0 .. LastN] ==
        IF i = 0 THEN [loss |-> 0, start |-> sn(0), ended |-> FALSE]
        ELSE LET before == count[i - 1]
                 this   == sn(i - 1)
                 gap    == this > before.start
             IN  IF before.ended \/ this <= 0 THEN [before EXCEPT !.ended = TRUE]
                 ELSE [loss  |-> before.loss + IF gap THEN this - before.start ELSE 0,
                       start |-> step + IF gap THEN this ELSE before.start,
                       ended |-> FALSE]
  IN  count[LastN].loss

LossesStay(set) ==                  \* wrong: start++ is forgotten
  LET loss == CountLosses(set, 0)
  IN  IF loss > LastN THEN LastN ELSE loss

Losses(set) == LET loss == CountLosses(set, 1)
               IN  IF loss > LastN THEN LastN ELSE loss

(* recv_tester_loop: one packet into the ring.                               *)
Receive(c) ==
  /\ air[c] # <<>> /\ air' = [air EXCEPT ![c] = Tail(@)]
  /\ ring' = [ring EXCEPT ![c] =
       [at |-> (@.at + 1) % LastN, wrapped |-> @.wrapped \/ @.at = LastN - 1,
        set |-> [@.set EXCEPT ![ring[c].at] = Head(air[c])]]]
  /\ print' = [print EXCEPT !.valid[c] = TRUE]
  /\ UNCHANGED <<clock, gps, sender, bound, started, starts>>

(* print_distance_loop shows what is valid, and later, under the lock,       *)
(* resets the flags: of a packet that came between as well.                  *)
Show ==
  /\ print.pc = "show" /\ \E c \in Channels : print.valid[c]
  /\ print' = [print EXCEPT !.pc = "reset"]
  /\ UNCHANGED <<clock, gps, sender, bound, started, starts, air, ring>>

Reset ==
  /\ print.pc = "reset"
  /\ print' = [pc |-> "show", valid |-> [c \in Channels |-> FALSE]]
  /\ UNCHANGED <<clock, gps, sender, bound, started, starts, air, ring>>

TesterNext == \/ Decode \/ Send \/ MenuS \/ MenuT \/ Restart
              \/ Show \/ Reset \/ \E c \in Channels : Receive(c)
TesterSpec == TesterInit /\ [][TesterNext]_testerVars

-----------------------------------------------------------------------------
(* Sender and decoder share the time without a lock, and a packet may carry  *)
(* an hour, a minute and a second of different sentences: an hour too early, *)
(* but never a time that has not come yet.  It hangs on the order of the     *)
(* writes in read_gga and read_rmc (Ublox.cpp:118-123, 282-287) against the  *)
(* order of the reads in send_tester_loop (main.cpp:243-245).                *)
PacketTimeNotAhead ==
  sender.pc \in Channels \cup {"sleep"} =>
    TimeOf(sender.hours, sender.minutes, sender.seconds) <= clock

(* Of packets of one start of the sender, the rate that is shown never has   *)
(* more losses than there are between the oldest and the newest packet of    *)
(* the ring; and until the ring is full it has all of them.                  *)
InRing(c) == {i \in 0 .. LastN - 1 : ring[c].set[i].sn > 0}
LossesHonest ==
  \A c \in Channels :
    LET set  == ring[c].set
        sns  == {set[i].sn : i \in InRing(c)}
        lost == Cardinality({n \in 1 .. MaxSn : /\ n \notin sns
                  /\ \E a, b \in sns : a < n /\ n < b})
    IN  Cardinality({set[i].start : i \in InRing(c)}) <= 1 =>
          IF ring[c].wrapped \/ lost > LastN THEN Losses(set) <= lost
          ELSE Losses(set) = lost
=============================================================================
