----------------------------- MODULE RadioPort -----------------------------
(***************************************************************************)
(* fpga-si4463/Wireless_Ctrl.v seen from SRAM_ctrl and Slave_Ctrl: the      *)
(* order in which it marks a packet, stores its words, and announces it or  *)
(* rolls it back, and the fetching of the frames to send.  Everything that  *)
(* depends on the radio (interrupts, chunks, states of the chip) is left to *)
(* chance.  The engine behind it serves one request at a time.              *)
(***************************************************************************)
EXTENDS Integers, Sequences

CONSTANTS Packets,      \* the packets that may arrive: the bytes of the air
          MaxPackets,   \* bound: packets that arrive
          Rssi,         \* the byte the receiver adds
          BadCrc,       \* the outcomes of the CRC: a subset of BOOLEAN
          Fetches       \* whether frames are fetched: a subset of BOOLEAN

ASSUME RadioAssumption == BadCrc \subseteq BOOLEAN /\ Fetches \subseteq BOOLEAN

VARIABLE radio

RadioInit ==
  radio = [rx |-> "idle", start |-> FALSE, rollback |-> FALSE,
           received |-> FALSE, todo |-> <<>>, stored |-> 0,
           read |-> FALSE, write |-> FALSE, data |-> <<0, 0>>,
           air |-> <<>>, good |-> <<>>, fetched |-> <<>>, packets |-> 0]

(* What is stored of a packet: the sync word, its length, counting the RSSI *)
(* byte, with the RSSI, and its bytes two by two.                           *)
WordsOf(bytes) ==
  <<<<45, 212>>, <<Len(bytes) + 1, Rssi>>>>
  \o [k \in 1 .. ((Len(bytes) + 1) \div 2) |->
        <<bytes[2 * k - 1], IF 2 * k <= Len(bytes) THEN bytes[2 * k] ELSE 0>>]

(* Irq states 6 and 8: the mark of the packet that begins.                  *)
Mark(almostFull) ==
  /\ radio.rx = "idle" /\ ~radio.received /\ ~almostFull
  /\ radio.packets < MaxPackets
  /\ \E p \in Packets :
       radio' = [radio EXCEPT !.rx = "mark", !.start = TRUE, !.air = p,
                              !.todo = WordsOf(p), !.stored = 0,
                              !.packets = @ + 1]

EndMark ==
  /\ radio.rx = "mark"
  /\ radio' = [radio EXCEPT !.rx = "store", !.start = FALSE]

(* One word, by the commands 7, 3 and 8 of the SPI engine.                  *)
EngineFree == ~radio.read /\ ~radio.write

Store(full) ==
  /\ radio.rx = "store" /\ EngineFree /\ radio.todo # <<>> /\ ~full
  /\ radio' = [radio EXCEPT !.write = TRUE, !.data = Head(radio.todo)]

Stored(hint) ==
  /\ radio.write /\ hint
  /\ radio' = [radio EXCEPT !.write = FALSE, !.todo = Tail(@), !.stored = @ + 1]

(* Irq states 19 and 20: a one-cycle pulse to Slave_Ctrl.                   *)
Announce ==
  /\ radio.rx = "store" /\ EngineFree /\ radio.todo = <<>>
  /\ FALSE \in BadCrc
  /\ radio' = [radio EXCEPT !.rx = "idle", !.received = TRUE,
                            !.good = Append(@, <<Rssi>> \o radio.air)]

EndAnnounce ==
  /\ radio.received
  /\ radio' = [radio EXCEPT !.received = FALSE]

(* Irq states 3, 16 and 17: the CRC was wrong after a first chunk was       *)
(* stored, and the write pointer goes back to the mark.                     *)
RollBack ==
  /\ radio.rx = "store" /\ EngineFree /\ radio.todo # <<>>
  /\ radio.stored >= 2 /\ TRUE \in BadCrc
  /\ radio' = [radio EXCEPT !.rx = "roll", !.rollback = TRUE, !.todo = <<>>]

EndRollBack ==
  /\ radio.rx = "roll"
  /\ radio' = [radio EXCEPT !.rx = "idle", !.rollback = FALSE]

(* A word of a frame to send, by the commands 5 and 2.                      *)
Fetch(empty) ==
  /\ EngineFree /\ ~empty /\ TRUE \in Fetches
  /\ radio' = [radio EXCEPT !.read = TRUE]

Fetched(hint, data) ==
  /\ radio.read /\ hint
  /\ radio' = [radio EXCEPT !.read = FALSE, !.fetched = Append(@, data)]

(* A hint and the end of a pulse are not left for a later edge.             *)
Answer(hint, data) == Stored(hint) \/ Fetched(hint, data) \/ EndAnnounce

RadioMust(hint) == (~EngineFree /\ hint) \/ radio.received

RadioMay(hint, empty, full, almostFull) ==
  /\ ~RadioMust(hint)
  /\ \/ Mark(almostFull) \/ EndMark \/ Store(full) \/ Announce
     \/ RollBack \/ EndRollBack \/ Fetch(empty)

RadioIdles(hint) == ~RadioMust(hint) /\ UNCHANGED radio

RadioRequests == (IF radio.write THEN {3} ELSE {})
                 \cup (IF radio.read THEN {4} ELSE {})
=============================================================================
