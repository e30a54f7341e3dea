-------------------------- MODULE GpsTester_proofs --------------------------
(*****************************************************************************)
(* Proofs about GpsTester for any number of radios, any length of a minute   *)
(* and of an hour, and clocks without a bound.  The decoder writes the time  *)
(* from the seconds up, and the sender reads it from the hours down.  What   *)
(* the object holds is the time t of an earlier sentence, of which a part is *)
(* overwritten by that of the last one (Stamped); of what the sender has     *)
(* read, the hours are not past the hour of t, and hours and minutes not     *)
(* past the minute that the seconds still to be read belong to (Behind).     *)
(* Of the losses that are shown: the ring, the packets on their way and the  *)
(* next number of the sender are in one order (LossInv), so that the first   *)
(* slots of the ring hold a run of packets and the others nothing newer; and *)
(* the count along the ring is what such a run misses (RunCounted).          *)
(*****************************************************************************)
EXTENDS GpsTester, FiniteSetTheorems, TLAPS

GpsPcs == {"idle", "off", "seconds", "minutes", "hours", "fixtype", "fixed",
           "seconds2", "minutes2", "hours2", "valid"}
Partial == gps.pc \in {"minutes", "hours"}
Fresh   == gps.pc \in {"fixtype", "fixed", "seconds2", "minutes2", "hours2", "valid"}

Shape ==
  /\ clock \in Nat
  /\ DOMAIN gps = {"pc", "hours", "minutes", "seconds", "fixtype", "valid"}
  /\ gps.pc \in GpsPcs
  /\ DOMAIN sender = {"pc", "hours", "minutes", "seconds", "sn"}
  /\ {sender.hours, sender.minutes, sender.seconds} \subseteq Nat

Stamped(t) ==
  /\ gps.hours = Hour(t)
  /\ gps.minutes = Minute(IF gps.pc = "hours" THEN clock ELSE t)
  /\ gps.seconds = Second(IF Partial THEN clock ELSE t)
  /\ Fresh => t = clock

MinutesOf(h, m) == Base * h + m
Behind(t) ==
  /\ sender.pc = "minutes" => sender.hours <= Hour(t)
  /\ sender.pc = "seconds" =>
       MinutesOf(sender.hours, sender.minutes)
         <= (IF Partial THEN clock ELSE t) \div Base
  /\ sender.pc \in Channels \cup {"sleep"} =>
       TimeOf(sender.hours, sender.minutes, sender.seconds) <= clock

TesterInv == Shape /\ \E t \in 0 .. clock : Stamped(t) /\ Behind(t)

-----------------------------------------------------------------------------
(* Quotient and remainder.                                                  *)
LEMMA Divided ==
  ASSUME NEW a \in Nat, NEW b \in Nat \ {0}
  PROVE  a \div b \in Nat /\ a % b \in 0 .. b - 1 /\ a = b * (a \div b) + (a % b)
OBVIOUS

(* Two remainders, one inside the other.                                    *)
LEMMA Regrouped ==
  ASSUME NEW b \in Int, NEW h \in Int, NEW m \in Int, NEW r \in Int
  PROVE  b * (b * h + m) + r = b * b * h + (b * m + r)
OBVIOUS

(* Quotient and remainder are unique.                                        *)
LEMMA Quotient ==
  ASSUME NEW a \in Nat, NEW b \in Nat \ {0}, NEW q \in Nat, NEW r \in 0 .. b - 1,
         a = b * q + r
  PROVE  a \div b = q
<1> DEFINE p == a \div b
           s == a % b
<1>1. p \in Nat /\ s \in 0 .. b - 1 /\ a = b * p + s BY Divided
<1>2. ASSUME NEW x \in Nat, NEW y \in Nat, NEW u \in 0 .. b - 1, NEW v \in 0 .. b - 1,
             b * x + u = b * y + v, x < y
      PROVE  FALSE
  <2> DEFINE d == y - (x + 1)
  <2>1. d \in Nat BY <1>2
  <2>2. b * y = b * x + b + b * d BY <1>2
  <2>3. b * d \in Nat /\ b * x \in Nat BY <2>1
  <2> QED BY <1>2, <2>2, <2>3
<1>3. ~(p < q) /\ ~(q < p) BY <1>1, <1>2
<1> QED BY <1>1, <1>3

(* A later second is in no earlier minute.                                  *)
LEMMA Grows ==
  ASSUME NEW b \in Nat \ {0}, NEW t \in Nat, NEW u \in Nat, t <= u
  PROVE  t \div b <= u \div b
<1> DEFINE p == t \div b
           q == u \div b
<1>1. p \in Nat /\ t % b \in 0 .. b - 1 /\ t = b * p + (t % b)
  BY Divided
<1>2. q \in Nat /\ u % b \in 0 .. b - 1 /\ u = b * q + (u % b)
  BY Divided
<1>3. ASSUME q < p PROVE FALSE
  <2> DEFINE d == p - (q + 1)
  <2>1. d \in Nat BY <1>1, <1>2, <1>3
  <2>2. b * p = b * q + b + b * d BY <1>1, <1>2
  <2>3. b * d \in Nat /\ b * q \in Nat BY <1>2, <2>1
  <2> QED BY <1>1, <1>2, <2>2, <2>3
<1> QED BY <1>1, <1>2, <1>3

(* A time is its hours, minutes and seconds.                                 *)
LEMMA Parts ==
  ASSUME NEW t \in Nat
  PROVE  /\ Hour(t) \in Nat /\ Minute(t) \in Nat /\ Second(t) \in Nat
         /\ t \div Base \in Nat
         /\ MinutesOf(Hour(t), Minute(t)) = t \div Base
         /\ Base * (t \div Base) + Second(t) = t
<1>1. Base \in Nat \ {0} BY TesterAssumption
<1> DEFINE q == t \div Base
           h == q \div Base
<1>2. q \in Nat /\ Second(t) \in 0 .. Base - 1 /\ t = Base * q + Second(t)
  BY <1>1 DEF Second
<1>3. h \in Nat /\ Minute(t) \in 0 .. Base - 1 /\ q = Base * h + Minute(t)
  BY <1>1, <1>2 DEF Minute
<1> DEFINE r == Base * Minute(t) + Second(t)
<1>4. t = Base * Base * h + r
  <2>1. Base * (Base * h + Minute(t)) + Second(t) = Base * Base * h + r
    <3>1. Base \in Int /\ h \in Int /\ Minute(t) \in Int /\ Second(t) \in Int
      BY <1>1, <1>2, <1>3
    <3> HIDE DEF h
    <3> QED BY <3>1, Regrouped
  <2> QED BY <1>2, <1>3, <2>1
<1>5. r \in 0 .. Base * Base - 1
  <2> DEFINE d == Base - 1 - Minute(t)
  <2>1. d \in Nat BY <1>1, <1>3
  <2>2. Base * Minute(t) + Base * d + Base = Base * Base BY <1>1, <1>3
  <2>3. Base * d \in Nat /\ Base * Minute(t) \in Nat BY <1>1, <1>3, <2>1
  <2> QED BY <1>1, <1>2, <2>2, <2>3
<1>6. Base * Base \in Nat \ {0} BY <1>1
<1>7. t \div (Base * Base) = h BY <1>3, <1>4, <1>5, <1>6, Quotient
<1> QED BY <1>2, <1>3, <1>7 DEF Hour, MinutesOf

(* The object starts with midnight.                                         *)
LEMMA ZeroTime == Hour(0) = 0 /\ Minute(0) = 0 /\ Second(0) = 0
<1>1. Base \in Nat \ {0} /\ Base * Base \in Nat \ {0} BY TesterAssumption
<1>2. \A b \in Nat \ {0} : 0 \div b = 0 /\ 0 % b = 0
  <2> TAKE b \in Nat \ {0}
  <2>1. 0 \div b = 0 BY Quotient
  <2> QED BY <2>1
<1> QED BY <1>1, <1>2 DEF Hour, Minute, Second

(* Nor in an earlier hour.                                                  *)
LEMMA HoursGrow ==
  ASSUME NEW t \in Nat, NEW u \in Nat, t <= u
  PROVE  Hour(t) <= Hour(u) /\ t \div Base <= u \div Base
<1>1. Base \in Nat \ {0} /\ Base * Base \in Nat \ {0} BY TesterAssumption
<1> QED BY <1>1, Grows DEF Hour

(* Hours and minutes that are not past those of t make, with its seconds, no *)
(* time after t.                                                             *)
LEMMA Completed ==
  ASSUME NEW t \in Nat, NEW h \in Nat, NEW m \in Nat, MinutesOf(h, m) <= t \div Base
  PROVE  TimeOf(h, m, Second(t)) <= t
<1>1. Base \in Nat BY TesterAssumption
<1>2. /\ Second(t) \in Nat /\ t \div Base \in Nat
      /\ Base * (t \div Base) + Second(t) = t
  BY Parts
<1>3. MinutesOf(h, m) \in Nat BY <1>1 DEF MinutesOf
<1> DEFINE d == (t \div Base) - MinutesOf(h, m)
<1>4. d \in Nat BY <1>2, <1>3
<1>5. Base * (t \div Base) = Base * MinutesOf(h, m) + Base * d
  <2>1. t \div Base = MinutesOf(h, m) + d BY <1>2, <1>3
  <2> HIDE DEF d
  <2>2. Base * (MinutesOf(h, m) + d) = Base * MinutesOf(h, m) + Base * d
    BY <1>1, <1>3, <1>4
  <2> QED BY <2>1, <2>2
<1>6. Base * d \in Nat BY <1>1, <1>4
<1>7. TimeOf(h, m, Second(t)) = Base * MinutesOf(h, m) + Second(t)
  BY <1>1, <1>2 DEF TimeOf, MinutesOf
<1>8. Base * MinutesOf(h, m) \in Nat BY <1>1, <1>3
<1> QED BY <1>2, <1>5, <1>6, <1>7, <1>8

-----------------------------------------------------------------------------
(* The tester at its start.                                                 *)
LEMMA InitTester == TesterInit => TesterInv
<1> SUFFICES ASSUME TesterInit PROVE TesterInv OBVIOUS
<1>1. Shape
  BY DEF TesterInit, Shape, GpsOff, SenderOff, GpsPcs
<1>2. 0 \in 0 .. clock /\ sender.pc = "off" /\ gps.pc = "idle"
      /\ gps.hours = 0 /\ gps.minutes = 0 /\ gps.seconds = 0
  BY DEF TesterInit, GpsOff, SenderOff
<1>3. Hour(0) = 0 /\ Minute(0) = 0 /\ Second(0) = 0
  BY ZeroTime
<1>4. Stamped(0) BY <1>2, <1>3 DEF Stamped, Partial, Fresh
<1>5. Behind(0) BY <1>2, TesterAssumption DEF Behind
<1> QED BY <1>1, <1>2, <1>4, <1>5 DEF TesterInv

(* The decoder.  A new sentence begins with the fields of the time before it *)
(* and ends with those of its own, which the sender then is not past either. *)
LEMMA DecodeShape ==
  ASSUME Shape, Decode, NEW t \in 0 .. clock, Stamped(t)
  PROVE  /\ Shape' /\ sender' = sender /\ clock' \in Nat /\ clock <= clock'
         /\ gps'.pc \in GpsPcs
         /\ DOMAIN gps' = DOMAIN gps
<1> USE DEF Shape, GpsPcs
<1>1. CASE Gga
  BY <1>1 DEF Gga
<1>2. CASE Rmc
  BY <1>2 DEF Rmc
<1>3. CASE Time
  <2>1. CASE Decodes("seconds", "minutes", "seconds", Second(clock))
    BY <2>1 DEF Decodes
  <2>2. CASE Decodes("minutes", "hours", "minutes", Minute(clock))
    BY <2>2 DEF Decodes
  <2>3. CASE Decodes("hours", "fixtype", "hours", Hour(clock))
    BY <2>3 DEF Decodes
  <2> QED BY <1>3, <2>1, <2>2, <2>3 DEF Time
<1>4. CASE TimeAgain
  <2>1. CASE Decodes("seconds2", "minutes2", "seconds", Second(clock))
    BY <2>1 DEF Decodes
  <2>2. CASE Decodes("minutes2", "hours2", "minutes", Minute(clock))
    BY <2>2 DEF Decodes
  <2>3. CASE Decodes("hours2", "valid", "hours", Hour(clock))
    BY <2>3 DEF Decodes
  <2> QED BY <1>4, <2>1, <2>2, <2>3 DEF TimeAgain
<1>5. CASE Fixtype
  BY <1>5 DEF Fixtype, Decodes
<1>6. CASE Valid
  BY <1>6 DEF Valid, Decodes
<1> QED BY <1>1, <1>2, <1>3, <1>4, <1>5, <1>6 DEF Decode

(* One field or none is written.                                             *)
Writes(pc, next, h, m, s) ==
  /\ gps.pc = pc /\ gps'.pc = next
  /\ gps'.hours = h /\ gps'.minutes = m /\ gps'.seconds = s

(* What the decoder writes at each place, one field at a time.              *)
LEMMA DecodeWrites ==
  ASSUME Shape, Decode
  PROVE  \/ /\ clock < clock'
            /\ Writes("idle", "seconds", gps.hours, gps.minutes, gps.seconds)
         \/ /\ clock' = clock
            /\ \/ Writes("fixed", "seconds2", gps.hours, gps.minutes, gps.seconds)
               \/ Writes("seconds", "minutes", gps.hours, gps.minutes, Second(clock))
               \/ Writes("minutes", "hours", gps.hours, Minute(clock), gps.seconds)
               \/ Writes("hours", "fixtype", Hour(clock), gps.minutes, gps.seconds)
               \/ Writes("fixtype", "fixed", gps.hours, gps.minutes, gps.seconds)
               \/ Writes("seconds2", "minutes2", gps.hours, gps.minutes, Second(clock))
               \/ Writes("minutes2", "hours2", gps.hours, Minute(clock), gps.seconds)
               \/ Writes("hours2", "valid", Hour(clock), gps.minutes, gps.seconds)
               \/ Writes("valid", "idle", gps.hours, gps.minutes, gps.seconds)
<1> USE DEF Shape, Writes
<1>1. CASE Gga
  BY <1>1 DEF Gga
<1>2. CASE Rmc
  BY <1>2 DEF Rmc
<1>3. CASE Time
  <2>1. CASE Decodes("seconds", "minutes", "seconds", Second(clock))
    BY <2>1 DEF Decodes
  <2>2. CASE Decodes("minutes", "hours", "minutes", Minute(clock))
    BY <2>2 DEF Decodes
  <2>3. CASE Decodes("hours", "fixtype", "hours", Hour(clock))
    BY <2>3 DEF Decodes
  <2> QED BY <1>3, <2>1, <2>2, <2>3 DEF Time
<1>4. CASE TimeAgain
  <2>1. CASE Decodes("seconds2", "minutes2", "seconds", Second(clock))
    BY <2>1 DEF Decodes
  <2>2. CASE Decodes("minutes2", "hours2", "minutes", Minute(clock))
    BY <2>2 DEF Decodes
  <2>3. CASE Decodes("hours2", "valid", "hours", Hour(clock))
    BY <2>3 DEF Decodes
  <2> QED BY <1>4, <2>1, <2>2, <2>3 DEF TimeAgain
<1>5. CASE Fixtype
  BY <1>5 DEF Fixtype, Decodes
<1>6. CASE Valid
  BY <1>6 DEF Valid, Decodes
<1> QED BY <1>1, <1>2, <1>3, <1>4, <1>5, <1>6 DEF Decode

(* A field of a new sentence over one of an older time.                     *)
LEMMA DecodeKeeps == TesterInv /\ Decode => TesterInv'
<1> SUFFICES ASSUME TesterInv, Decode PROVE TesterInv' OBVIOUS
<1>1. Shape BY DEF TesterInv
<1>2. PICK t \in 0 .. clock : Stamped(t) /\ Behind(t) BY DEF TesterInv
<1>3. Shape' /\ sender' = sender /\ clock' \in Nat /\ clock <= clock'
  BY <1>1, <1>2, DecodeShape
<1>4. t \in Nat /\ clock \in Nat /\ t <= clock /\ t \in 0 .. clock'
      /\ clock \in 0 .. clock /\ clock' \in 0 .. clock'
  BY <1>1, <1>2, <1>3 DEF Shape
<1>5. Hour(t) <= Hour(clock) /\ t \div Base <= clock \div Base
      /\ Hour(t) \in Nat /\ Hour(clock) \in Nat
      /\ t \div Base \in Nat /\ clock \div Base \in Nat
  BY <1>4, HoursGrow, Parts
<1>6. MinutesOf(sender.hours, sender.minutes) \in Nat
      /\ TimeOf(sender.hours, sender.minutes, sender.seconds) \in Nat
      /\ sender.hours \in Nat
  BY <1>1, TesterAssumption DEF Shape, MinutesOf, TimeOf
<1>7. CASE /\ clock < clock'
           /\ Writes("idle", "seconds", gps.hours, gps.minutes, gps.seconds)
  <2>1. Stamped(t)' BY <1>2, <1>7 DEF Stamped, Partial, Fresh, Writes
  <2>2. Behind(t)'
    BY <1>2, <1>3, <1>4, <1>6, <1>7 DEF Behind, Partial, Writes
  <2> QED BY <1>3, <1>4, <2>1, <2>2 DEF TesterInv
<1>8. CASE /\ clock' = clock
           /\ \/ Writes("seconds", "minutes", gps.hours, gps.minutes, Second(clock))
              \/ Writes("minutes", "hours", gps.hours, Minute(clock), gps.seconds)
  <2>1. Stamped(t)' BY <1>2, <1>8 DEF Stamped, Partial, Fresh, Writes
  <2>2. Behind(t)'
    BY <1>2, <1>3, <1>5, <1>6, <1>8 DEF Behind, Partial, Writes
  <2> QED BY <1>3, <1>4, <2>1, <2>2 DEF TesterInv
<1>9. CASE /\ clock' = clock
           /\ Writes("hours", "fixtype", Hour(clock), gps.minutes, gps.seconds)
  <2>1. Stamped(clock)' BY <1>2, <1>9 DEF Stamped, Partial, Fresh, Writes
  <2>2. Behind(clock)'
    BY <1>2, <1>3, <1>5, <1>6, <1>9 DEF Behind, Partial, Writes
  <2> QED BY <1>3, <1>4, <1>9, <2>1, <2>2 DEF TesterInv
<1>10. CASE /\ clock' = clock
            /\ \/ Writes("fixed", "seconds2", gps.hours, gps.minutes, gps.seconds)
               \/ Writes("fixtype", "fixed", gps.hours, gps.minutes, gps.seconds)
               \/ Writes("seconds2", "minutes2", gps.hours, gps.minutes, Second(clock))
               \/ Writes("minutes2", "hours2", gps.hours, Minute(clock), gps.seconds)
               \/ Writes("hours2", "valid", Hour(clock), gps.minutes, gps.seconds)
               \/ Writes("valid", "idle", gps.hours, gps.minutes, gps.seconds)
  <2>1. Stamped(t)' BY <1>2, <1>10 DEF Stamped, Partial, Fresh, Writes
  <2>2. Behind(t)'
    BY <1>2, <1>3, <1>10 DEF Behind, Partial, Writes
  <2> QED BY <1>3, <1>4, <2>1, <2>2 DEF TesterInv
<1> QED BY <1>1, <1>7, <1>8, <1>9, <1>10, DecodeWrites

(* The sender reads the fields from the hours down.                          *)
LEMMA SendKeeps == TesterInv /\ (Send \/ MenuS) => TesterInv'
<1> SUFFICES ASSUME TesterInv, Send \/ MenuS PROVE TesterInv' OBVIOUS
<1>1. Shape BY DEF TesterInv
<1>2. PICK t \in 0 .. clock : Stamped(t) /\ Behind(t) BY DEF TesterInv
<1>3. t \in Nat /\ clock \in Nat /\ t <= clock BY <1>1, <1>2 DEF Shape
<1>4. Hour(t) <= Hour(clock) BY <1>3, HoursGrow
<1>5. /\ Hour(t) \in Nat /\ Minute(t) \in Nat /\ Second(t) \in Nat
      /\ Hour(clock) \in Nat /\ Minute(clock) \in Nat /\ Second(clock) \in Nat
      /\ MinutesOf(Hour(t), Minute(t)) = t \div Base
      /\ MinutesOf(Hour(clock), Minute(clock)) = clock \div Base
  BY <1>3, Parts
<1>6. /\ gps.hours = Hour(t)
      /\ \/ Partial /\ gps.seconds = Second(clock)
         \/ ~Partial /\ gps.seconds = Second(t)
      /\ \/ gps.minutes = Minute(t)
         \/ Partial /\ gps.minutes = Minute(clock)
  BY <1>2 DEF Stamped, Partial
<1>7. SUFFICES /\ Shape' /\ gps' = gps /\ clock' = clock /\ Behind(t)'
  BY <1>2 DEF TesterInv, Stamped, Partial, Fresh
<1>8. CASE \/ Open \/ Wake \/ MenuS
           \/ gps.fixtype /\ Reads("hours", "minutes", "hours", gps.hours)
  <2>1. /\ Shape' /\ gps' = gps /\ clock' = clock
        /\ sender'.pc \in {"wait", "hours", "dead"}
           \/ (sender'.pc = "minutes" /\ sender'.hours = Hour(t))
    <3>1. CASE Open \/ Wake
      BY <1>1, <3>1 DEF Open, Wake, SenderAt, Shape
    <3>2. CASE MenuS
      BY <1>1, <3>2 DEF MenuS, SenderOff, Shape
    <3>3. CASE Reads("hours", "minutes", "hours", gps.hours)
      BY <1>1, <1>5, <1>6, <3>3 DEF Reads, Shape
    <3> QED BY <1>8, <3>1, <3>2, <3>3
  <2> QED BY <1>5, <2>1, TesterAssumption DEF Behind
<1>9. CASE Reads("minutes", "seconds", "minutes", gps.minutes)
  <2>1. /\ Shape' /\ gps' = gps /\ clock' = clock
        /\ sender.pc = "minutes" /\ sender'.pc = "seconds"
        /\ sender'.hours = sender.hours /\ sender'.minutes = gps.minutes
    BY <1>1, <1>5, <1>6, <1>9 DEF Reads, Shape
  <2>2. sender.hours <= Hour(t) /\ sender.hours \in Nat
    BY <1>1, <1>2, <2>1 DEF Behind, Shape
  <2>3. ASSUME NEW u \in Nat, Hour(t) <= Hour(u), Hour(u) \in Nat, Minute(u) \in Nat
        PROVE  MinutesOf(sender.hours, Minute(u)) <= MinutesOf(Hour(u), Minute(u))
    <3> DEFINE d == Hour(u) - sender.hours
    <3>1. d \in Nat BY <1>5, <2>2, <2>3
    <3>2. Base * Hour(u) = Base * sender.hours + Base * d
      BY <2>2, <2>3, TesterAssumption
    <3>3. Base * d \in Nat /\ Base * sender.hours \in Nat
      BY <2>2, <3>1, TesterAssumption
    <3> QED BY <2>3, <3>2, <3>3 DEF MinutesOf
  <2>4. MinutesOf(sender.hours, Minute(t)) <= t \div Base
        /\ MinutesOf(sender.hours, Minute(clock)) <= clock \div Base
    BY <1>3, <1>4, <1>5, <2>3
  <2>5. t \div Base <= clock \div Base /\ t \div Base \in Nat /\ clock \div Base \in Nat
        /\ MinutesOf(sender.hours, Minute(t)) \in Nat
    <3>1. MinutesOf(sender.hours, Minute(t)) \in Nat
      <4>1. Base * sender.hours \in Nat BY <2>2, TesterAssumption
      <4> QED BY <1>5, <4>1 DEF MinutesOf
    <3> QED BY <1>3, <3>1, HoursGrow, Parts
  <2>6. MinutesOf(sender'.hours, sender'.minutes)
          <= (IF Partial THEN clock ELSE t) \div Base
    BY <1>6, <2>1, <2>4, <2>5
  <2> QED BY <2>1, <2>6, TesterAssumption DEF Behind, Partial
<1>10. CASE Reads("seconds", Radios[1], "seconds", gps.seconds)
  <2>1. Radios[1] \in Channels
    BY TesterAssumption DEF Channels
  <2>2. /\ Shape' /\ gps' = gps /\ clock' = clock
        /\ sender.pc = "seconds" /\ sender'.pc \in Channels
        /\ sender'.hours = sender.hours /\ sender'.minutes = sender.minutes
        /\ sender'.seconds = gps.seconds
    BY <1>1, <1>5, <1>6, <1>10, <2>1 DEF Reads, Shape
  <2>3. sender.hours \in Nat /\ sender.minutes \in Nat
        /\ MinutesOf(sender.hours, sender.minutes)
             <= (IF Partial THEN clock ELSE t) \div Base
    BY <1>1, <1>2, <2>2 DEF Behind, Shape
  <2>4. TimeOf(sender.hours, sender.minutes, gps.seconds)
          <= (IF Partial THEN clock ELSE t)
    BY <1>3, <1>6, <2>3, Completed
  <2>5. TimeOf(sender.hours, sender.minutes, gps.seconds) \in Int
    <3>1. gps.seconds \in Nat BY <1>5, <1>6
    <3> QED BY <2>3, <3>1, TesterAssumption DEF TimeOf
  <2>6. TimeOf(sender.hours, sender.minutes, gps.seconds) <= clock
    BY <1>3, <2>4, <2>5
  <2> QED BY <2>2, <2>6, TesterAssumption DEF Behind
<1>11. CASE \E i \in DOMAIN Radios : SendOn(i)
  <2>1. PICK i \in DOMAIN Radios : SendOn(i) BY <1>11
  <2>2. Radios[i] \in Channels /\ (i + 1 \in DOMAIN Radios => Radios[i + 1] \in Channels)
    BY <2>1 DEF Channels
  <2>3. /\ gps' = gps /\ clock' = clock /\ sender.pc \in Channels
        /\ DOMAIN sender' = DOMAIN sender
        /\ sender'.hours = sender.hours /\ sender'.minutes = sender.minutes
        /\ sender'.seconds = sender.seconds
        /\ sender'.pc \in {IF i < Len(Radios) THEN Radios[i + 1] ELSE "sleep", "dead"}
    BY <1>1, <2>1, <2>2 DEF SendOn, Shape
  <2>4. i < Len(Radios) => i + 1 \in DOMAIN Radios
    BY <2>1, TesterAssumption
  <2>5. Shape' BY <1>1, <2>3 DEF Shape
  <2>6. Behind(t)'
    BY <1>2, <2>2, <2>3, <2>4, TesterAssumption DEF Behind
  <2> QED BY <2>3, <2>5, <2>6
<1> QED BY <1>8, <1>9, <1>10, <1>11 DEF Send, ReadTime

(* Stopped or started again, the threads begin with what is not past.        *)
LEMMA StopKeeps == TesterInv /\ (MenuT \/ Restart) => TesterInv'
<1> SUFFICES ASSUME TesterInv, MenuT \/ Restart PROVE TesterInv' OBVIOUS
<1>1. Shape BY DEF TesterInv
<1>2. PICK t \in 0 .. clock : Stamped(t) /\ Behind(t) BY DEF TesterInv
<1>3. sender' = SenderOff /\ clock' = clock BY DEF MenuT, Restart
<1>4. \A u : Behind(u)'
  BY <1>3, TesterAssumption DEF Behind, SenderOff
<1>5. CASE MenuT
  <2>1. Shape'
    BY <1>1, <1>3, <1>5 DEF MenuT, Shape, SenderOff, GpsPcs
  <2>2. Stamped(t)'
    BY <1>1, <1>2, <1>3, <1>5 DEF MenuT, Stamped, Partial, Fresh, Shape
  <2> QED BY <1>3, <1>4, <2>1, <2>2 DEF TesterInv
<1>6. CASE Restart
  <2>1. Shape'
    BY <1>1, <1>3, <1>6 DEF Restart, Shape, SenderOff, GpsOff, GpsPcs
  <2>2. Stamped(0)'
    BY <1>3, <1>6, ZeroTime DEF Restart, GpsOff, Stamped, Partial, Fresh
  <2>3. 0 \in 0 .. clock' BY <1>1, <1>3 DEF Shape
  <2> QED BY <1>4, <2>1, <2>2, <2>3 DEF TesterInv
<1> QED BY <1>5, <1>6

(* Receivers and printer write neither the object nor the packet.           *)
LEMMA Untouched ==
  ASSUME TesterInv, clock' = clock, gps' = gps, sender' = sender
  PROVE  TesterInv'
BY DEF TesterInv, Shape, Stamped, Behind, Partial, Fresh

-----------------------------------------------------------------------------
(* Whatever mixture of two sentences a packet carries, it is never a time    *)
(* that has not come yet, for any clock and although nothing is locked.      *)
THEOREM PacketTimeNeverAhead == TesterSpec => []PacketTimeNotAhead
<1>1. TesterInit => TesterInv BY InitTester
<1>2. TesterInv /\ [TesterNext]_testerVars => TesterInv'
  <2> SUFFICES ASSUME TesterInv, [TesterNext]_testerVars PROVE TesterInv' OBVIOUS
  <2>1. CASE Decode BY <2>1, DecodeKeeps
  <2>2. CASE Send \/ MenuS BY <2>2, SendKeeps
  <2>3. CASE MenuT \/ Restart BY <2>3, StopKeeps
  <2>4. CASE Show \/ Reset \/ \E c \in Channels : Receive(c)
    BY <2>4, Untouched DEF Show, Reset, Receive
  <2>5. CASE UNCHANGED testerVars BY <2>5, Untouched DEF testerVars
  <2> QED BY <2>1, <2>2, <2>3, <2>4, <2>5 DEF TesterNext
<1>3. TesterInv => PacketTimeNotAhead BY DEF TesterInv, Behind, PacketTimeNotAhead
<1> QED BY <1>1, <1>2, <1>3, PTL DEF TesterSpec

-----------------------------------------------------------------------------

(* Induction over the numbers, for a set in place of a predicate.            *)
LEMMA SetInduction ==
  ASSUME NEW S, 0 \in S, \A n \in Nat : n \in S => n + 1 \in S
  PROVE  \A n \in Nat : n \in S
<1> SUFFICES ASSUME NEW m \in Nat, m \notin S
             PROVE  FALSE
  OBVIOUS
<1> DEFINE T == {0 .. n : n \in {k \in Nat : k \notin S}}
           R == StrictSubsetOrdering(Nat)
           F == FiniteSubsetsOf(Nat)
<1>1. IsWellFoundedOn(R, F)
  BY FS_StrictSubsetOrderingWellFounded
<1>2. T \subseteq F
  <2>1. \A n \in Nat : IsFiniteSet(0 .. n)
    BY FS_Interval
  <2>2. QED
    BY <2>1 DEF FiniteSubsetsOf
<1>3. T # {}
  OBVIOUS
<1>4. \E x \in T : \A y \in T : ~(<<y, x>> \in R)
  <2> HIDE DEF T, R, F
  <2>1. QED
    BY <1>1, <1>2, <1>3, WFMin
<1>5. PICK n \in Nat : n \notin S /\ \A y \in T : <<y, 0 .. n>> \notin R
  BY <1>4
<1>6. n # 0 /\ n - 1 \in Nat /\ n - 1 \notin S
  <2>1. n # 0
    BY <1>5
  <2>2. n - 1 \in Nat /\ (n - 1) + 1 = n
    BY <2>1
  <2>3. QED
    BY <1>5, <2>1, <2>2
<1>7. 0 .. n - 1 \in T
  BY <1>6
<1>8. <<0 .. n - 1, 0 .. n>> \in R
  <2>1. n \in 0 .. n /\ n \notin 0 .. n - 1 /\ 0 .. n - 1 \subseteq 0 .. n /\ 0 .. n \subseteq Nat
    BY <1>6
  <2>2. 0 .. n - 1 # 0 .. n
    BY <2>1
  <2>3. QED
    BY <2>1, <2>2 DEF StrictSubsetOrdering
<1>9. QED
  BY <1>5, <1>7, <1>8

(* The tally of CountLosses as a function of the ring.                       *)
AfterSlot(set, step, before, i) ==
  LET this == set[i - 1].sn
      gap  == this > before.start
  IN  IF before.ended \/ this <= 0 THEN [before EXCEPT !.ended = TRUE]
      ELSE [loss  |-> before.loss + IF gap THEN this - before.start ELSE 0,
            start |-> step + IF gap THEN this ELSE before.start,
            ended |-> FALSE]
Tallies(f, set, step, n) ==
  f = [i \in 0 .. n |->
        IF i = 0 THEN [loss |-> 0, start |-> set[0].sn, ended |-> FALSE]
        ELSE AfterSlot(set, step, f[i - 1], i)]
(* CountLosses is the last of the tallies, and there are tallies.            *)
LEMMA CountIsTally ==
  ASSUME NEW set
  PROVE  CountLosses(set, 1) = (CHOOSE f : Tallies(f, set, 1, LastN))[LastN].loss
BY DEF CountLosses, Tallies, AfterSlot

(* Each one is defined by the one before it.                                 *)
LEMMA TallyExists ==
  ASSUME NEW set, NEW step
  PROVE  \A n \in Nat : \E f : Tallies(f, set, step, n)
<1> DEFINE S == {n \in Nat : \E f : Tallies(f, set, step, n)}
<1>1. 0 \in S
  <2> DEFINE f == [i \in {0} |-> [loss |-> 0, start |-> set[0].sn, ended |-> FALSE]]
  <2>1. 0 .. 0 = {0}
    OBVIOUS
  <2>2. Tallies(f, set, step, 0)
    BY <2>1 DEF Tallies
  <2>3. QED
    BY <2>2
<1>2. ASSUME NEW n \in Nat, n \in S
      PROVE  n + 1 \in S
  <2>1. PICK f : Tallies(f, set, step, n)
    BY <1>2
  <2> DEFINE g == [i \in 0 .. n + 1 |->
                     IF i = n + 1 THEN AfterSlot(set, step, f[n], n + 1) ELSE f[i]]
             h == [i \in 0 .. n + 1 |->
                     IF i = 0 THEN [loss |-> 0, start |-> set[0].sn, ended |-> FALSE]
                     ELSE AfterSlot(set, step, g[i - 1], i)]
  <2>2. \A i \in 0 .. n : g[i] = f[i]
    OBVIOUS
  <2>3. \A i \in 0 .. n :
          f[i] = IF i = 0 THEN [loss |-> 0, start |-> set[0].sn, ended |-> FALSE]
                 ELSE AfterSlot(set, step, f[i - 1], i)
    BY <2>1 DEF Tallies
  <2>4. \A i \in 0 .. n + 1 : g[i] = h[i]
    <3> SUFFICES ASSUME NEW i \in 0 .. n + 1
                 PROVE  g[i] = h[i]
      OBVIOUS
    <3>1. CASE i = n + 1
      <4>1. n \in 0 .. n /\ n + 1 # 0 /\ (n + 1) - 1 = n
        OBVIOUS
      <4>2. g[n] = f[n]
        BY <4>1, <2>2
      <4>3. QED
        BY <3>1, <4>1, <4>2
    <3>2. CASE i = 0
      <4>1. 0 \in 0 .. n /\ 0 \in 0 .. n + 1
        OBVIOUS
      <4>2. g[0] = f[0]
        BY <4>1, <2>2
      <4>3. f[0] = [loss |-> 0, start |-> set[0].sn, ended |-> FALSE]
        BY <4>1, <2>3
      <4> HIDE DEF g
      <4>4. h[0] = [loss |-> 0, start |-> set[0].sn, ended |-> FALSE]
        BY <4>1
      <4>5. QED
        BY <3>2, <4>2, <4>3, <4>4
    <3>3. CASE i \in 1 .. n
      <4>1. i \in 0 .. n /\ i - 1 \in 0 .. n /\ i # 0
        BY <3>3
      <4>2. g[i] = f[i] /\ g[i - 1] = f[i - 1]
        BY <4>1, <2>2
      <4> HIDE DEF g
      <4>3. h[i] = AfterSlot(set, step, g[i - 1], i)
        BY <4>1
      <4>4. f[i] = AfterSlot(set, step, f[i - 1], i)
        BY <4>1, <2>3
      <4>5. QED
        BY <4>2, <4>3, <4>4
    <3>4. QED
      BY <3>1, <3>2, <3>3
  <2>5. g = h
    BY <2>4
  <2>6. Tallies(g, set, step, n + 1)
    <3> HIDE DEF g
    <3>1. QED
      BY <2>5 DEF Tallies
  <2>7. QED
    BY <2>6
<1>3. QED
  <2> HIDE DEF S
  <2>1. \A n \in Nat : n \in S
    BY <1>1, <1>2, SetInduction
  <2>2. QED
    BY <2>1 DEF S

(* The tallies of a ring, slot by slot.                                      *)
LEMMA TallyEquations ==
  ASSUME NEW set
  PROVE  \E t : /\ CountLosses(set, 1) = t[LastN].loss
                /\ t[0] = [loss |-> 0, start |-> set[0].sn, ended |-> FALSE]
                /\ \A i \in 1 .. LastN : t[i] = AfterSlot(set, 1, t[i - 1], i)
<1> DEFINE t == CHOOSE f : Tallies(f, set, 1, LastN)
<1>1. LastN \in Nat \ {0}
  BY TesterAssumption
<1>2. Tallies(t, set, 1, LastN)
  <2>1. \E f : Tallies(f, set, 1, LastN)
    BY <1>1, TallyExists
  <2>2. QED
    BY <2>1
<1>3. CountLosses(set, 1) = t[LastN].loss
  BY CountIsTally
<1> HIDE DEF t
<1>4. t[0] = [loss |-> 0, start |-> set[0].sn, ended |-> FALSE]
  BY <1>1, <1>2 DEF Tallies
<1>5. \A i \in 1 .. LastN : t[i] = AfterSlot(set, 1, t[i - 1], i)
  <2> SUFFICES ASSUME NEW i \in 1 .. LastN
               PROVE  t[i] = AfterSlot(set, 1, t[i - 1], i)
    OBVIOUS
  <2>1. i \in 0 .. LastN /\ i # 0
    BY <1>1
  <2>2. QED
    BY <1>2, <2>1 DEF Tallies
<1>6. QED
  BY <1>3, <1>4, <1>5

Tally(b) == DOMAIN b = {"loss", "start", "ended"} /\ b.loss \in Int /\ b.start \in Int

(* A slot that is empty or ends the count, ...                               *)
LEMMA SlotPassed ==
  ASSUME NEW set, NEW b, Tally(b), NEW i, set[i - 1].sn \in Int,
         b.ended \/ set[i - 1].sn <= b.start
  PROVE  /\ Tally(AfterSlot(set, 1, b, i))
         /\ AfterSlot(set, 1, b, i).loss = b.loss
         /\ AfterSlot(set, 1, b, i).start \in {b.start, b.start + 1}
<1> DEFINE this == set[i - 1].sn
<1>1. CASE b.ended \/ this <= 0
  <2>1. AfterSlot(set, 1, b, i) = [b EXCEPT !.ended = TRUE]
    BY <1>1 DEF AfterSlot
  <2>2. QED
    BY <2>1 DEF Tally
<1>2. CASE ~(b.ended \/ this <= 0)
  <2>1. ~(this > b.start)
    BY <1>2 DEF Tally
  <2>2. AfterSlot(set, 1, b, i) = [loss |-> b.loss + 0, start |-> 1 + b.start, ended |-> FALSE]
    BY <1>2, <2>1 DEF AfterSlot
  <2>3. b.loss + 0 = b.loss /\ 1 + b.start = b.start + 1 /\ b.start + 1 \in Int
    BY DEF Tally
  <2>4. QED
    BY <2>2, <2>3 DEF Tally
<1>3. QED
  BY <1>1, <1>2

(* ... and one with the number of a packet that follows the last.            *)
LEMMA SlotCounted ==
  ASSUME NEW set, NEW b, Tally(b), NEW i, set[i - 1].sn \in Int,
         ~b.ended, set[i - 1].sn > 0, set[i - 1].sn >= b.start
  PROVE  /\ Tally(AfterSlot(set, 1, b, i))
         /\ AfterSlot(set, 1, b, i).loss = b.loss + set[i - 1].sn - b.start
         /\ AfterSlot(set, 1, b, i).start = set[i - 1].sn + 1
         /\ ~AfterSlot(set, 1, b, i).ended
<1> DEFINE this == set[i - 1].sn
<1>0. this \in Int /\ b.start \in Int /\ b.loss \in Int
  BY DEF Tally
<1>1. CASE this > b.start
  <2>1. AfterSlot(set, 1, b, i) =
          [loss |-> b.loss + (this - b.start), start |-> 1 + this, ended |-> FALSE]
    BY <1>1, <1>0 DEF AfterSlot
  <2>2. QED
    BY <2>1, <1>0 DEF Tally
<1>2. CASE this = b.start
  <2>1. AfterSlot(set, 1, b, i) = [loss |-> b.loss + 0, start |-> 1 + b.start, ended |-> FALSE]
    <3>1. ~b.ended /\ ~(this <= 0) /\ ~(this > b.start)
      BY <1>2, <1>0
    <3>2. QED
      BY <3>1 DEF AfterSlot
  <2>2. QED
    BY <2>1, <1>0, <1>2 DEF Tally
<1>3. QED
  BY <1>0, <1>1, <1>2

(* The first m slots hold a run of packets, the others nothing newer.        *)
Run(set, m) ==
  /\ \A i \in 0 .. LastN - 1 : set[i].sn \in Int
  /\ \A i \in 0 .. m - 1 : set[i].sn > 0
  /\ \A i, j \in 0 .. m - 1 : i < j => set[i].sn < set[j].sn
  /\ \A i \in m .. LastN - 1 : set[i].sn < set[0].sn
RunGaps(set, n) == set[n - 1].sn - set[0].sn - (n - 1)
TallyAt(set, m, b, n) ==
  /\ Tally(b)
  /\ n <= m => b.loss = RunGaps(set, n) /\ b.start = set[n - 1].sn + 1 /\ ~b.ended
  /\ n > m => b.loss = RunGaps(set, m) /\ b.start > set[0].sn

(* What a tally is after n slots, from what it was before.                   *)
LEMMA TallySteps ==
  ASSUME NEW set, NEW m \in 1 .. LastN, Run(set, m), NEW b, NEW n \in 1 .. LastN - 1,
         TallyAt(set, m, b, n), NEW next, next = AfterSlot(set, 1, b, n + 1)
  PROVE  TallyAt(set, m, next, n + 1)
<1>1. LastN \in Nat
  BY TesterAssumption
<1>2. /\ n \in 0 .. LastN - 1 /\ (n + 1) - 1 = n /\ n - 1 \in 0 .. LastN - 1
      /\ 0 \in 0 .. LastN - 1 /\ m \in Int /\ n \in Int
  BY <1>1
<1>3. /\ set[n].sn \in Int /\ set[n - 1].sn \in Int /\ set[0].sn \in Int
      /\ set[(n + 1) - 1].sn = set[n].sn
  BY <1>2 DEF Run
<1>4. Tally(b)
  BY DEF TallyAt
<1>5. CASE n + 1 <= m
  <2>1. n - 1 \in 0 .. m - 1 /\ n \in 0 .. m - 1 /\ n - 1 < n
    BY <1>5, <1>2
  <2>2. set[n - 1].sn < set[n].sn /\ set[n].sn > 0
    BY <2>1 DEF Run
  <2>3. b.loss = RunGaps(set, n) /\ b.start = set[n - 1].sn + 1 /\ ~b.ended
    BY <1>5, <1>2 DEF TallyAt
  <2>4. set[(n + 1) - 1].sn >= b.start
    BY <2>2, <2>3, <1>3
  <2>5. /\ Tally(next) /\ next.start = set[(n + 1) - 1].sn + 1 /\ ~next.ended
        /\ next.loss = b.loss + set[(n + 1) - 1].sn - b.start
    BY <2>2, <2>3, <2>4, <1>3, <1>4, SlotCounted
  <2>6. next.loss = RunGaps(set, n + 1)
    BY <2>3, <2>5, <1>3, <1>2 DEF RunGaps
  <2>7. ~(n + 1 > m)
    BY <1>5, <1>2
  <2>8. QED
    BY <2>5, <2>6, <2>7 DEF TallyAt
<1>6. CASE n + 1 > m
  <2>1. n \in m .. LastN - 1
    BY <1>6, <1>2
  <2>2. set[n].sn < set[0].sn
    BY <2>1 DEF Run
  <2>3. b.start \in Int
    BY <1>4 DEF Tally
  <2>4. b.loss = RunGaps(set, m) /\ b.start > set[0].sn
    <3>1. CASE n > m
      BY <3>1 DEF TallyAt
    <3>2. CASE n = m
      <4>1. b.loss = RunGaps(set, m) /\ b.start = set[m - 1].sn + 1
        BY <3>2, <1>2 DEF TallyAt
      <4>2. set[m - 1].sn >= set[0].sn
        <5>1. CASE m = 1
          BY <5>1, <1>3, <3>2
        <5>2. CASE m # 1
          <6>1. 0 \in 0 .. m - 1 /\ m - 1 \in 0 .. m - 1 /\ 0 < m - 1
            BY <5>2, <1>2
          <6>2. set[0].sn < set[m - 1].sn
            BY <6>1 DEF Run
          <6>3. QED
            BY <6>2, <1>3, <3>2
        <5>3. QED
          BY <5>1, <5>2
      <4>3. QED
        BY <4>1, <4>2, <3>2, <1>3
    <3>3. QED
      BY <3>1, <3>2, <2>1, <1>2
  <2>5. set[(n + 1) - 1].sn <= b.start
    BY <2>2, <2>3, <2>4, <1>3
  <2>6. Tally(next) /\ next.loss = b.loss /\ next.start \in {b.start, b.start + 1}
    BY <2>5, <1>3, <1>4, SlotPassed
  <2>7. next.start > set[0].sn
    BY <2>3, <2>4, <2>6, <1>3
  <2>8. ~(n + 1 <= m)
    BY <1>6, <1>2
  <2>9. QED
    BY <2>4, <2>6, <2>7, <2>8, <1>6 DEF TallyAt
<1>7. QED
  BY <1>5, <1>6, <1>2

(* The count of a run, whatever lies behind it: ...                          *)
LEMMA RunCounted ==
  ASSUME NEW set, NEW m \in 1 .. LastN, Run(set, m)
  PROVE  CountLosses(set, 1) = RunGaps(set, m)
<1>0. LastN \in Nat \ {0} /\ LastN \in 1 .. LastN
  BY TesterAssumption
<1>1. PICK t : /\ CountLosses(set, 1) = t[LastN].loss
               /\ t[0] = [loss |-> 0, start |-> set[0].sn, ended |-> FALSE]
               /\ \A i \in 1 .. LastN : t[i] = AfterSlot(set, 1, t[i - 1], i)
  BY TallyEquations
<1> DEFINE S == {n \in Nat : n \in 1 .. LastN => TallyAt(set, m, t[n], n)}
<1>2. 0 \in S
  OBVIOUS
<1>3. ASSUME NEW n \in Nat, n \in S
      PROVE  n + 1 \in S
  <2> SUFFICES ASSUME n + 1 \in 1 .. LastN
               PROVE  TallyAt(set, m, t[n + 1], n + 1)
    OBVIOUS
  <2>1. (n + 1) - 1 = n
    OBVIOUS
  <2>2. t[n + 1] = AfterSlot(set, 1, t[n], n + 1)
    <3>1. t[n + 1] = AfterSlot(set, 1, t[(n + 1) - 1], n + 1)
      BY <1>1
    <3>2. QED
      BY <3>1, <2>1
  <2>3. CASE n = 0
    <3>1. 0 \in 0 .. LastN - 1 /\ 0 \in 0 .. m - 1
      BY <1>0
    <3>2. set[0].sn \in Int /\ set[0].sn > 0
      BY <3>1 DEF Run
    <3>3. Tally(t[0]) /\ ~t[0].ended /\ t[0].start = set[0].sn /\ t[0].loss = 0
      BY <1>1, <3>2 DEF Tally
    <3>4. set[1 - 1].sn = set[0].sn
      OBVIOUS
    <3>5. set[1 - 1].sn \in Int /\ set[1 - 1].sn > 0 /\ set[1 - 1].sn >= t[0].start
      BY <3>2, <3>3, <3>4
    <3>6. t[1] = AfterSlot(set, 1, t[0], 1)
      BY <2>2, <2>3
    <3>7. /\ Tally(t[1]) /\ ~t[1].ended /\ t[1].start = set[1 - 1].sn + 1
          /\ t[1].loss = t[0].loss + set[1 - 1].sn - t[0].start
      BY <3>3, <3>5, <3>6, SlotCounted
    <3>8. t[1].loss = RunGaps(set, 1)
      BY <3>2, <3>3, <3>4, <3>7 DEF RunGaps
    <3>9. TallyAt(set, m, t[1], 1)
      BY <3>7, <3>8, <1>0 DEF TallyAt
    <3>10. QED
      BY <3>9, <2>3
  <2>4. CASE n # 0
    <3>1. n \in 1 .. LastN - 1 /\ n \in 1 .. LastN
      BY <2>4, <1>0
    <3>2. TallyAt(set, m, t[n], n)
      BY <3>1, <1>3
    <3>3. QED
      BY <3>1, <3>2, <2>2, TallySteps
  <2>5. QED
    BY <2>3, <2>4
<1>4. LastN \in S
  <2> HIDE DEF S
  <2>1. \A n \in Nat : n \in S
    BY <1>2, <1>3, SetInduction
  <2>2. QED
    BY <2>1, <1>0
<1>5. TallyAt(set, m, t[LastN], LastN)
  BY <1>4, <1>0
<1>6. QED
  <2>1. CASE m = LastN
    BY <2>1, <1>0, <1>1, <1>5 DEF TallyAt
  <2>2. CASE m # LastN
    <3>1. LastN > m
      BY <2>2, <1>0
    <3>2. QED
      BY <3>1, <1>1, <1>5 DEF TallyAt
  <2>3. QED
    BY <2>1, <2>2

(* ... and of a ring without a packet.                                       *)
LEMMA NoneCounted ==
  ASSUME NEW set, \A i \in 0 .. LastN - 1 : set[i].sn = -1
  PROVE  CountLosses(set, 1) = 0
<1>0. LastN \in Nat \ {0} /\ LastN \in 0 .. LastN
  BY TesterAssumption
<1>1. PICK t : /\ CountLosses(set, 1) = t[LastN].loss
               /\ t[0] = [loss |-> 0, start |-> set[0].sn, ended |-> FALSE]
               /\ \A i \in 1 .. LastN : t[i] = AfterSlot(set, 1, t[i - 1], i)
  BY TallyEquations
<1> DEFINE S == {n \in Nat : n \in 0 .. LastN =>
                               Tally(t[n]) /\ t[n].loss = 0 /\ t[n].start >= -1}
<1>2. 0 \in S
  <2>1. set[0].sn = -1
    BY <1>0
  <2>2. QED
    BY <1>1, <2>1 DEF Tally
<1>3. ASSUME NEW n \in Nat, n \in S
      PROVE  n + 1 \in S
  <2> SUFFICES ASSUME n + 1 \in 0 .. LastN
               PROVE  Tally(t[n + 1]) /\ t[n + 1].loss = 0 /\ t[n + 1].start >= -1
    OBVIOUS
  <2>1. (n + 1) - 1 = n /\ n + 1 \in 1 .. LastN /\ n \in 0 .. LastN - 1 /\ n \in 0 .. LastN
    BY <1>0
  <2>2. t[n + 1] = AfterSlot(set, 1, t[n], n + 1)
    <3>1. t[n + 1] = AfterSlot(set, 1, t[(n + 1) - 1], n + 1)
      BY <1>1, <2>1
    <3>2. QED
      BY <3>1, <2>1
  <2>3. Tally(t[n]) /\ t[n].loss = 0 /\ t[n].start >= -1
    BY <1>3, <2>1
  <2>4. set[(n + 1) - 1].sn = -1
    BY <2>1
  <2>5. set[(n + 1) - 1].sn \in Int /\ set[(n + 1) - 1].sn <= t[n].start
    BY <2>3, <2>4 DEF Tally
  <2>6. /\ Tally(t[n + 1]) /\ t[n + 1].loss = t[n].loss
        /\ t[n + 1].start \in {t[n].start, t[n].start + 1}
    BY <2>2, <2>3, <2>5, SlotPassed
  <2>7. t[n + 1].start >= -1
    BY <2>3, <2>6 DEF Tally
  <2>8. QED
    BY <2>3, <2>6, <2>7
<1>4. LastN \in S
  <2> HIDE DEF S
  <2>1. \A n \in Nat : n \in S
    BY <1>2, <1>3, SetInduction
  <2>2. QED
    BY <2>1, <1>0
<1>5. QED
  BY <1>0, <1>1, <1>4

(* The numbers that are missing from the run are lost, and when the other    *)
(* slots are empty no other one is.                                          *)
Numbers(set) == {set[i].sn : i \in {j \in 0 .. LastN - 1 : set[j].sn > 0}}
Lost(set) == {n \in 1 .. MaxSn : /\ n \notin Numbers(set)
                /\ \E a, b \in Numbers(set) : a < n /\ n < b}
Missing(set, m) ==
  {n \in set[0].sn .. set[m - 1].sn : n \notin {set[i].sn : i \in 0 .. m - 1}}

(* There are finitely many of the numbers that are lost.                     *)
LEMMA LostFinite ==
  ASSUME NEW set
  PROVE  IsFiniteSet(Lost(set)) /\ Cardinality(Lost(set)) \in Nat
<1>1. MaxSn \in Nat
  BY TesterAssumption
<1>2. IsFiniteSet(1 .. MaxSn)
  BY <1>1, FS_Interval
<1>3. Lost(set) \in SUBSET (1 .. MaxSn)
  BY DEF Lost
<1>4. QED
  BY <1>2, <1>3, FS_Subset, FS_CardinalityType

(* The numbers of a run lie between its first and its last.                  *)
LEMMA RunEnds ==
  ASSUME NEW set, NEW m \in 1 .. LastN, Run(set, m)
  PROVE  /\ set[0].sn \in Nat \ {0} /\ set[m - 1].sn \in Nat \ {0}
         /\ \A i \in 0 .. m - 1 : set[i].sn \in set[0].sn .. set[m - 1].sn
<1>0. LastN \in Nat /\ m \in Nat
  BY TesterAssumption
<1>1. \A i \in 0 .. m - 1 : i \in 0 .. LastN - 1
  BY <1>0
<1>2. \A i \in 0 .. m - 1 : set[i].sn \in Int /\ set[i].sn > 0
  BY <1>1 DEF Run
<1>3. 0 \in 0 .. m - 1 /\ m - 1 \in 0 .. m - 1
  BY <1>0
<1>4. ASSUME NEW i \in 0 .. m - 1
      PROVE  set[0].sn <= set[i].sn /\ set[i].sn <= set[m - 1].sn
  <2>1. set[i].sn \in Int /\ set[0].sn \in Int /\ set[m - 1].sn \in Int
    BY <1>2, <1>3
  <2>2. set[0].sn <= set[i].sn
    <3>1. CASE i = 0
      BY <3>1, <2>1
    <3>2. CASE 0 < i
      <4>1. set[0].sn < set[i].sn
        BY <3>2, <1>3 DEF Run
      <4>2. QED
        BY <4>1, <2>1
    <3>3. QED
      BY <3>1, <3>2
  <2>3. set[i].sn <= set[m - 1].sn
    <3>1. CASE i = m - 1
      BY <3>1, <2>1
    <3>2. CASE i < m - 1
      <4>1. set[i].sn < set[m - 1].sn
        BY <3>2, <1>3 DEF Run
      <4>2. QED
        BY <4>1, <2>1
    <3>3. QED
      BY <3>1, <3>2, <1>0
  <2>4. QED
    BY <2>2, <2>3
<1>5. QED
  BY <1>2, <1>3, <1>4

(* The gaps of a run are as many as the numbers missing from it.             *)
LEMMA MissingCounted ==
  ASSUME NEW set, NEW m \in 1 .. LastN, Run(set, m)
  PROVE  IsFiniteSet(Missing(set, m)) /\ Cardinality(Missing(set, m)) = RunGaps(set, m)
<1> DEFINE A == set[0].sn .. set[m - 1].sn
           D == 0 .. m - 1
           B == {set[i].sn : i \in D}
           f == [i \in D |-> set[i].sn]
<1>0. LastN \in Nat /\ m \in Nat /\ 0 \in D /\ m - 1 \in D
  BY TesterAssumption
<1>1. /\ set[0].sn \in Nat /\ set[m - 1].sn \in Nat /\ B \subseteq A
      /\ set[0].sn <= set[m - 1].sn
  BY <1>0, RunEnds
<1>2. IsFiniteSet(A) /\ Cardinality(A) = set[m - 1].sn - set[0].sn + 1
  <2> DEFINE a == set[0].sn
             b == set[m - 1].sn
  <2>1. a \in Int /\ b \in Int /\ ~(a > b)
    BY <1>1
  <2>2. IsFiniteSet(a .. b) /\ Cardinality(a .. b) = b - a + 1
    <3> HIDE DEF a, b
    <3>1. QED
      BY <2>1, FS_Interval
  <2>3. QED
    BY <2>2
<1>3. IsFiniteSet(D) /\ Cardinality(D) = m
  <2>1. 0 \in Int /\ m - 1 \in Int /\ ~(0 > m - 1) /\ (m - 1) - 0 + 1 = m
    BY <1>0
  <2> HIDE DEF D
  <2>2. D = 0 .. m - 1
    BY DEF D
  <2>3. QED
    BY <2>1, <2>2, FS_Interval
<1>4. f \in Surjection(D, B)
  BY DEF Surjection
<1>5. f \in Injection(D, B)
  <2>1. \A i, j \in D : i < j => set[i].sn # set[j].sn
    <3>1. \A i \in D : set[i].sn \in Nat
      BY <1>1
    <3>2. \A i, j \in D : i < j => set[i].sn < set[j].sn
      BY DEF Run
    <3>3. QED
      BY <3>1, <3>2
  <2>2. \A i, j \in D : i # j => i < j \/ j < i
    BY <1>0
  <2>3. \A i, j \in D : f[i] = f[j] => i = j
    BY <2>1, <2>2
  <2>4. f \in [D -> B]
    OBVIOUS
  <2> HIDE DEF f, D, B
  <2>5. QED
    BY <2>3, <2>4 DEF Injection, IsInjective
<1>6. IsFiniteSet(B) /\ Cardinality(B) = m
  <2> HIDE DEF f, D, B
  <2>1. QED
    BY <1>3, <1>4, <1>5, FS_Surjection
<1>7. Missing(set, m) = A \ B
  BY DEF Missing
<1>8. A \cap B = B
  BY <1>1
<1>9. IsFiniteSet(A \ B) /\ Cardinality(A \ B) = Cardinality(A) - Cardinality(B)
  <2> HIDE DEF A, B
  <2>1. IsFiniteSet(A)
    BY <1>2
  <2>2. IsFiniteSet(A \ B) /\ Cardinality(A \ B) = Cardinality(A) - Cardinality(A \cap B)
    BY <2>1, FS_Difference
  <2>3. QED
    BY <2>2, <1>8
<1>10. QED
  <2> HIDE DEF A, B, D
  <2>1. QED
    BY <1>0, <1>1, <1>2, <1>6, <1>7, <1>9 DEF RunGaps

(* No more is counted than was lost and, of a ring that has not wrapped, no  *)
(* less.                                                                     *)
LEMMA RunLosses ==
  ASSUME NEW set, NEW m \in 1 .. LastN, Run(set, m),
         \A n \in Numbers(set) : n <= MaxSn
  PROVE  /\ CountLosses(set, 1) \in Nat
         /\ CountLosses(set, 1) <= Cardinality(Lost(set))
         /\ (\A i \in m .. LastN - 1 : set[i].sn <= 0)
              => CountLosses(set, 1) = Cardinality(Lost(set))
<1>0. LastN \in Nat /\ m \in Nat /\ MaxSn \in Nat /\ 0 \in 0 .. m - 1 /\ m - 1 \in 0 .. m - 1
  BY TesterAssumption
<1>1. \A i \in 0 .. m - 1 : i \in 0 .. LastN - 1 /\ set[i].sn > 0
  BY <1>0 DEF Run
<1>2. \A i \in 0 .. m - 1 : set[i].sn \in Numbers(set)
  BY <1>1 DEF Numbers
<1>3. /\ set[0].sn \in Nat \ {0} /\ set[m - 1].sn \in Nat \ {0}
      /\ \A i \in 0 .. m - 1 : set[i].sn \in set[0].sn .. set[m - 1].sn
  BY RunEnds
<1>4. Missing(set, m) \subseteq Lost(set)
  <2> SUFFICES ASSUME NEW n \in Missing(set, m)
               PROVE  n \in Lost(set)
    OBVIOUS
  <2>1. n \in set[0].sn .. set[m - 1].sn /\ \A i \in 0 .. m - 1 : n # set[i].sn
    BY DEF Missing
  <2>2. set[0].sn < n /\ n < set[m - 1].sn
    BY <2>1, <1>0, <1>3
  <2>3. set[0].sn \in Numbers(set) /\ set[m - 1].sn \in Numbers(set)
    BY <1>0, <1>2
  <2>4. n \in 1 .. MaxSn
    BY <2>1, <2>2, <2>3, <1>0, <1>3
  <2>5. \A i \in m .. LastN - 1 : n # set[i].sn
    <3>1. \A i \in m .. LastN - 1 : i \in 0 .. LastN - 1
      BY <1>0
    <3>2. \A i \in m .. LastN - 1 : set[i].sn < set[0].sn /\ set[i].sn \in Int
      BY <3>1 DEF Run
    <3>3. QED
      BY <3>2, <2>2, <2>4, <1>3
  <2>6. \A i \in 0 .. LastN - 1 : i \in 0 .. m - 1 \/ i \in m .. LastN - 1
    BY <1>0
  <2>7. n \notin Numbers(set)
    BY <2>1, <2>5, <2>6 DEF Numbers
  <2>8. QED
    BY <2>2, <2>3, <2>4, <2>7 DEF Lost
<1>5. IsFiniteSet(Lost(set)) /\ Cardinality(Lost(set)) \in Nat
  BY LostFinite
<1>6. /\ IsFiniteSet(Missing(set, m)) /\ Cardinality(Missing(set, m)) \in Nat
      /\ Cardinality(Missing(set, m)) <= Cardinality(Lost(set))
  <2>1. Missing(set, m) \in SUBSET Lost(set)
    BY <1>4
  <2>2. QED
    BY <2>1, <1>5, FS_Subset, FS_CardinalityType
<1>7. CountLosses(set, 1) = Cardinality(Missing(set, m))
  BY RunCounted, MissingCounted
<1>8. ASSUME \A i \in m .. LastN - 1 : set[i].sn <= 0
      PROVE  Lost(set) \subseteq Missing(set, m)
  <2> SUFFICES ASSUME NEW n \in Lost(set)
               PROVE  n \in Missing(set, m)
    OBVIOUS
  <2>1. n \in 1 .. MaxSn /\ n \notin Numbers(set)
    BY DEF Lost
  <2>2. PICK a, b \in Numbers(set) : a < n /\ n < b
    BY DEF Lost
  <2>3. \A i \in 0 .. LastN - 1 : set[i].sn > 0 => i \in 0 .. m - 1
    <3> SUFFICES ASSUME NEW i \in 0 .. LastN - 1, set[i].sn > 0, i \notin 0 .. m - 1
                 PROVE  FALSE
      OBVIOUS
    <3>1. i \in m .. LastN - 1
      BY <1>0
    <3>2. set[i].sn \in Int
      BY DEF Run
    <3>3. QED
      BY <3>1, <3>2, <1>8
  <2>4. a \in set[0].sn .. set[m - 1].sn /\ b \in set[0].sn .. set[m - 1].sn
    BY <2>3, <1>3 DEF Numbers
  <2>5. n \in set[0].sn .. set[m - 1].sn
    BY <2>1, <2>2, <2>4, <1>3
  <2>6. QED
    BY <2>1, <2>5, <1>2 DEF Missing
<1>9. QED
  <2>1. ASSUME \A i \in m .. LastN - 1 : set[i].sn <= 0
        PROVE  CountLosses(set, 1) = Cardinality(Lost(set))
    <3>1. Lost(set) = Missing(set, m)
      BY <2>1, <1>4, <1>8
    <3>2. QED
      BY <3>1, <1>7
  <2>2. QED
    BY <2>1, <1>6, <1>7

-----------------------------------------------------------------------------
(* The packets of a ring: those of an earlier start of the program before    *)
(* those of a later one, and of one start in the order of their numbers.     *)
Before(x, y) == x.start < y.start \/ (x.start = y.start /\ x.sn < y.sn)
Filled(r, i) == r.wrapped \/ i < r.at
Older(r, i, j) ==
  (i >= r.at /\ j < r.at) \/ (i < j /\ (i < r.at <=> j < r.at))
Sound(p) == p.sn \in 1 .. MaxSn /\ p.start \in Nat
RingOrdered(r) ==
  /\ r.at \in 0 .. LastN - 1
  /\ \A i \in 0 .. LastN - 1 :
       (Filled(r, i) => Sound(r.set[i])) /\ (~Filled(r, i) => r.set[i].sn = -1)
  /\ \A i, j \in 0 .. LastN - 1 :
       Filled(r, i) /\ Filled(r, j) /\ Older(r, i, j) => Before(r.set[i], r.set[j])

OneStart(r) ==
  \A i, j \in 0 .. LastN - 1 : Filled(r, i) /\ Filled(r, j) => r.set[i].start = r.set[j].start

(* In a ring of packets of one start the first slots hold a run.             *)
LEMMA RingIsRun ==
  ASSUME NEW r, RingOrdered(r), OneStart(r), NEW m \in 1 .. LastN,
         m = r.at \/ (m = LastN /\ r.at = 0 /\ r.wrapped)
  PROVE  Run(r.set, m) /\ (~r.wrapped => \A i \in m .. LastN - 1 : r.set[i].sn <= 0)
<1>0. LastN \in Nat /\ m \in Nat /\ MaxSn \in Nat /\ r.at \in Nat
  BY TesterAssumption DEF RingOrdered
<1>1. \A i \in 0 .. LastN - 1 : r.set[i].sn \in Int
  BY <1>0 DEF RingOrdered, Sound
<1>2. \A i \in 0 .. m - 1 : i \in 0 .. LastN - 1 /\ Filled(r, i)
  BY <1>0 DEF Filled
<1>3. \A i \in 0 .. m - 1 : r.set[i].sn > 0
  BY <1>2, <1>0 DEF RingOrdered, Sound
<1>4. ASSUME NEW i \in 0 .. m - 1, NEW j \in 0 .. m - 1, i < j
      PROVE  r.set[i].sn < r.set[j].sn
  <2>1. Older(r, i, j)
    BY <1>0, <1>4 DEF Older
  <2>2. Before(r.set[i], r.set[j]) /\ r.set[i].start = r.set[j].start
    BY <2>1, <1>2 DEF RingOrdered, OneStart
  <2>3. r.set[i].start \in Nat
    BY <1>2 DEF RingOrdered, Sound
  <2>4. QED
    BY <2>2, <2>3 DEF Before
<1>5. ASSUME NEW i \in m .. LastN - 1
      PROVE  r.set[i].sn < r.set[0].sn
  <2>1. i \in 0 .. LastN - 1 /\ 0 \in 0 .. m - 1 /\ 0 \in 0 .. LastN - 1
    BY <1>0
  <2>2. r.set[0].sn > 0 /\ r.set[0].sn \in Int /\ Filled(r, 0)
    BY <2>1, <1>1, <1>2, <1>3
  <2>3. CASE ~Filled(r, i)
    BY <2>1, <2>2, <2>3 DEF RingOrdered
  <2>4. CASE Filled(r, i)
    <3>1. m = r.at /\ i >= r.at /\ 0 < r.at
      BY <1>0
    <3>2. Older(r, i, 0)
      BY <3>1 DEF Older
    <3>3. Before(r.set[i], r.set[0]) /\ r.set[i].start = r.set[0].start
      BY <3>2, <2>1, <2>2, <2>4 DEF RingOrdered, OneStart
    <3>4. r.set[i].start \in Nat
      BY <2>1, <2>4 DEF RingOrdered, Sound
    <3>5. QED
      BY <3>3, <3>4 DEF Before
  <2>5. QED
    BY <2>3, <2>4
<1>6. ASSUME ~r.wrapped, NEW i \in m .. LastN - 1
      PROVE  r.set[i].sn <= 0
  <2>1. i \in 0 .. LastN - 1 /\ ~Filled(r, i)
    BY <1>0, <1>6 DEF Filled
  <2>2. r.set[i].sn = -1
    BY <2>1 DEF RingOrdered
  <2>3. QED
    BY <2>2
<1>7. Run(r.set, m)
  BY <1>1, <1>3, <1>4, <1>5 DEF Run
<1>8. QED
  BY <1>6, <1>7

(* The rate of a ring whose packets are of one start.                        *)
LEMMA RingHonest ==
  ASSUME NEW r, RingOrdered(r), OneStart(r), r.wrapped \in BOOLEAN
  PROVE  IF r.wrapped \/ Cardinality(Lost(r.set)) > LastN
         THEN Losses(r.set) <= Cardinality(Lost(r.set))
         ELSE Losses(r.set) = Cardinality(Lost(r.set))
<1>0. LastN \in Nat \ {0} /\ MaxSn \in Nat /\ r.at \in Nat /\ r.at < LastN
  BY TesterAssumption DEF RingOrdered
<1>1. Cardinality(Lost(r.set)) \in Nat
  BY LostFinite
<1>2. Losses(r.set) = IF CountLosses(r.set, 1) > LastN THEN LastN ELSE CountLosses(r.set, 1)
  BY DEF Losses
<1>3. ASSUME NEW n \in Numbers(r.set)
      PROVE  n <= MaxSn
  <2>1. PICK i \in 0 .. LastN - 1 : r.set[i].sn > 0 /\ n = r.set[i].sn
    BY DEF Numbers
  <2>2. QED
    BY <2>1, <1>0 DEF RingOrdered, Sound
<1>4. CASE r.at = 0 /\ ~r.wrapped
  <2>1. \A i \in 0 .. LastN - 1 : r.set[i].sn = -1
    BY <1>4 DEF RingOrdered, Filled
  <2>2. CountLosses(r.set, 1) = 0
    BY <2>1, NoneCounted
  <2>3. Numbers(r.set) = {}
    BY <2>1 DEF Numbers
  <2>4. Lost(r.set) = {}
    BY <2>3 DEF Lost
  <2>5. Cardinality(Lost(r.set)) = 0
    BY <2>4, FS_EmptySet
  <2>6. QED
    BY <2>2, <2>5, <1>0, <1>2, <1>4
<1>5. CASE r.at # 0 \/ r.wrapped
  <2>1. PICK m \in 1 .. LastN : m = r.at \/ (m = LastN /\ r.at = 0 /\ r.wrapped)
    BY <1>0, <1>5
  <2>2. Run(r.set, m) /\ (~r.wrapped => \A i \in m .. LastN - 1 : r.set[i].sn <= 0)
    BY <2>1, RingIsRun
  <2>3. /\ CountLosses(r.set, 1) \in Nat
        /\ CountLosses(r.set, 1) <= Cardinality(Lost(r.set))
        /\ ~r.wrapped => CountLosses(r.set, 1) = Cardinality(Lost(r.set))
    BY <2>2, <1>3, RunLosses
  <2>4. QED
    BY <2>3, <1>0, <1>1, <1>2
<1>6. QED
  BY <1>4, <1>5

(* A packet is one of this start of the program or of an earlier one; the    *)
(* sender that runs gives later numbers, and no other one will run.          *)
Active == {"hours", "minutes", "seconds", "sleep"} \cup Channels
Issued(p, c, st, b, s) ==
  /\ p.start <= st
  /\ p.start = st => b # {} /\ (s.pc \in Active => p.sn < s.sn[c])
Sender(s, b) ==
  /\ DOMAIN s = {"pc", "hours", "minutes", "seconds", "sn"} /\ DOMAIN s.sn = Channels
  /\ \A c \in Channels : s.sn[c] \in Nat \ {0}
  /\ s.pc \in Active => b # {}
AllIssued(st, b, s) ==
  \A c \in Channels :
    /\ \A i \in 0 .. LastN - 1 : Filled(ring[c], i) => Issued(ring[c].set[i], c, st, b, s)
    /\ \A k \in DOMAIN air[c] : Issued(air[c][k], c, st, b, s)

RingShape(r) ==
  /\ DOMAIN r = {"at", "wrapped", "set"} /\ DOMAIN r.set = 0 .. LastN - 1
  /\ r.wrapped \in BOOLEAN
PacketsOf == [sn : 1 .. MaxSn, start : Nat]
InOrder(r, a) ==
  /\ RingShape(r) /\ RingOrdered(r) /\ a \in Seq(PacketsOf)
  /\ \A k, l \in DOMAIN a : k < l => Before(a[k], a[l])
  /\ \A i \in 0 .. LastN - 1, k \in DOMAIN a : Filled(r, i) => Before(r.set[i], a[k])
Queued == /\ DOMAIN ring = Channels /\ DOMAIN air = Channels
          /\ \A c \in Channels : InOrder(ring[c], air[c])
LossInv ==
  starts \in Nat /\ Sender(sender, bound) /\ Queued /\ AllIssued(starts, bound, sender)

(* What is assumed of the constants.                                         *)
LEMMA Constants ==
  /\ LastN \in Nat \ {0} /\ MaxSn \in Nat /\ Channels # {} /\ Len(Radios) \in Nat
  /\ DOMAIN Radios = 1 .. Len(Radios) /\ \A i \in DOMAIN Radios : Radios[i] \in Channels
  /\ Channels \cap {"off", "wait", "hours", "minutes", "seconds", "sleep", "dead"} = {}
<1>1. Radios \in Seq(Channels) /\ Radios # <<>>
  BY TesterAssumption
<1>2. DOMAIN Radios = 1 .. Len(Radios) /\ Len(Radios) \in Nat /\ Len(Radios) # 0
  BY <1>1
<1>3. 1 \in DOMAIN Radios
  BY <1>2
<1>4. Channels # {} /\ \A i \in DOMAIN Radios : Radios[i] \in Channels
  BY <1>3 DEF Channels
<1>5. /\ LastN \in Nat \ {0} /\ MaxSn \in Nat
      /\ Channels \cap {"off", "wait", "hours", "minutes", "seconds", "sleep", "dead"} = {}
  BY TesterAssumption
<1>6. QED
  BY <1>2, <1>4, <1>5

(* At first there are no packets.                                            *)
LEMMA LossInit == TesterInit => LossInv
<1> SUFFICES ASSUME TesterInit
             PROVE  LossInv
  OBVIOUS
<1>1. starts \in Nat /\ DOMAIN ring = Channels /\ DOMAIN air = Channels
  BY DEF TesterInit
<1>2. Sender(sender, bound)
  BY Constants DEF TesterInit, SenderOff, Sender, Active
<1>3. ASSUME NEW c \in Channels
      PROVE  /\ air[c] = <<>> /\ ring[c].at = 0 /\ ~ring[c].wrapped
             /\ RingShape(ring[c]) /\ \A i \in 0 .. LastN - 1 : ring[c].set[i].sn = -1
  BY DEF TesterInit, RingShape, NoPacket
<1>4. ASSUME NEW c \in Channels
      PROVE  InOrder(ring[c], air[c])
  <2>1. /\ air[c] = <<>> /\ ring[c].at = 0 /\ ~ring[c].wrapped
        /\ RingShape(ring[c]) /\ \A i \in 0 .. LastN - 1 : ring[c].set[i].sn = -1
    BY <1>3
  <2>2. \A i \in 0 .. LastN - 1 : ~Filled(ring[c], i)
    BY <2>1 DEF Filled
  <2>3. RingOrdered(ring[c])
    BY <2>1, <2>2, Constants DEF RingOrdered
  <2>4. QED
    BY <2>1, <2>2, <2>3 DEF InOrder
<1>5. AllIssued(starts, bound, sender)
  <2>1. \A c \in Channels : air[c] = <<>>
    BY <1>3
  <2>2. \A c \in Channels, i \in 0 .. LastN - 1 : ~Filled(ring[c], i)
    BY <1>3 DEF Filled
  <2>3. QED
    BY <2>1, <2>2 DEF AllIssued
<1>6. QED
  BY <1>1, <1>2, <1>4, <1>5 DEF LossInv, Queued

(* What neither sends nor receives.                                          *)
LEMMA LossKept ==
  ASSUME LossInv, air' = air, ring' = ring, starts' \in Nat, Sender(sender', bound'),
         \A c \in Channels : \A p :
           p.start \in Nat /\ Issued(p, c, starts, bound, sender)
             => Issued(p, c, starts', bound', sender')
  PROVE  LossInv'
<1>1. Queued'
  BY DEF LossInv, Queued
<1>2. AllIssued(starts', bound', sender')
  <2>1. ASSUME NEW c \in Channels
        PROVE  /\ \A i \in 0 .. LastN - 1 : Filled(ring[c], i) => ring[c].set[i].start \in Nat
               /\ \A k \in DOMAIN air[c] : air[c][k].start \in Nat
    <3>1. InOrder(ring[c], air[c])
      BY DEF LossInv, Queued
    <3>2. RingOrdered(ring[c]) /\ air[c] \in Seq(PacketsOf)
      BY <3>1 DEF InOrder
    <3>3. \A k \in DOMAIN air[c] : air[c][k] \in PacketsOf
      BY <3>2
    <3>4. QED
      BY <3>2, <3>3 DEF RingOrdered, Sound, PacketsOf
  <2>2. QED
    BY <2>1 DEF LossInv, AllIssued
<1>3. AllIssued(starts, bound, sender)'
  BY <1>2 DEF AllIssued
<1>4. QED
  BY <1>1, <1>3 DEF LossInv

(* The decoder and the display.                                              *)
LEMMA LossDecode ==
  ASSUME LossInv, Decode \/ Show \/ Reset
  PROVE  LossInv'
<1>1. UNCHANGED <<sender, bound, starts, air, ring>>
  BY DEF Decode, Gga, Rmc, Time, TimeAgain, Fixtype, Valid, Decodes, Show, Reset
<1>2. QED
  BY <1>1, LossKept DEF LossInv

(* The sender begins: with its ports bound it goes on from the last number,  *)
(* and a sender that binds them is the first of this start.                  *)
LEMMA LossOpen ==
  ASSUME LossInv, Open
  PROVE  LossInv'
<1>1. /\ UNCHANGED <<starts, air, ring>> /\ bound' = Channels /\ bound' # {}
      /\ sender' = [sender EXCEPT !.pc = IF bound = {} THEN "hours" ELSE "dead"]
  BY Constants DEF Open, SenderAt
<1>2. /\ Sender(sender', bound') /\ sender'.sn = sender.sn
      /\ bound # {} => sender'.pc \notin Active
  BY <1>1, Constants DEF LossInv, Sender, Active
<1>3. ASSUME NEW c \in Channels, NEW p, Issued(p, c, starts, bound, sender)
      PROVE  Issued(p, c, starts', bound', sender')
  BY <1>1, <1>2, <1>3 DEF Issued
<1>4. QED
  BY <1>1, <1>2, <1>3, LossKept DEF LossInv

(* The sender reads the time.                                                *)
LEMMA LossRead ==
  ASSUME LossInv, ReadTime \/ Wake
  PROVE  LossInv'
<1>1. UNCHANGED <<starts, bound, air, ring>>
  BY DEF ReadTime, Reads, Wake
<1>2. /\ sender.pc \in Active /\ sender'.pc \in Active /\ sender'.sn = sender.sn
      /\ DOMAIN sender' = DOMAIN sender
  <2>1. DOMAIN sender = {"pc", "hours", "minutes", "seconds", "sn"}
    BY DEF LossInv, Sender
  <2>2. Radios[1] \in Channels
    <3>1. Len(Radios) # 0
      BY Constants DEF Channels
    <3>2. 1 \in DOMAIN Radios
      BY <3>1, Constants
    <3>3. QED
      BY <3>2, Constants
  <2>3. CASE Wake
    BY <2>1, <2>3 DEF Wake, SenderAt, Active
  <2>4. CASE Reads("hours", "minutes", "hours", gps.hours)
    BY <2>1, <2>4 DEF Reads, Active
  <2>5. CASE Reads("minutes", "seconds", "minutes", gps.minutes)
    BY <2>1, <2>5 DEF Reads, Active
  <2>6. CASE Reads("seconds", Radios[1], "seconds", gps.seconds)
    BY <2>1, <2>2, <2>6 DEF Reads, Active
  <2>7. QED
    BY <2>3, <2>4, <2>5, <2>6 DEF ReadTime
<1>3. Sender(sender', bound')
  BY <1>1, <1>2 DEF LossInv, Sender
<1>4. ASSUME NEW c \in Channels, NEW p, Issued(p, c, starts, bound, sender)
      PROVE  Issued(p, c, starts', bound', sender')
  BY <1>1, <1>2, <1>4 DEF Issued
<1>5. QED
  BY <1>1, <1>3, <1>4, LossKept DEF LossInv

(* The menu stops and starts the sender, and the program is started again.   *)
LEMMA LossStop ==
  ASSUME LossInv, MenuS \/ MenuT \/ Restart
  PROVE  LossInv'
<1>1. /\ UNCHANGED <<air, ring>> /\ sender'.pc \in {"off", "wait"}
      /\ \/ starts' = starts /\ bound' = bound
         \/ starts' = starts + 1 /\ bound' = {}
      /\ DOMAIN sender' = {"pc", "hours", "minutes", "seconds", "sn"}
      /\ sender'.sn = [c \in Channels |-> 1]
  BY DEF MenuS, MenuT, Restart, SenderOff
<1>2. sender'.pc \notin Active
  BY <1>1, Constants DEF Active
<1>3. Sender(sender', bound')
  BY <1>1, <1>2 DEF Sender
<1>4. starts' \in Nat
  BY <1>1 DEF LossInv
<1>5. ASSUME NEW c \in Channels, NEW p, p.start \in Nat, Issued(p, c, starts, bound, sender)
      PROVE  Issued(p, c, starts', bound', sender')
  BY <1>1, <1>2, <1>5 DEF Issued, LossInv
<1>6. QED
  BY <1>1, <1>3, <1>4, <1>5, LossKept

(* A packet that is sent comes after all those of its channel.               *)
LEMMA QueueGrows ==
  ASSUME NEW c \in Channels, InOrder(ring[c], air[c]), AllIssued(starts, bound, sender),
         sender.pc \in Active, starts \in Nat, sender.sn[c] \in 1 .. MaxSn,
         NEW p, p = [sn |-> sender.sn[c], start |-> starts]
  PROVE  InOrder(ring[c], Append(air[c], p))
<1> DEFINE a == air[c]
           b == Append(air[c], p)
<1>1. a \in Seq(PacketsOf) /\ p \in PacketsOf
  BY DEF InOrder, PacketsOf
<1>2. /\ b \in Seq(PacketsOf) /\ DOMAIN b = 1 .. Len(a) + 1 /\ Len(a) \in Nat
      /\ DOMAIN a = 1 .. Len(a) /\ b[Len(a) + 1] = p
      /\ \A k \in DOMAIN a : b[k] = a[k]
  BY <1>1
<1>3. \A q : (q.start \in Nat /\ q.sn \in Nat /\ Issued(q, c, starts, bound, sender))
                => Before(q, p)
  BY DEF Issued, Before
<1>4. ASSUME NEW k \in DOMAIN a
      PROVE  Before(a[k], p)
  <2>1. a[k] \in PacketsOf
    BY <1>1
  <2>2. a[k].start \in Nat /\ a[k].sn \in Nat
    BY <2>1, Constants DEF PacketsOf
  <2>3. Issued(a[k], c, starts, bound, sender)
    BY DEF AllIssued
  <2>4. QED
    BY <2>2, <2>3, <1>3
<1>5. ASSUME NEW i \in 0 .. LastN - 1, Filled(ring[c], i)
      PROVE  Before(ring[c].set[i], p)
  <2>1. Sound(ring[c].set[i])
    BY <1>5 DEF InOrder, RingOrdered
  <2>2. ring[c].set[i].start \in Nat /\ ring[c].set[i].sn \in Nat
    BY <2>1, Constants DEF Sound
  <2>3. Issued(ring[c].set[i], c, starts, bound, sender)
    BY <1>5 DEF AllIssued
  <2>4. QED
    BY <2>2, <2>3, <1>3
<1>6. \A k \in DOMAIN b : k \in DOMAIN a \/ k = Len(a) + 1
  BY <1>2
<1>7. ASSUME NEW k \in DOMAIN b, NEW l \in DOMAIN b, k < l
      PROVE  Before(b[k], b[l])
  <2>1. k \in DOMAIN a
    BY <1>2, <1>7
  <2>2. CASE l \in DOMAIN a
    BY <2>1, <2>2, <1>2, <1>7 DEF InOrder
  <2>3. CASE l = Len(a) + 1
    BY <2>1, <2>3, <1>2, <1>4
  <2>4. QED
    BY <2>2, <2>3, <1>6
<1>8. ASSUME NEW i \in 0 .. LastN - 1, NEW k \in DOMAIN b, Filled(ring[c], i)
      PROVE  Before(ring[c].set[i], b[k])
  <2>1. CASE k \in DOMAIN a
    BY <2>1, <1>2, <1>8 DEF InOrder
  <2>2. CASE k = Len(a) + 1
    BY <2>2, <1>2, <1>5, <1>8
  <2>3. QED
    BY <2>1, <2>2, <1>6
<1>9. QED
  <2>1. RingShape(ring[c]) /\ RingOrdered(ring[c])
    BY DEF InOrder
  <2> HIDE DEF a, b
  <2>2. b = Append(air[c], p)
    BY DEF b
  <2>3. InOrder(ring[c], b)
    BY <2>1, <1>2, <1>7, <1>8 DEF InOrder
  <2>4. QED
    BY <2>2, <2>3

(* The sender sends a packet, which may be lost.                             *)
LEMMA LossSend ==
  ASSUME LossInv, NEW i \in DOMAIN Radios, SendOn(i)
  PROVE  LossInv'
<1> DEFINE c == Radios[i]
           p == [sn |-> sender.sn[c], start |-> starts]
<1>0. /\ c \in Channels /\ sender.pc = c /\ sender.pc \in Active /\ bound # {}
      /\ sender.sn[c] \in 1 .. MaxSn /\ starts \in Nat
      /\ DOMAIN sender = {"pc", "hours", "minutes", "seconds", "sn"}
      /\ DOMAIN sender.sn = Channels
  <2>1. c \in Channels
    BY Constants
  <2>2. sender.pc = c /\ sender.sn[c] <= MaxSn
    BY DEF SendOn
  <2>3. sender.pc \in Active
    BY <2>1, <2>2 DEF Active
  <2>4. Sender(sender, bound) /\ starts \in Nat
    BY DEF LossInv
  <2>5. sender.sn[c] \in Nat \ {0}
    BY <2>1, <2>4 DEF Sender
  <2>6. sender.sn[c] \in 1 .. MaxSn
    BY <2>2, <2>5, Constants
  <2>7. QED
    BY <2>1, <2>2, <2>3, <2>4, <2>6 DEF Sender
<1>1. UNCHANGED <<bound, starts, ring>>
  BY DEF SendOn
<1>2. \E pc \in Active \cup {"dead"} : sender' = [sender EXCEPT !.sn[c] = @ + 1, !.pc = pc]
  <2>1. (IF i < Len(Radios) THEN Radios[i + 1] ELSE "sleep") \in Active
    <3>1. i < Len(Radios) => i + 1 \in DOMAIN Radios
      BY Constants
    <3>2. QED
      BY <3>1, Constants DEF Active
  <2>2. QED
    BY <2>1 DEF SendOn
<1>3. air' = air \/ air' = [air EXCEPT ![c] = Append(@, p)]
  BY DEF SendOn
<1> HIDE DEF c
<1>4. /\ sender'.sn[c] = sender.sn[c] + 1
      /\ \A d \in Channels : d # c => sender'.sn[d] = sender.sn[d]
      /\ DOMAIN sender' = {"pc", "hours", "minutes", "seconds", "sn"}
      /\ DOMAIN sender'.sn = Channels
  BY <1>0, <1>2
<1>5. Sender(sender', bound')
  <2>1. ASSUME NEW d \in Channels
        PROVE  sender'.sn[d] \in Nat \ {0}
    <3>1. sender.sn[d] \in Nat \ {0} /\ sender.sn[c] \in Nat \ {0}
      BY <1>0 DEF LossInv, Sender
    <3>2. CASE d = c
      BY <3>1, <3>2, <1>4
    <3>3. CASE d # c
      BY <3>1, <3>3, <1>4
    <3>4. QED
      BY <3>2, <3>3
  <2>2. QED
    BY <2>1, <1>0, <1>1, <1>4 DEF Sender
<1>6. ASSUME NEW d \in Channels, NEW q, q.sn \in Nat, Issued(q, d, starts, bound, sender)
      PROVE  Issued(q, d, starts', bound', sender')
  <2>1. q.start = starts => q.sn < sender.sn[d]
    BY <1>0, <1>6 DEF Issued
  <2>2. sender.sn[d] \in Nat
    BY DEF LossInv, Sender
  <2>3. q.start = starts => q.sn < sender'.sn[d]
    BY <2>1, <2>2, <1>4, <1>6
  <2>4. QED
    BY <2>3, <1>0, <1>1, <1>6 DEF Issued
<1>7. Issued(p, c, starts', bound', sender')
  BY <1>0, <1>1, <1>4 DEF Issued
<1> HIDE DEF p
<1>8. ASSUME NEW d \in Channels
      PROVE  /\ air'[d] = air[d] \/ (d = c /\ air'[d] = Append(air[d], p))
             /\ InOrder(ring'[d], air'[d])
  <2>1. InOrder(ring[d], air[d]) /\ DOMAIN air = Channels
    BY DEF LossInv, Queued
  <2>2. air'[d] = air[d] \/ (d = c /\ air'[d] = Append(air[d], p))
    BY <2>1, <1>0, <1>3
  <2>3. CASE air'[d] = air[d]
    BY <2>1, <2>3, <1>1
  <2>4. CASE d = c /\ air'[d] = Append(air[d], p)
    <3>1. InOrder(ring[c], Append(air[c], p))
      BY <2>1, <2>4, <1>0, QueueGrows DEF p, LossInv
    <3>2. QED
      BY <3>1, <2>4, <1>1
  <2>5. QED
    BY <2>2, <2>3, <2>4
<1>9. Queued'
  <2>1. DOMAIN air' = Channels /\ DOMAIN ring' = Channels
    BY <1>1, <1>3 DEF LossInv, Queued
  <2>2. QED
    BY <2>1, <1>8 DEF Queued
<1>10. ASSUME NEW d \in Channels
       PROVE  /\ \A j \in 0 .. LastN - 1 : Filled(ring'[d], j)
                    => Issued(ring'[d].set[j], d, starts', bound', sender')
              /\ \A k \in DOMAIN air'[d] : Issued(air'[d][k], d, starts', bound', sender')
  <2>1. InOrder(ring[d], air[d]) /\ AllIssued(starts, bound, sender)
    BY DEF LossInv, Queued
  <2>2. ASSUME NEW j \in 0 .. LastN - 1, Filled(ring[d], j)
        PROVE  Issued(ring[d].set[j], d, starts', bound', sender')
    <3>1. Sound(ring[d].set[j])
      BY <2>1, <2>2 DEF InOrder, RingOrdered
    <3>2. ring[d].set[j].sn \in Nat
      BY <3>1, Constants DEF Sound
    <3>3. QED
      BY <3>2, <2>1, <2>2, <1>6 DEF AllIssued
  <2>3. ASSUME NEW k \in DOMAIN air[d]
        PROVE  Issued(air[d][k], d, starts', bound', sender')
    <3>1. air[d][k] \in PacketsOf
      BY <2>1 DEF InOrder
    <3>2. air[d][k].sn \in Nat
      BY <3>1, Constants DEF PacketsOf
    <3>3. QED
      BY <3>2, <2>1, <1>6 DEF AllIssued
  <2>4. ASSUME NEW k \in DOMAIN air'[d]
        PROVE  Issued(air'[d][k], d, starts', bound', sender')
    <3>1. CASE air'[d] = air[d]
      BY <3>1, <2>3
    <3>2. CASE d = c /\ air'[d] = Append(air[d], p)
      <4>1. air[d] \in Seq(PacketsOf)
        BY <2>1 DEF InOrder
      <4>2. \/ k \in DOMAIN air[d] /\ air'[d][k] = air[d][k]
            \/ air'[d][k] = p
        BY <4>1, <3>2
      <4>3. QED
        BY <4>2, <3>2, <2>3, <1>7
    <3>3. QED
      BY <3>1, <3>2, <1>8
  <2>5. QED
    BY <2>2, <2>4, <1>1
<1>11. AllIssued(starts, bound, sender)'
  BY <1>10 DEF AllIssued
<1>12. QED
  BY <1>0, <1>1, <1>5, <1>9, <1>11 DEF LossInv

Took(r, p) == [at |-> (r.at + 1) % LastN, wrapped |-> r.wrapped \/ r.at = LastN - 1,
               set |-> [r.set EXCEPT ![r.at] = p]]

(* It wraps when the last slot is taken.                                     *)
LEMMA TookWraps ==
  ASSUME NEW r, NEW p, NEW s, s = Took(r, p)
  PROVE  (s.wrapped <=> (r.wrapped \/ r.at = LastN - 1)) /\ s.wrapped \in BOOLEAN
BY DEF Took

(* The oldest packet makes room for the one that was longest on its way.     *)
LEMMA RingTakes ==
  ASSUME NEW r, NEW a, InOrder(r, a), a # <<>>, NEW s,
         s = Took(r, Head(a))
  PROVE  /\ InOrder(s, Tail(a))
         /\ \A i \in 0 .. LastN - 1 :
              Filled(s, i) => \/ i = r.at /\ s.set[i] = a[1]
                              \/ i # r.at /\ Filled(r, i) /\ s.set[i] = r.set[i]
<1>s. s = [at |-> (r.at + 1) % LastN, wrapped |-> r.wrapped \/ r.at = LastN - 1,
           set |-> [r.set EXCEPT ![r.at] = Head(a)]]
  BY DEF Took
<1>0. LastN \in Nat \ {0} /\ r.at \in 0 .. LastN - 1 /\ DOMAIN r.set = 0 .. LastN - 1
  BY Constants DEF InOrder, RingOrdered, RingShape
<1>1. /\ r.at + 1 < LastN => s.at = r.at + 1
      /\ r.at + 1 = LastN => s.at = 0
      /\ s.at \in 0 .. LastN - 1
  <2>1. r.at + 1 < LastN => (r.at + 1) % LastN = r.at + 1
    BY <1>0
  <2>2. LastN % LastN = 0
    BY <1>0
  <2>3. r.at + 1 < LastN \/ r.at + 1 = LastN
    BY <1>0
  <2>4. s.at = (r.at + 1) % LastN
    BY <1>s
  <2>5. CASE r.at + 1 < LastN
    BY <2>1, <2>4, <2>5, <1>0
  <2>6. CASE r.at + 1 = LastN
    BY <2>2, <2>4, <2>6, <1>0
  <2>7. QED
    BY <2>3, <2>5, <2>6
<1>w. (s.wrapped <=> (r.wrapped \/ r.at = LastN - 1)) /\ s.wrapped \in BOOLEAN
  BY TookWraps
<1>2. RingShape(s)
  <2>1. DOMAIN s = {"at", "wrapped", "set"} /\ DOMAIN s.set = 0 .. LastN - 1
    BY <1>0, <1>s
  <2>2. s.wrapped \in BOOLEAN
    BY <1>w
  <2>3. QED
    BY <2>1, <2>2 DEF RingShape
<1>3. s.wrapped <=> (r.wrapped \/ r.at = LastN - 1)
  BY <1>w
<1>4. /\ a \in Seq(PacketsOf) /\ Tail(a) \in Seq(PacketsOf)
      /\ DOMAIN a = 1 .. Len(a) /\ DOMAIN Tail(a) = 1 .. Len(a) - 1 /\ Len(a) \in Nat \ {0}
      /\ Head(a) = a[1] /\ 1 \in DOMAIN a
      /\ \A k \in DOMAIN Tail(a) : k + 1 \in DOMAIN a /\ Tail(a)[k] = a[k + 1]
  BY DEF InOrder
<1>5. /\ s.set[r.at] = a[1]
      /\ \A i \in 0 .. LastN - 1 : i # r.at => s.set[i] = r.set[i]
  BY <1>0, <1>4, <1>s
<1>6. \A i \in 0 .. LastN - 1 : Filled(s, i) <=> (i = r.at \/ Filled(r, i))
  <2>1. CASE r.at + 1 < LastN
    BY <2>1, <1>0, <1>1, <1>3 DEF Filled
  <2>2. CASE r.at + 1 = LastN
    BY <2>2, <1>0, <1>1, <1>3 DEF Filled
  <2>3. r.at + 1 < LastN \/ r.at + 1 = LastN
    BY <1>0
  <2>4. QED
    BY <2>1, <2>2, <2>3
<1>7. ASSUME NEW i \in 0 .. LastN - 1, NEW j \in 0 .. LastN - 1, Older(s, i, j)
      PROVE  /\ i # r.at
             /\ j # r.at => Older(r, i, j)
  <2>1. CASE r.at + 1 < LastN
    <3>1. s.at = r.at + 1
      BY <2>1, <1>1
    <3>2. (i >= r.at + 1 /\ j < r.at + 1) \/ (i < j /\ (i < r.at + 1 <=> j < r.at + 1))
      BY <3>1, <1>7 DEF Older
    <3>3. QED
      BY <3>2, <1>0 DEF Older
  <2>2. CASE r.at + 1 = LastN
    <3>1. s.at = 0
      BY <2>2, <1>1
    <3>2. i < j
      BY <3>1, <1>7 DEF Older
    <3>3. QED
      BY <3>2, <2>2, <1>0 DEF Older
  <2>3. QED
    BY <2>1, <2>2, <1>0
<1>8. Sound(a[1])
  <2>1. a[1] \in PacketsOf
    BY <1>4
  <2>2. QED
    BY <2>1 DEF Sound, PacketsOf
<1>9. ASSUME NEW i \in 0 .. LastN - 1, Filled(s, i)
      PROVE  \/ i = r.at /\ s.set[i] = a[1]
             \/ i # r.at /\ Filled(r, i) /\ s.set[i] = r.set[i]
  BY <1>5, <1>6, <1>9
<1>10. RingOrdered(s)
  <2>1. ASSUME NEW i \in 0 .. LastN - 1
        PROVE  (Filled(s, i) => Sound(s.set[i])) /\ (~Filled(s, i) => s.set[i].sn = -1)
    <3>1. CASE i = r.at
      BY <3>1, <1>5, <1>6, <1>8
    <3>2. CASE i # r.at
      BY <3>2, <1>5, <1>6 DEF InOrder, RingOrdered
    <3>3. QED
      BY <3>1, <3>2
  <2>2. ASSUME NEW i \in 0 .. LastN - 1, NEW j \in 0 .. LastN - 1,
               Filled(s, i), Filled(s, j), Older(s, i, j)
        PROVE  Before(s.set[i], s.set[j])
    <3>1. i # r.at /\ Filled(r, i) /\ s.set[i] = r.set[i]
      BY <2>2, <1>7, <1>9
    <3>2. CASE j = r.at
      <4>1. Before(r.set[i], a[1])
        BY <3>1, <1>4 DEF InOrder
      <4>2. QED
        BY <4>1, <3>1, <3>2, <1>5
    <3>3. CASE j # r.at
      <4>1. Filled(r, j) /\ s.set[j] = r.set[j] /\ Older(r, i, j)
        BY <3>3, <2>2, <1>7, <1>9
      <4>2. QED
        BY <4>1, <3>1 DEF InOrder, RingOrdered
    <3>4. QED
      BY <3>2, <3>3
  <2>3. QED
    BY <2>1, <2>2, <1>1 DEF RingOrdered
<1>11. ASSUME NEW k \in DOMAIN Tail(a), NEW l \in DOMAIN Tail(a), k < l
       PROVE  Before(Tail(a)[k], Tail(a)[l])
  <2>1. /\ k + 1 \in DOMAIN a /\ l + 1 \in DOMAIN a /\ k + 1 < l + 1
        /\ Tail(a)[k] = a[k + 1] /\ Tail(a)[l] = a[l + 1]
    BY <1>4, <1>11
  <2>2. QED
    BY <2>1 DEF InOrder
<1>12. ASSUME NEW i \in 0 .. LastN - 1, NEW k \in DOMAIN Tail(a), Filled(s, i)
       PROVE  Before(s.set[i], Tail(a)[k])
  <2>1. k + 1 \in DOMAIN a /\ 1 < k + 1 /\ Tail(a)[k] = a[k + 1]
    BY <1>4
  <2>2. CASE i = r.at
    <3>1. Before(a[1], a[k + 1])
      BY <2>1, <1>4 DEF InOrder
    <3>2. QED
      BY <3>1, <2>1, <2>2, <1>5
  <2>3. CASE i # r.at
    <3>1. Filled(r, i) /\ s.set[i] = r.set[i]
      BY <2>3, <1>9, <1>12
    <3>2. QED
      BY <3>1, <2>1 DEF InOrder
  <2>4. QED
    BY <2>2, <2>3
<1>13. InOrder(s, Tail(a))
  BY <1>2, <1>4, <1>10, <1>11, <1>12 DEF InOrder
<1>14. QED
  BY <1>9, <1>13

(* A packet comes.                                                           *)
LEMMA LossReceive ==
  ASSUME LossInv, NEW c \in Channels, Receive(c)
  PROVE  LossInv'
<1>1. UNCHANGED <<sender, bound, starts>> /\ air[c] # <<>>
  BY DEF Receive
<1>2. DOMAIN ring = Channels /\ DOMAIN air = Channels
  BY DEF LossInv, Queued
<1>3. /\ air'[c] = Tail(air[c])
      /\ ring'[c] = [at |-> (ring[c].at + 1) % LastN,
                     wrapped |-> ring[c].wrapped \/ ring[c].at = LastN - 1,
                     set |-> [ring[c].set EXCEPT ![ring[c].at] = Head(air[c])]]
  BY <1>2 DEF Receive
<1>4. /\ DOMAIN ring' = Channels /\ DOMAIN air' = Channels
      /\ \A d \in Channels : d # c => air'[d] = air[d] /\ ring'[d] = ring[d]
  BY <1>2 DEF Receive
<1>5. ASSUME NEW d \in Channels
      PROVE  InOrder(ring[d], air[d])
  BY DEF LossInv, Queued
<1>6. /\ InOrder(ring'[c], air'[c])
      /\ \A i \in 0 .. LastN - 1 :
           Filled(ring'[c], i)
             => \/ ring'[c].set[i] = air[c][1]
                \/ Filled(ring[c], i) /\ ring'[c].set[i] = ring[c].set[i]
  <2> DEFINE r == ring[c]
             a == air[c]
             s == ring'[c]
  <2>1. /\ InOrder(r, a) /\ a # <<>> /\ air'[c] = Tail(a)
        /\ s = Took(r, Head(a))
    BY <1>1, <1>3, <1>5 DEF Took
  <2> HIDE DEF r, a, s
  <2>2. /\ InOrder(s, Tail(a))
        /\ \A i \in 0 .. LastN - 1 :
             Filled(s, i) => \/ i = r.at /\ s.set[i] = a[1]
                             \/ i # r.at /\ Filled(r, i) /\ s.set[i] = r.set[i]
    BY <2>1, RingTakes
  <2>3. QED
    BY <2>1, <2>2 DEF r, a, s
<1>7. Queued'
  <2>1. \A d \in Channels : InOrder(ring'[d], air'[d])
    BY <1>4, <1>5, <1>6
  <2>2. QED
    BY <2>1, <1>4 DEF Queued
<1>8. ASSUME NEW d \in Channels
      PROVE  /\ \A i \in 0 .. LastN - 1 : Filled(ring'[d], i)
                    => Issued(ring'[d].set[i], d, starts, bound, sender)
             /\ \A k \in DOMAIN air'[d] : Issued(air'[d][k], d, starts, bound, sender)
  <2>0. AllIssued(starts, bound, sender)
    BY DEF LossInv
  <2>1. CASE d # c
    BY <2>0, <2>1, <1>4 DEF AllIssued
  <2>2. CASE d = c
    <3>1. air[c] \in Seq(PacketsOf)
      BY <1>5 DEF InOrder
    <3>2. 1 \in DOMAIN air[c]
      BY <3>1, <1>1
    <3>3. \A k \in DOMAIN air'[c] : k + 1 \in DOMAIN air[c] /\ air'[c][k] = air[c][k + 1]
      BY <3>1, <1>1, <1>3
    <3>4. \A i \in 0 .. LastN - 1 : Filled(ring'[c], i)
             => Issued(ring'[c].set[i], c, starts, bound, sender)
      BY <2>0, <3>2, <1>6 DEF AllIssued
    <3>5. \A k \in DOMAIN air'[c] : Issued(air'[c][k], c, starts, bound, sender)
      BY <2>0, <3>3 DEF AllIssued
    <3>6. QED
      BY <2>2, <3>4, <3>5
  <2>3. QED
    BY <2>1, <2>2
<1>9. AllIssued(starts, bound, sender)'
  BY <1>1, <1>8 DEF AllIssued
<1>10. QED
  BY <1>1, <1>7, <1>9 DEF LossInv

(* Every step keeps the order.                                               *)
LEMMA LossNext ==
  ASSUME LossInv, [TesterNext]_testerVars
  PROVE  LossInv'
<1>1. CASE Decode \/ Show \/ Reset
  BY <1>1, LossDecode
<1>2. CASE Send
  BY <1>2, LossOpen, LossRead, LossSend DEF Send
<1>3. CASE MenuS \/ MenuT \/ Restart
  BY <1>3, LossStop
<1>4. CASE \E c \in Channels : Receive(c)
  BY <1>4, LossReceive
<1>5. CASE UNCHANGED testerVars
  <2>1. UNCHANGED <<sender, bound, starts, air, ring>>
    BY <1>5 DEF testerVars
  <2>2. QED
    BY <2>1, LossKept DEF LossInv
<1>6. QED
  BY <1>1, <1>2, <1>3, <1>4, <1>5 DEF TesterNext

(* A ring whose packets have one start by the count of the property has one  *)
(* Two different values are a set of two.                                    *)
LEMMA PairOfTwo ==
  ASSUME NEW x, NEW y, x # y
  PROVE  Cardinality({x} \cup {y}) = 2 /\ IsFiniteSet({x} \cup {y})
<1>1. IsFiniteSet({x}) /\ Cardinality({x}) = 1
  BY FS_Singleton
<1>2. y \notin {x}
  OBVIOUS
<1>3. /\ IsFiniteSet({x} \cup {y})
      /\ Cardinality({x} \cup {y}) =
           IF y \in {x} THEN Cardinality({x}) ELSE Cardinality({x}) + 1
  BY <1>1, FS_AddElement
<1>4. Cardinality({x} \cup {y}) = Cardinality({x}) + 1
  BY <1>2, <1>3
<1>5. QED
  BY <1>1, <1>3, <1>4

(* by each two of them.                                                      *)
LEMMA StartsAgree ==
  ASSUME NEW r, RingOrdered(r),
         Cardinality({r.set[i].start : i \in {j \in 0 .. LastN - 1 : r.set[j].sn > 0}}) <= 1
  PROVE  OneStart(r)
<1> DEFINE D == {j \in 0 .. LastN - 1 : r.set[j].sn > 0}
           S == {r.set[i].start : i \in D}
           f == [i \in D |-> r.set[i].start]
<1>1. IsFiniteSet(D)
  <2>1. LastN - 1 \in Int
    BY Constants
  <2>2. IsFiniteSet(0 .. LastN - 1)
    BY <2>1, FS_Interval
  <2>3. D \in SUBSET (0 .. LastN - 1)
    OBVIOUS
  <2> HIDE DEF D
  <2>4. QED
    BY <2>2, <2>3, FS_Subset
<1>2. f \in Surjection(D, S)
  BY DEF Surjection
<1>3. IsFiniteSet(S)
  <2> HIDE DEF f, D, S
  <2>1. QED
    BY <1>1, <1>2, FS_Surjection
<1>4. ASSUME NEW x \in S, NEW y \in S, x # y
      PROVE  FALSE
  <2>2. Cardinality({x} \cup {y}) = 2 /\ IsFiniteSet({x} \cup {y})
    BY <1>4, PairOfTwo
  <2> HIDE DEF f, D, S
  <2>3. {x} \cup {y} \in SUBSET S
    OBVIOUS
  <2>4. Cardinality({x} \cup {y}) <= Cardinality(S) /\ Cardinality(S) \in Nat
    BY <2>3, <1>3, FS_Subset, FS_CardinalityType
  <2>5. Cardinality(S) <= 1
    BY DEF D, S
  <2>6. ASSUME NEW n \in Nat, n <= 1, 2 <= n
        PROVE  FALSE
    BY <2>6
  <2>7. 2 <= Cardinality(S)
    BY <2>2, <2>4
  <2>8. QED
    BY <2>4, <2>5, <2>6, <2>7
<1>5. ASSUME NEW i \in 0 .. LastN - 1, Filled(r, i)
      PROVE  r.set[i].start \in S
  <2>1. Sound(r.set[i])
    BY <1>5 DEF RingOrdered
  <2>2. r.set[i].sn > 0
    BY <2>1, Constants DEF Sound
  <2>3. QED
    BY <2>2
<1>6. QED
  BY <1>4, <1>5 DEF OneStart

(* The rate of losses that is shown never has more of them than there are:   *)
(* for a ring of any size, any numbers of packets, any losses on the way     *)
(* and any restarts of the sending program.                                  *)
THEOREM LossesAlwaysHonest == TesterSpec => []LossesHonest
<1>1. LossInv => LossesHonest
  <2> SUFFICES ASSUME LossInv, NEW c \in Channels,
                 Cardinality({ring[c].set[i].start : i \in InRing(c)}) <= 1
               PROVE  IF ring[c].wrapped \/ Cardinality(Lost(ring[c].set)) > LastN
                      THEN Losses(ring[c].set) <= Cardinality(Lost(ring[c].set))
                      ELSE Losses(ring[c].set) = Cardinality(Lost(ring[c].set))
    BY DEF LossesHonest, Lost, Numbers, InRing
  <2>1. RingOrdered(ring[c]) /\ ring[c].wrapped \in BOOLEAN
    BY DEF LossInv, Queued, InOrder, RingShape
  <2>2. OneStart(ring[c])
    BY <2>1, StartsAgree DEF InRing
  <2>3. QED
    BY <2>1, <2>2, RingHonest
<1>2. LossInv /\ [TesterNext]_testerVars => LossInv'
  BY LossNext
<1>3. QED
  BY <1>1, <1>2, LossInit, PTL DEF TesterSpec
=============================================================================
