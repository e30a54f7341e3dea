------------------------------ MODULE FifoPair ------------------------------
(***************************************************************************)
(* What SRAM_ctrl promises its two clients: two bounded queues.  SPI_slave  *)
(* (the CPU's side) appends to qi and takes from qo, Wireless_Ctrl (the     *)
(* radio's side) appends to qo and takes from qi.  A word taken is what the *)
(* client finds on its data lines; a new configuration empties both queues. *)
(***************************************************************************)
EXTENDS Integers, Sequences

CONSTANTS Word, SizeI, SizeO    \* SizeI and SizeO are positive

VARIABLES qi, qo, slaveData, masterData

fifoPairVars == <<qi, qo, slaveData, masterData>>

Init == /\ qi = <<>> /\ qo = <<>>
        /\ slaveData \in Word /\ masterData \in Word

SlavePut(w) == /\ Len(qi) < SizeI
               /\ qi' = Append(qi, w)
               /\ UNCHANGED <<qo, slaveData, masterData>>

MasterPut(w) == /\ Len(qo) < SizeO
                /\ qo' = Append(qo, w)
                /\ UNCHANGED <<qi, slaveData, masterData>>

SlaveTake == /\ qo # <<>>
             /\ slaveData' = Head(qo) /\ qo' = Tail(qo)
             /\ UNCHANGED <<qi, masterData>>

MasterTake == /\ qi # <<>>
              /\ masterData' = Head(qi) /\ qi' = Tail(qi)
              /\ UNCHANGED <<qo, slaveData>>

(* Configuration and command words reach the radio's side on the same       *)
(* lines; they leave the queues alone.                                      *)
MasterOther == masterData' \in Word /\ UNCHANGED <<qi, qo, slaveData>>

Clear == qi' = <<>> /\ qo' = <<>> /\ UNCHANGED <<slaveData, masterData>>

Next == \/ \E w \in Word : SlavePut(w) \/ MasterPut(w)
        \/ SlaveTake \/ MasterTake \/ MasterOther \/ Clear

Spec == Init /\ [][Next]_fifoPairVars
=============================================================================
