----------------------------- MODULE RadioModes -----------------------------
(***************************************************************************)
(* The settings of the driver (DriverSettings) and the way of a row of its   *)
(* tables through the SRAM to the radio (ConfigLoader).  The call that sends *)
(* a row waits in spidev_sync until Slave_Ctrl has stored all of it; the     *)
(* Main machine may be anywhere meanwhile.                                   *)
(***************************************************************************)
EXTENDS DriverSettings, ConfigLoader

VARIABLE done      \* the words of the row that are stored

modeVars == <<settingVars, loaderVars, done>>

ModesInit == SettingsInit /\ LoaderInit /\ done = 0

Ask == MayDisturb /\ SettingsNext /\ UNCHANGED <<loaderVars, done>>

Size == WordsOf(last.freq, last.row)

Shift ==
  /\ sending /\ done < Size /\ done' = Min({done + Burst, Size})
  /\ StoreWords(last.freq, last.row, done)
  /\ UNCHANGED settingVars

Shifted == sending /\ done = Size /\ done' = 0 /\ EndStore /\ Sent

Load == LoaderNext /\ UNCHANGED <<settingVars, done>>

ModesNext == Ask \/ Shift \/ Shifted \/ Load
ModesSpec == ModesInit /\ [][ModesNext]_modeVars

-----------------------------------------------------------------------------
(* The commands of a row up to the first of length 0, which ends it.         *)
Proper(lengths) ==
  LET ends == {k \in DOMAIN lengths : lengths[k] = 0}
  IN  IF ends = {} THEN Len(lengths) ELSE Min(ends) - 1
RowLoaded == mem[1].row
InRow == Proper(Table(RowLoaded[1])[RowLoaded[2]].lengths)

(* A Main machine that starts with a whole row and is not disturbed sends    *)
(* the commands of the row one by one, each whole and in the row's order,    *)
(* however their lengths fall on the words: odd ones shift all that follow   *)
(* by a byte (Wireless_Ctrl.v:1093-1151).                                    *)
CommandsInOrder ==
  clean => \A i \in 1 .. Min({Len(loaded), InRow}) :
             loaded[i] = <<RowLoaded[1], RowLoaded[2], i>>

(* It neither stops nor loses its way before all of them are sent, although  *)
(* config_count adds up the lengths of the wrong commands                    *)
(* (Wireless_Ctrl.v:1173-1181).                                              *)
RowSentWhole ==
  clean /\ main.pc \in {"stray", "done", "ready"} => Len(loaded) >= InRow

(* "Two bytes are the total length" (main.h:80): the Main machine reads no   *)
(* word beyond the total.                                                    *)
WithinTable ==
  clean /\ main.pc = "word" => rd < WordsOf(RowLoaded[1], RowLoaded[2])
=============================================================================
