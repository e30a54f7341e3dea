----------------------------- MODULE ModeTables -----------------------------
(***************************************************************************)
(* fpga-si4463/kernel_module/main.h: the two tables of modes.  A row is two  *)
(* bytes of total length, then commands for the Si4463, each a byte of       *)
(* length and that many bytes.  A row is given here by its total and by the  *)
(* lengths of its commands; what the commands say is left out.  The 0 that   *)
(* ends most rows is written as a command of length 0.                       *)
(***************************************************************************)
EXTENDS Integers, Sequences

SIZE_OF_MODES == 10
DEFAULT_MODE  == 4
DEFAULT_FREQ  == 433

Row(total, lengths) == [total |-> total, lengths |-> lengths]
Empty == Row(0, <<>>)

(* The 56 commands of the patch, and the settings that follow it.           *)
Patch == [k \in 1 .. 56 |-> 8]
Settings(field) ==
  <<7, 8, 6, 5, 7, 8, 13, 9, field, 16, 16, 16, 13, 16, 5, 12, 13, 11, 5, 13,
    13, 5, 5, 5, 16, 16, 16, 8, 11, 16, 12>>

Row433_50   == Row(869, Patch \o Settings(11) \o <<0>>)
Row433_100  == Row(869, Patch \o Settings(11) \o <<0>>)
Row433_200  == Row(869, Patch \o Settings(11) \o <<0>>)
Row433_300  == Row(869, Patch \o Settings(11) \o <<0>>)
Row433_400  == Row(869, Patch \o Settings(11) \o <<0>>)
Row433_500  == Row(869, Patch \o Settings(11) \o <<0>>)
Row433_800  == Row(384, Settings(12) \o <<0>> \o <<5, 5, 5>>)
Row433_1000NoLengths ==          \* wrong: the total leaves the lengths out
  Row(349, Settings(12) \o <<0>> \o <<5, 5, 5>>)

Row433_1000 == Row(384, Settings(12) \o <<0>> \o <<5, 5, 5>>)
Row915_200  == Row(365, Settings(11) \o <<0>>)
Row915_400  == Row(365, Settings(11) \o <<0>>)

global_modes_array_433 ==
  [r \in 0 .. SIZE_OF_MODES |->
     CASE r = 0 -> Row433_50  [] r = 1 -> Row433_100 [] r = 2 -> Row433_200
       [] r = 3 -> Row433_300 [] r = 4 -> Row433_400 [] r = 5 -> Row433_500
       [] r = 8 -> Row433_800 [] r = 10 -> Row433_1000 [] OTHER -> Empty]

global_modes_array_915 ==
  [r \in 0 .. SIZE_OF_MODES |->
     CASE r = 2 -> Row915_200 [] r = 4 -> Row915_400 [] OTHER -> Empty]

Table(f)  == IF f = 433 THEN global_modes_array_433 ELSE global_modes_array_915
Filled(f) == {r \in 0 .. SIZE_OF_MODES : Table(f)[r] # Empty}
=============================================================================
