---------------------------- MODULE MCRadioModes ----------------------------
(* RadioModes with the tables of main.h and a speed for each kind of row.    *)
EXTENDS RadioModes

SomeSpeeds == {50, 100, 1100}
=============================================================================
