---------------------------- MODULE MCSifDriver ----------------------------
(* SifDriver with a few frames, packets and writers.                        *)
EXTENDS SifDriver
=============================================================================
