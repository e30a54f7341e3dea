---------------------------- MODULE HostPrograms ----------------------------
(***************************************************************************)
(* The programs around the link: the tester (GpsTester), in the cars, and,   *)
(* at the desk, the parser of its logs (LogParser), the sketch that writes   *)
(* the flash of the FPGA (FlashProgrammer) and the importer of a map of      *)
(* roads (RoadMap); and the buffer pool (RingBuffer), a part on its own.     *)
(* They share no state, so a behaviour is one of one of them.                *)
(***************************************************************************)
EXTENDS GpsTester, LogParser, FlashProgrammer, RoadMap, RingBuffer

VARIABLE program    \* the one that runs

hostVars == <<program, testerVars, parserVars, flashVars, mapVars, poolVars>>

HostProgramsInit ==
  /\ program \in {"tester", "parser", "flash", "map", "pool"}
  /\ TesterInit /\ ParserInit /\ FlashInit /\ MapInit /\ PoolInit

HostProgramsNext ==
  /\ UNCHANGED program
  /\ \/ /\ program = "tester" /\ TesterNext
        /\ UNCHANGED <<parserVars, flashVars, mapVars, poolVars>>
     \/ /\ program = "parser" /\ ParserNext
        /\ UNCHANGED <<testerVars, flashVars, mapVars, poolVars>>
     \/ /\ program = "flash" /\ FlashNext
        /\ UNCHANGED <<testerVars, parserVars, mapVars, poolVars>>
     \/ /\ program = "map" /\ MapNext
        /\ UNCHANGED <<testerVars, parserVars, flashVars, poolVars>>
     \/ /\ program = "pool" /\ PoolNext
        /\ UNCHANGED <<testerVars, parserVars, flashVars, mapVars>>

HostProgramsSpec == HostProgramsInit /\ [][HostProgramsNext]_hostVars
=============================================================================
