---------------------------- MODULE MCTotalLink ----------------------------
(* TotalLink on a small chip, with short packets and frames.                *)
EXTENDS TotalLink

AllBytes == 0 .. 255
AllWords == AllBytes \X AllBytes
AllRequests == SUBSET (1 .. 10)

(* An even and an odd number of bytes: the last word full and half full.    *)
ShortPackets == {<<21, 22>>, <<41, 42, 43>>}

(* The bytes of the frames are the CPU's own message codes.                 *)
ShortFrames == {<<119>>, <<102, 17>>, <<119, 18, 102>>}
ShortCommands == {<<17>>, <<18, 119, 102>>}
ShortConfigs == {<<18>>, <<2, 17, 102>>}
None == {}
=============================================================================
