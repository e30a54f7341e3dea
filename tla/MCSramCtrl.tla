----------------------------- MODULE MCSramCtrl -----------------------------
(* SRAM_ctrl on a small chip under arbitrary neighbours.              *)
EXTENDS SramFifo, FiniteSets

(* Only the first request of a set is looked at, so sets of at most two     *)
(* show every grant and every request a blocked one holds up.  The requests *)
(* that touch no FIFO come alone.                                           *)
UpToTwo(S) == {R \in SUBSET S : Cardinality(R) <= 2}

FifoRequests ==
  UpToTwo({slave_write, slave_read, master_write, master_read,
           config_write_done})
  \cup {{config_read}, {config_read_done}, {cmd_read}}
=============================================================================
