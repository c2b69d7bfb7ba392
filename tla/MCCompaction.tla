--------------------------- MODULE MCCompaction ---------------------------
(* Two keys, two contents; segments of one row, compacted into segments of *)
(* two once there are two of them.                                         *)
EXTENDS Compaction
=============================================================================
