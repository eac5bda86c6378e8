------------------------- MODULE MC_WriteDataBlocks -------------------------
(* Bounds for checking writeDataBlocks: up to three shard buffers of up   *)
(* to two bytes (six data bytes), offsets and lengths from -1 past the    *)
(* end of the data, so every argument check and every loop branch fires.  *)
EXTENDS WriteDataBlocks

MCOffsets == -1..4
MCLengths == {-1, 0, 1, 2, 3, 5}
=============================================================================
