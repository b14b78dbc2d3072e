---------------------------- MODULE EngineBuffer -----------------------------
(***************************************************************************)
(* The engine as an implementation of DurableBuffer: what is stored is     *)
(* what the column families on disk hold, what is delivered is what the    *)
(* Iceberg table holds.                                                    *)
(***************************************************************************)
EXTENDS Engine

Buffer == INSTANCE DurableBuffer WITH
            stored    <- OnDisk,
            delivered <- table,
            exempt    <- late \cup Malformed

(* Every step of the engine, through rotations, overlapping flushes, failed *)
(* and ambiguous commits, crashes and restarts, is to its clients a step of *)
(* the durable buffer or none: append_batch stores a record once, no commit *)
(* adds a record whose CF is gone, and drop_frozen_cf removes no record     *)
(* that is not in the table.                                                *)
ImplementsBuffer == Buffer!Spec
==============================================================================
