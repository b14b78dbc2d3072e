------------------------------ MODULE MCEngine -------------------------------
(* Small instances of Engine for TLC.                                       *)
EXTENDS EngineTotals, EngineBuffer, TLC

RecordSymmetry == Permutations(Records)
==============================================================================
