----------------------------- MODULE Environment -----------------------------
(***************************************************************************)
(* What may go wrong around the engine.  Every failure of a disk, a        *)
(* catalog, an object store or the process itself that the code has an     *)
(* error path for is a "fault" of some kind.  A model chooses which kinds  *)
(* may happen (FaultKinds) and how many of them (MaxFaults, a bound).      *)
(***************************************************************************)
EXTENDS Naturals

CONSTANTS FaultKinds,   \* the kinds of fault that may happen
          MaxFaults     \* bound: how many faults a behaviour may contain

(* write      write_opt of a batch fails                  rocksdb_store.rs:174
   maxkey     the iterator that finds the last key fails  rocksdb_store.rs:115
   read       an iterator fails half way through a CF     rocksdb_store.rs:266
   rotate     create_cf fails                             rocksdb_store.rs:209
   clock      the wall clock that names CFs steps back    rocksdb_store.rs:195
   drop       drop_cf fails                               rocksdb_store.rs:274
   catalog    build_catalog or the write context fails    flush_engine.rs:158
   compile    the Parquet writer fails                    flush_engine.rs:231
   panic      the compile task panics                     flush_engine.rs:218
   commit     a catalog call of the committer fails       iceberg_writer.rs:180
   ambiguous  a commit lands but its answer is an error   iceberg_writer.rs:180
   crash      the process dies
   power      the machine dies with it                                      *)
AllFaultKinds == {"write", "maxkey", "read", "rotate", "clock", "drop", "catalog",
                  "compile", "panic", "commit", "ambiguous", "crash", "power"}

ASSUME FaultAssumption == FaultKinds \subseteq AllFaultKinds /\ MaxFaults \in Nat

VARIABLE faults   \* how many faults have happened

Fault(kind) == /\ kind \in FaultKinds
               /\ faults < MaxFaults
               /\ faults' = faults + 1

NoFault == UNCHANGED faults
==============================================================================
