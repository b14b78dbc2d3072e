----------------------------- MODULE StoreLocks ------------------------------
(***************************************************************************)
(* The locks of RocksStore and the threads that wait for them.             *)
(*                                                                         *)
(* append_batch blocks the worker thread of the runtime that polls its     *)
(* ingest task; rotate, drop_frozen_cf and compile_cf_pipeline run on      *)
(* threads of the blocking pool, of which there are always enough.  An     *)
(* upload makes progress only while some worker is free to drive I/O.  All *)
(* other code never blocks a worker: it is a step that needs a free one.   *)
(*                                                                         *)
(* A lock that is released in the statement that takes it is held for one  *)
(* step.  A std RwLock lets no reader in while a writer waits (Linux).     *)
(* Nothing fails here: failures are the subject of Engine.                 *)
(***************************************************************************)
EXTENDS Integers, FiniteSets

CONSTANTS Streams,     \* the ingest streams
          Cfs,         \* bound: the CFs under way at once; a dropped one is used again
          Permits,     \* concurrent_cf_flushes
          Workers      \* worker threads of the runtime

ASSUME LocksAssumption == Workers \in Nat \ {0} /\ Permits \in Nat /\ IsFiniteSet(Cfs)

VARIABLES
  ingest,     \* per stream: "idle", or in append_batch "active_cf", "db", "write"
  cf          \* per CF, how far its flush is: "none", in rotate "rotate" or "switch",
              \* "frozen"; its task "spawned", in compile_cf_pipeline "db", "scan",
              \* "upload", "tail", "close"; "queued" for the committer, in its
              \* "batch", and in drop_frozen_cf "drop"

lockVars == <<ingest, cf>>

At(places) == {c \in Cfs : cf[c] \in places}

Iterators == At({"scan", "upload", "tail"})
DbReaders == {s \in Streams : ingest[s] = "write"} \cup Iterators
DbWriterWaits == At({"rotate", "drop"}) # {}
DbReadable == ~DbWriterWaits
DbWritable == DbReaders = {}

(* rotate keeps the write lock of active_cf until it returns.               *)
ActiveCfHeld == At({"rotate", "switch"}) # {}

(* The pipelines that have a permit.                                        *)
Compiling == At({"db", "scan", "upload", "tail", "close"})

(* mutant: drop_frozen_cf is called on a worker *)
BlockedWithDrop == Cardinality({s \in Streams : ingest[s] # "idle"})
                     + Cardinality(At({"drop"}))

(* mutant: rotate is called on a worker *)
BlockedWithRotate == Cardinality({s \in Streams : ingest[s] # "idle"})
                       + Cardinality(At({"rotate", "switch"}))

(* The number of workers inside append_batch.                               *)
Blocked == Cardinality({s \in Streams : ingest[s] # "idle"})

WorkerFree == Blocked < Workers

Goto(c, from, to) == /\ cf[c] = from
                     /\ cf' = [cf EXCEPT ![c] = to]
                     /\ UNCHANGED ingest

----------------------------------------------------------------------------
(* append_batch: the name of the active CF is copied under its lock, then   *)
(* the lock of db is taken and kept until the return.                       *)
AppendCall(s) ==
  /\ ingest[s] = "idle" /\ WorkerFree
  /\ ingest' = [ingest EXCEPT ![s] = "active_cf"]
  /\ UNCHANGED cf

AppendStep(s) ==
  /\ \/ /\ ingest[s] = "active_cf" /\ ~ActiveCfHeld
        /\ ingest' = [ingest EXCEPT ![s] = "db"]
     \/ /\ ingest[s] = "db" /\ DbReadable
        /\ ingest' = [ingest EXCEPT ![s] = "write"]
     \/ /\ ingest[s] = "write"
        /\ ingest' = [ingest EXCEPT ![s] = "idle"]
  /\ UNCHANGED cf

----------------------------------------------------------------------------
(* The flush loop wakes up, if it is not in a flush, and has rotate run,    *)
(* which takes the lock of active_cf at once: others hold it only to copy   *)
(* the name.                                                                *)
LoopWakes(c) ==
  /\ At({"rotate", "switch", "frozen"}) = {} /\ WorkerFree
  /\ Goto(c, "none", "rotate")

(* create_cf under the lock of db, then the switch of the active CF.        *)
RotateStep(c) ==
  \/ DbWritable /\ Goto(c, "rotate", "switch")
  \/ Goto(c, "switch", "frozen")

(* The loop gets the frozen CF, makes a task for it and sleeps again.       *)
LoopSpawns(c) == WorkerFree /\ Goto(c, "frozen", "spawned")

----------------------------------------------------------------------------
(* mutant: the task does not wait for a permit *)
CompileUnpermitted(c) == WorkerFree /\ Goto(c, "spawned", "db")

(* The task gets a permit and opens its writer.                             *)
CompileStart(c) ==
  /\ Cardinality(Compiling) < Permits /\ WorkerFree
  /\ Goto(c, "spawned", "db")

(* iterate_cf holds the lock of db while the callback encodes events and    *)
(* waits for their upload; one upload stands for all of them.               *)
CompileStep(c) ==
  \/ DbReadable /\ Goto(c, "db", "scan")
  \/ Goto(c, "scan", "upload")
  \/ WorkerFree /\ Goto(c, "upload", "tail")
  \/ \E place \in {"scan", "tail"} : Goto(c, place, "close")

(* The last upload is made without the lock; the permit is given back and   *)
(* the files go to the committer.                                           *)
CompileClose(c) == WorkerFree /\ Goto(c, "close", "queued")

----------------------------------------------------------------------------
(* The committer commits all that is queued, then has drop_frozen_cf run    *)
(* for one CF after the other.                                              *)
Commit ==
  /\ At({"batch", "drop"}) = {} /\ At({"queued"}) # {} /\ WorkerFree
  /\ cf' = [c \in Cfs |-> IF cf[c] = "queued" THEN "batch" ELSE cf[c]]
  /\ UNCHANGED ingest

DropStart(c) == At({"drop"}) = {} /\ WorkerFree /\ Goto(c, "batch", "drop")

DropStep(c) == DbWritable /\ Goto(c, "drop", "none")

----------------------------------------------------------------------------
Init ==
  /\ ingest = [s \in Streams |-> "idle"]
  /\ cf = [c \in Cfs |-> "none"]

Next ==
  \/ \E s \in Streams : AppendCall(s) \/ AppendStep(s)
  \/ \E c \in Cfs : \/ LoopWakes(c) \/ RotateStep(c) \/ LoopSpawns(c)
                    \/ CompileStart(c) \/ CompileStep(c) \/ CompileClose(c)
                    \/ DropStart(c) \/ DropStep(c)
  \/ Commit

Spec == Init /\ [][Next]_lockVars

(* Every thread runs.  Whoever waits to read gets the lock of db if it is   *)
(* free again and again: strong fairness, as writers come in between.  The  *)
(* semaphore hands its permits on in order, so that a task that finds one   *)
(* free again and again gets it.  Clients and the timer may stop.           *)
Fairness ==
  /\ \A s \in Streams : SF_lockVars(AppendStep(s))
  /\ \A c \in Cfs : /\ WF_lockVars(\/ RotateStep(c) \/ LoopSpawns(c)
                                   \/ CompileClose(c) \/ DropStep(c))
                    /\ SF_lockVars(CompileStart(c) \/ CompileStep(c))
  /\ WF_lockVars(Commit) /\ WF_lockVars(\E c \in Cfs : DropStart(c))

LocksSpec == Spec /\ Fairness

LocksTypeOK ==
  /\ ingest \in [Streams -> {"idle", "active_cf", "db", "write"}]
  /\ cf \in [Cfs -> {"none", "rotate", "switch", "frozen", "spawned", "db", "scan", "upload",
                     "tail", "close", "queued", "batch", "drop"}]
  /\ Cardinality(Compiling) <= Permits

(* No append waits for ever: append_batch returns in spite of rotations,    *)
(* drops and iterators that keep the lock of db while they upload.          *)
IngestGoesOn == \A s \in Streams : ingest[s] # "idle" ~> ingest[s] = "idle"

(* No flush waits for ever: a CF that rotate has begun to freeze is         *)
(* compiled and dropped, however many appends, further rotations and other  *)
(* pipelines come in between (rotate, compile_cf_pipeline, drop_frozen_cf). *)
FlushGoesOn == \A c \in Cfs : cf[c] # "none" ~> cf[c] = "none"
==============================================================================
