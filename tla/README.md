# A TLA+ model of the mIceWriter engine

The engine is a sidecar that takes records over gRPC, buffers them in RocksDB, and every few
minutes turns the buffer into Parquet files and commits these to an Iceberg table. This directory
models it in three parts: one engine with its buffer, ingest streams, flush pipeline, committer and
process, through crashes and restarts; the locks and threads of one engine; and several engines
that create and share a table, with their configurations, schema files and clients. TLC checks the
model on small instances; TLAPS proves every safety property that the passing runs check, for all
sizes. Paths below are relative to the repository (`src/…` is
its Rust source).

## The system

| Component | State | Operations | Interacts with |
|---|---|---|---|
| Buffer, `src/rocksdb_store.rs` | column families (CFs) with rows keyed by a counter; name of the active CF; byte counters and size limit; list of retained CFs | `new`, `append_batch`, `rotate`, `get_orphaned_cfs`, `retain_frozen_cf`, `iterate_cf`, `drop_frozen_cf` | called by all others from different threads; three `RwLock`s and atomics |
| gRPC front end, `src/grpc_server.rs` | one task per ingest stream; the `Notify` that wakes the flush loop | `ingest`, `flush_now`, `register_schema` | appends to the buffer, notifies the loop |
| Flush loop and `do_flush`, `src/flush_engine.rs` | local list of CFs; semaphore; a task per CF | wake up by timer, notification or shutdown; rotate; compile each CF; send to the committer | buffer, catalog, S3, committer's channel |
| Committer, `src/flush_engine.rs`, `src/iceberg_writer.rs` | channel of requests; batch; attempt | receive a batch, commit with retries, drop or retain its CFs | catalog, buffer |
| Process, `src/main.rs` | start, signal, drain, join, emergency flush, close, exit | starts and joins the tasks | all |
| Catalog bootstrap, `src/iceberg_writer.rs` | caches of known namespaces and tables | get or create the table | catalog, which other engines use too |
| Types and schemas, `src/field_type.rs`, `build.rs` | none | map type names to Rust, Arrow, Iceberg; `validate_register_schema` | build time, flush, RegisterSchema |
| Configuration, `src/config.rs` | constants | `from_env`, `load_field_defs` | all; `build_nessie_catalog` unwraps what it checked |
| Metrics, debug server, benchmark | counters | count, serve | none of the core reads what they write |

What is hard: appends copy the CF name and write under two different locks, so that a rotation
fits in between; flush cycles overlap, because the loop does not wait for the pipelines of the
last cycle; a commit may land although its answer is an error; a CF is dropped in a step of its
own after the commit; the process may die anywhere and the CFs on disk are all that is left; and
the shutdown must wait for tasks in an order that neither loses a record nor hangs. An iterator
keeps a lock while it uploads, and appends wait for that lock on the threads that drive uploads.
Several engines look for, create and commit to the same table without coordination. And a record
is decoded long after it was acknowledged, perhaps by another version of the engine.

What makes it correct:

* buffer: keys are never reused in a CF that has rows; the byte counters add up; a restart finds
  every CF;
* ingest: what is acknowledged is in the buffer or in the table, always;
* flush: a frozen CF has one owner; a failed flush gives it back; permits are returned;
* committer: a CF is dropped only when its records are in the table; duplicates need a fault;
* process: the shutdown ends, and leaves nothing behind; notifications are not lost;
* locks: every append returns; every CF that is frozen is compiled and dropped;
* catalog: a cache never claims what does not exist; an engine creates nothing twice; a retry is
  worth making;
* schemas: a registration that was accepted is honoured, by later versions of the engine too; what
  the configuration lets pass is enough to run.

## Modules

```
Environment          faults: which may happen, and how many
  RocksStore         rocksdb_store.rs
    GrpcServer       grpc_server.rs: ingest streams, FlushNow
    FlushEngine      flush_engine.rs, commit path of iceberg_writer.rs
      Engine         main.rs; composes both; properties and fairness
        EngineTotals   properties that sum over all CFs
        EngineBuffer   the engine implements DurableBuffer (INSTANCE)
          MCEngine       instances for TLC
        EngineProofs     types            (TLAPS)
          CustodyProofs    custody of CFs
            DurabilityProofs   keys, acknowledged records
              TotalsProofs       permits, bytes (with EngineTotals)
              BufferProofs       copies, the refinement (with EngineBuffer)
                ShutdownProofs     shutdown, forgotten CFs
  IcebergWriter      iceberg_writer.rs: get_or_create_table, commit_with_retry
    Fleet            several engines; with FieldType; config.rs, start of main.rs
      MCFleet          instances for TLC
      FleetProofs      catalog, retries, races, schemas  (TLAPS)
DurableBuffer        what a client is promised
FieldType            field_type.rs, build.rs, schema builders, validate_register_schema
StoreLocks           locks of rocksdb_store.rs and worker threads
  LocksProofs          places and permits                (TLAPS)
```

**RocksStore.** A CF is known by the timestamp in its name, the initial one by 0; `rows[c]` is a
set of pairs of a key and a record. Lists and channels of CF names are counts per name, as no code
depends on their order. `append_batch` is cut where other threads can see it: copy of the name
(`AppendStart`), key and write (`AppendWrite`), first `fetch_add` (`AppendCount`), second one and
return (`AppendReturn`); the lock of `db` is held from the write to the return. `rotate` is cut
between `create_cf` and the switch of the name, since the lock of `db` is free there, while that
of `active_cf` is not (`rotating`). Records have size 1. `ResetSizeLimit` keeps the saturating
arithmetic and the floor of the code. The clock names a new CF after all others, or, as the fault
`clock`, between them.

Two runs of statements that other threads could see between are one step: in `rotate` the swap of
`active_cf_bytes` and the insert into `frozen_cf_sizes` (lines 212-213), and in `drop_frozen_cf`
the drop, the removal of the size and the `fetch_sub` (274-277). No code reads two of these
together. In these windows `total_unflushed_bytes` is larger than the sum `BytesConserved` equates
it with, never smaller, so that what the property is for, that it does not wrap, holds in them too.

**GrpcServer.** A stream has a connection and a task; the connection may break while the task is
in an append. `acked` are the records whose positive `Ack` was delivered. Each record is sent
once, so that a copy in the table is the engine's doing. Messages that the handler rejects before
`append_batch` change no state and are left out.

**FlushEngine.** `flush_pc` is the place of `do_flush`, which the loop runs and, at the end,
`main`. The pipelines of a CF are counted by stage: `waiting` for a permit, `compiling` before the
iterator's snapshot, `encoded` after it. `data_files[c]` is what was compiled from CF `c`; `table`
counts the copies of each record. The committer batches all requests in the channel, and a failing
attempt may or may not have reached the table (`AttemptFails`). A pipeline gives its permit back at
the end of its blocking task and sends, or retains, a moment later (lines 205-233); this is one
step (`SendCommit`, `PipelineFail`), as the permit is of use to another pipeline only.

**Engine.** `main_pc` follows `main`. `Exit` and `Crash` forget the memory and keep the disk;
`Start` opens it again. `late` is a history variable: the records written to a CF after the
snapshot its data files come from. It changes no guard. The start of the process is one step:
the gRPC server listens a moment before the committer exists, and a catalog error at that point
ends the process, which is a `Crash` with connections open here.

An iterator keeps the read lock of `db` until it is done, which delays rotations and drops;
`Engine` has no such delay, so it has more interleavings than the code, not fewer.

**DurableBuffer** says what the engine is for, with five variables and five actions: records are
sent, stored once, acknowledged when safe, delivered together while stored, and released when
delivered. `EngineBuffer` maps `stored` to what the CFs on disk hold and `delivered` to the table.
A record may be released undelivered only if it is `exempt`: malformed, or written behind a
snapshot (see `stale_append`).

**StoreLocks** is about waiting only. An ingest stream is in no append, waits for the lock of
`active_cf`, for that of `db`, or writes. `cf[c]` follows a CF from `rotate`, which holds the one lock
while it waits for the other, through its task, which waits for a permit and then holds the lock of
`db` from the start of its scan to the end, uploads included, to the committer's batch and
`drop_frozen_cf`; then its name stands for a new CF. A worker
thread is taken by each append; whatever else needs one needs it free, an upload too: `block_on` on
a thread of the blocking pool waits for I/O that the workers drive. `Engine` keeps the data these
threads work on, `StoreLocks` the threads, and neither repeats the other.

**FieldType** has no state. A type is a JSON value with its nesting of lists and its base name.
`GenerateStruct` and `ParseType` read it like `build.rs`, `LoadFieldDefs` like `config.rs`,
`FieldDefsToArrowSchema` and `BuildIcebergSchema` through `MappedType`. What `ciborium`,
`serde_arrow` and `iceberg` make of a struct, a schema and a record is external: `Decodes`,
`Encodes` and `FitsTable` are the pairs that are sure to do, and either outcome is possible for the
others (such as a string for a date or a timestamp, which `serde_arrow` parses), except that a
record without a field that is not an `Option` never decodes. A type is `Usable` if `build.rs` reads
it as `field_type.rs` does.

**IcebergWriter** cuts `get_or_create_table` at every `await`; `call[e][w]` is where the call of
`do_flush` or of the committer stands in engine `e`. The catalog is external: it refuses to create
what exists, and a commit may be refused if the table has changed since it was loaded. The history
variable `races` counts creations that were refused, `retry[e].against` what happened during a
commit that may explain a failed attempt.

**Fleet** gives each engine a deployment: the schema file it was built with, and an environment
with the file it reads at start. Clients have a schema they registered and one they write. A batch
is the contents of one CF; its life within an engine is condensed to stages, as `Engine` has it in
detail. An engine may crash or exit and be started with another deployment on the same disk. The
server listens before `main` has built the catalog (`StartLoop`), so records may come first.

`PROJECT.json` maps every definition to the lines it stands for.

## Bounds

* `MaxCf`: the clock has that many names. A flush needs two free ones, so that the emergency flush
  always has one (`Room`); a start needs one; `Halted` ends a behaviour that has none. With 3, two
  cycles overlap and an emergency flush follows; with 4, a cycle, a retry and a restart fit.
* `MaxFaults`: one fault of any listed kind at any step; two where a restart must follow.
* `FlushEmpty`: whether the loop also flushes an empty buffer (it does in the code). FALSE in the
  runs `loss` and `delivery`, where it would only use up names; `store` and `shutdown` have it.
* `RestartAfterExit`: whether an orderly exit is followed by a start.
* `MaxAttempts`: 2 and 1 where the code has 5; the first and the last attempt are the only ones
  treated differently.
* Two records and two streams at most: every race of the code is between one append and one flush,
  or between two appends.
* `Tick`: the clock names CFs in steps of it. With 2, as in `store`, a clock that steps back has a
  name to give between two older ones; elsewhere it is 1.
* `StoreLocks`: `Cfs` bounds the CFs under way at once. With 3 CFs and 2 permits, two pipelines (or a
  pipeline and a drop) and a rotation are under way together, with two streams; the third worker is
  never in an append.
* `Fleet`: two engines, one table, `MaxBatches` batch per engine, one fault. Two engines are enough
  for every race at the catalog, which is between one that looks and one that creates. A flush of
  nothing is left out once the caches are filled: it would only load the table. The deployments are
  two versions of a file, the second with an optional field more, and one without `NESSIE_URI`; the
  clients declare an alias of the right type, a wrong type, and only the optional field. So a batch
  of the first version is found by the second, and either version finds the other's table.

## Runs

| Run | What is checked | Instance |
|---|---|---|
| `loss` | `AckedSafe`, `Custody`, `DuplicatesNeedFaults`, `NoCfForgotten`, `ImplementsBuffer` | 2 records, one malformed; 4 CFs; commits that fail or seem to, compile errors, crashes, power loss with sync writes, two of them at any steps; 3.2 million states |
| `store` | `TypeOK`, `BytesConserved`, `PermitsConserved`, `DuplicatesNeedFaults`, `NeverOverwrites` | 2 streams; clock steps, failed rotations, panics, failed drops, crashes, two of them at any steps, so that a frozen CF may become active again; restarts after exits; 3.6 million states |
| `shutdown` | `CleanExit`, `SendNeverFails`, `ShutdownCompletes`, `NotifyFlushes` | FlushNow allowed; a compile error, a failed write or a catalog error; 0.2 million states |
| `delivery` | `EventuallyCommitted` | 5 CFs, jittered limit; failed compile, failed or ambiguous last attempt, crash; 0.2 million states |
| `locks` | `LocksTypeOK`, `IngestGoesOn`, `FlushGoesOn` | 2 streams, 3 workers, 3 CFs, 2 permits; 28 thousand states |
| `fleet` | `FleetTypeOK`, `CacheSound`, `CommitterOnlyLoads`, `RacesBounded`, `RetriesAreOwed`, `AcceptedSurvives`, `StartSucceeds` | 2 engines, 3 deployments, 3 clients; a catalog, ambiguous, commit or compile error or a crash at any step; 0.7 million states |

Records are interchangeable in `store` and engines in `fleet`, which use symmetry; neither has a
liveness property.

What `locks` and `fleet` show:

* `locks`: as long as one worker is in no append, every append returns and every frozen CF is
  compiled and dropped. `rotate` and `drop_frozen_cf` must run on the blocking pool for that: on a
  worker either would stop the engine (these are the mutants).
* `fleet`, catalog: the committer never has anything to create, because `do_flush` fills the caches
  before a request exists. Two engines that start at once may each lose one creation of the
  namespace and one of the table, and then strand the CFs of that flush until a restart, without a
  fault; never more than that. A table that is loaded anew for each attempt makes every failed
  attempt the doing of a commit or a fault during the call.
* `fleet`, schemas: what RegisterSchema's yes is worth. A batch of an accepted client is never
  dropped undelivered, whatever fails and whichever versions of the engine come and go, as long as
  the client writes the required fields and the new file keeps the old fields and adds optional
  ones; over a table of the engine's own file it is compiled at once. Over an older table, which is
  never altered, it is kept, and whether it can be written is up to `iceberg`. `AcceptedSurvives`
  speaks of `Usable` types only: an alias (`int64`) or a list in a schema file is a plain string to
  `build.rs`, so that the values clients send for it do not decode. The client without a required
  field is accepted too; what becomes of its records is the run `evolution`.

Six runs show where the code departs from what its comments and the README say:

| Run | The code | What is said |
|---|---|---|
| `stale_append` | an append that copied the CF name before a rotation writes behind the snapshot; the record is acknowledged and dropped, without any fault | "durable local buffer" contract, `src/config.rs:48-50` |
| `read_error` | an iterator error is discarded, the rows read so far are committed and the CF is dropped | the same |
| `forgotten` | `do_flush` takes the retained CFs and returns early on a catalog error; nobody holds them until a restart. A failed rotation, a panic and a failed drop strand CFs the same way | "retried without needing a pod restart", `src/rocksdb_store.rs:30-34` |
| `evolution` | the engine has a new required field; a client of the older schema is accepted, its records are acknowledged, do not decode, and are dropped with a warning, without any fault | "AOT fields absent from the incoming schema are allowed … valid evolution", `src/grpc_server.rs:137` |
| `overwrite` | an iterator error at start counts as an empty CF and keys start again at 1 | "avoid overwriting un-flushed records", `src/rocksdb_store.rs:110` |
| `starvation` | as many streams as workers block in `append_batch` behind a writer that waits for an iterator whose upload has no thread left: the engine stands still | "Thread-safe RocksDB wrapper", `src/rocksdb_store.rs:15` |

`AckedSafe` leaves out late records and `loss` leaves out the faults of `forgotten` for this
reason: they are checked for everything else the code does.

## Fairness

Weak fairness of every task: the tokio runtime polls a task that is ready, and no lock of the
model is held for ever. Strong fairness of `Shutdown`: `select!` picks at random among the ready
branches, so a loop that sees the signal again and again takes it. Clients hang up once the engine
shuts down: `main` waits for them without a deadline, so a shutdown completes only if they do.
`shutdown` adds that a pending notification is taken, and no fairness of the timer, so that
`NotifyFlushes` is about the notification; `delivery` adds that the timer fires again and that a
process that died is started again. Nothing is assumed of clients' sending, of signals, or of
faults.

`locks` assumes that every thread runs, and strong fairness of those who wait for a read lock or a
permit: a reader that finds the lock free again and again gets it, as the lock is handed on when a
writer is done, and tokio's semaphore serves those who wait in order. That one worker is never in
an append is not assumed but a matter of the instance, three workers for two streams; `starvation`
has two for two. Neither the timer nor clients are fair.

`fleet` has no fairness: liveness of several engines (every batch settles, the table comes to
exist) was tried and is beyond TLC at this size, and that of one engine is in `delivery`.

## Proofs

All from the assumptions on the constants that the modules state (sizes and bounds are natural
numbers, `NoRecord` is no record, `MaxAttempts` is positive; zero permits are allowed).

* `EngineProofs!TypeCorrect`: `Spec => []TypeOK`. Inductive with `ValuesOK`, that a stream in an
  append has a record. No permit, request or pipeline count goes below zero.
* `CustodyProofs!CustodyCorrect`: `Spec => []Custody`. `Custody` needs three companions:
  `ListsInUse` (the local list of `do_flush` and the committer's batch are empty outside their
  steps, so that taking over a list adds nothing), `RotationOK` (the CF of a rotation under way
  exists and is not active) and `ProcessOK` (a process that is down holds nothing). Most steps only
  move names, which `CustodyMoves` covers; rotation, drop and start are done by hand.
* `DurabilityProofs!NeverOverwritesCorrect`: `Reliable` implies `Spec => NeverOverwrites`. The
  invariant `KeysInv`: the next key is above every key of each CF an append may still write to, the
  active one, the one being rotated in, and those whose names streams have copied; absent CFs are
  empty; with sync, no write is unsynced.
* `DurabilityProofs!AckedSafeCorrect`: `Reliable` implies `Spec => []AckedSafe`. The invariant
  `SafeInv` adds that a record a stream is about to acknowledge is safe already (`PendingSafe`),
  that the data files of a snapshotted CF hold what is in it except late and malformed records
  (`Covered`), and that while the committer drops CFs their files are in the table
  (`BatchInTable`). A drop is safe by the last two; that no other flush disturbs them is custody.
* `TotalsProofs!PermitsCorrect`: `Spec => []PermitsConserved`, inductive as it stands. A sum over the
  CFs is the cardinality of a set of units (`Total`), so that no induction is needed: `TotalUpdate`
  says how it follows the change of one term.
* `TotalsProofs!BytesCorrect`: for a finite set of streams, `Spec => []BytesConserved`. It needs
  `FrozenSizes` (only a CF that exists and is neither active nor being rotated in has bytes in
  `frozen_cf_sizes`) and custody: no CF with bytes is active again, and none is dropped twice.
* `BufferProofs!DuplicatesCorrect`: `Spec => []DuplicatesNeedFaults`, for all faults. `CopiesInv`: no
  two appends have the same record; a record that is not written yet is nowhere; a record has one
  source (the rows of a CF, or the files made of them); and a record that may be committed again has
  no more copies than there were faults, because what a commit has settled (`Settled`) is dropped
  next, unless a fault prevents that.
* `BufferProofs!ImplementsBufferCorrect`: `Reliable` implies `Spec => ImplementsBuffer`, by a lemma per
  kind of step (`RefineWrite`, `RefineReply`, `RefineCommit`, `RefineDrop`) and `RefineNext`. Beside
  the invariants above it needs `FilesInCf`: the files of a batch are of CFs still on disk when they
  reach the table, so a delivery adds only what is stored.
* `ShutdownProofs!SendNeverFailsCorrect`: `Spec => []SendNeverFails`, for all faults. `ShutdownInv` is
  what `main` has waited for at each point, and that an exited committer leaves nobody behind.
* `ShutdownProofs!NoCfForgottenCorrect`: if none of the kinds in `Forgetting` (`rotate`, `catalog`,
  `panic`, `drop`) can happen, `Spec => []NoCfForgotten`; with custody it is inductive. Each of the
  four is an error path that retains nothing; the run `forgotten` has one of them.
* `ShutdownProofs!CleanExitCorrect`: `Spec => []CleanExit`. `ExitInv`: until the first fault the CF
  that replaces the last one holds nothing that was acknowledged, nothing is retained after the
  emergency flush began, and every other CF is on its way. No kind of fault is excluded: the
  invariants that need `Reliable` are used only up to the first one (`Noticed` is what they ask of a
  single step).
* `LocksProofs!LocksTypeCorrect`: `Spec => []LocksTypeOK`, for any number of streams, CFs, permits and
  workers. The part that needs the steps is the bound on the pipelines that compile: `CompileStart`
  is the only one to add to them and looks at the permits first (`PermitTaken`), all others keep or
  lower their number (`PermitsKept`).
* `FleetProofs`, for any number of engines, batches, deployments and clients, and all faults:
  `FleetTypeCorrect`, `CacheSoundCorrect`, `CommitterOnlyLoadsCorrect`, `RacesBoundedCorrect`,
  `RetriesAreOwedCorrect`, `StartSucceedsCorrect` and `AcceptedSurvivesCorrect`. One inductive
  invariant, `FleetInv`, serves all of them:
  * `CatalogInv`: a table has a namespace; what is cached, or about to be loaded, exists; a call past
    the namespace knows it;
  * `CommitterInv`: where there is a pipeline or a call of the committer the caches are filled, as
    only a process that ends empties them, and that takes the pipelines with it;
  * `RetryInv`: each attempt but the one under way is owed to something that happened since, the one
    under way too once the table has moved;
  * `RacesInv`: lost races and races that can still be lost are two at most, since a creation can be
    lost only while the thing does not exist or by a call that saw it did not;
  * `ConfigInv` and `OriginInv`: an engine that runs, and one that took a batch, had a configuration;
  * `LeftOutInv`: a CF that goes to the committer without a file is of an engine that has run ever
    since it compiled it, and whose struct does not read the client's records.

  `AcceptedSurvives` rests on lemmas about the operators of `FieldType`: `AcceptedReads` for every
  declared type and `PromisedDecodes` for whole records, which with `LeftOutInv` exclude the drop;
  `FileFitsTable` for every file and `UsableEncodes` for every usable type, which give the files. The
  types a client declares must be known to `from_str`: two unknown ones count as equal, so that a
  client is accepted whose values nobody has specified (see below).

`Reliable` excludes the two iterator errors of the runs `read_error` and `overwrite`, and power
loss without sync writes; all other faults are allowed, in any number.

Only model-checked: liveness under fairness (`ShutdownCompletes`, `NotifyFlushes`,
`EventuallyCommitted`, `IngestGoesOn`, `FlushGoesOn`), which is beyond the prover, and the six
violations, which are single behaviours.

## Facts met on the way

Seen while modelling, with no run of their own:

* No code reads `max_retained_frozen_cfs`, though the README has "Reject ingest with backpressure
  error once this many frozen CFs are pending flush" for `MAX_RETAINED_FROZEN_CFS`
  (`README.md:52`).
* A table that exists is never altered: an engine whose file has a new field writes batches with a
  column the table does not have. If the writer refuses them their CFs are retained for ever.
* A field type unknown to `MappedType` equals any other unknown one in `validate_register_schema`.
* `compile_cf_pipeline` decodes `TelemetryEvents` whatever `MICEWRITER_TABLE` says.
* `ingest` does not ask whether a client has registered.
* Any `CATALOG_TYPE` but `glue` is Nessie.
* `CONCURRENT_CF_FLUSHES=0` passes, though the message says "must be a positive integer"
  (`src/config.rs:181`); no pipeline ever gets a permit. In `Fleet` it is a guard of `Compile`.
* `WRITE_BUFFER_SIZE` must parse and is then overwritten (`src/config.rs:205`).

## Not modelled

Parquet encoding and rolling files (one step that succeeds or fails), delays and back-off
including `jittered_interval` (a choice of the scheduler), values of numeric settings other than
the permits, metrics and debug server, benchmark, deployment. RocksDB's and Iceberg's own
guarantees are taken as given: a write batch is atomic, an iterator reads a snapshot, a commit
adds all its files or none, a catalog refuses to create what exists.

What is left has no control of its own to check: the metrics are counters that nothing reads, the
debug server and the benchmark do not touch the engine's state, and the encoding is library code.

## Plan

Everything that carries state is modelled, and every safety property of a passing run is proved.
What remains:

1. `AckedSafe` and `NeverOverwrites` up to the first failure that the code ignores, instead of where
   such failures are excluded (as `CleanExit` has it now).
2. That a frozen CF is forgotten only after one of the four failures in `Forgetting`, and at most one
   cycle's CFs for each.
3. For the locks, a measure that decreases with every step of those who are waited for: the safety
   half of `IngestGoesOn`.
