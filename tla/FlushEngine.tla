----------------------------- MODULE FlushEngine -----------------------------
(***************************************************************************)
(* flush_engine.rs and the commit path of iceberg_writer.rs: the flush     *)
(* loop, do_flush, the compile pipelines and the committer.                *)
(*                                                                         *)
(* do_flush is run by the flush loop and, at shutdown, by main; flush_pc   *)
(* is where it stands.  A pipeline is known by its CF; "waiting",          *)
(* "compiling" and "encoded" count the pipelines of a CF before the        *)
(* semaphore, before and after the iterator's snapshot.  The Iceberg table *)
(* is the number of copies of each record in it.                           *)
(***************************************************************************)
EXTENDS RocksStore

CONSTANTS Malformed,             \* the records whose CBOR does not parse
          ConcurrentCfFlushes,   \* permits of the flush semaphore
          MaxAttempts            \* attempts of commit_with_retry, 5 in the code

ASSUME FlushAssumption ==
  /\ Malformed \subseteq Records
  /\ ConcurrentCfFlushes \in Nat
  /\ MaxAttempts \in Nat \ {0}

VARIABLES
  loop_pc,       \* the flush loop: "wait", "flushing" or "stopped"
  flush_pc,      \* do_flush: "idle", "rotate", "switch", "spawn" or "returned"
  cfs_to_flush,  \* its local list of CF names
  handles,       \* the pipelines whose JoinHandles it returned
  waiting, compiling, encoded,
  permits,       \* free permits of the semaphore
  data_files,    \* the records in the data files compiled from each CF
  commit_queue,  \* CommitRequests in the channel
  committer,     \* "recv", "commit", "drop" or "exited"
  batch,         \* cfs_to_drop of the committer
  attempt,       \* of commit_with_retry
  table          \* copies of each record in the Iceberg table

loopVars   == <<loop_pc, flush_pc, cfs_to_flush, handles>>
pipeVars   == <<waiting, compiling, encoded, permits, data_files>>
commitVars == <<committer, batch, attempt, table>>
flushVars  == <<loopVars, pipeVars, commit_queue, commitVars>>

(* The number of places that hold the name of CF c.                         *)
Held(c) == orphaned_cfs[c] + cfs_to_flush[c] + waiting[c] + compiling[c] + encoded[c]
           + commit_queue[c] + batch[c]

Pipelines(c) == waiting[c] + compiling[c] + encoded[c]

----------------------------------------------------------------------------
(* run_flush_loop and do_flush.                                             *)

(* do_flush starts by taking the retained CFs.                              *)
StartFlush ==
  /\ flush_pc = "idle"
  /\ flush_pc' = "rotate"
  /\ cfs_to_flush' = orphaned_cfs
  /\ TakeOrphanedCfs
  /\ NoFault
  /\ UNCHANGED <<handles, pipeVars, commit_queue, commitVars>>

(* The loop wakes up by its timer or by a notification.                     *)
WakeUp == loop_pc = "wait" /\ loop_pc' = "flushing" /\ StartFlush

(* It sees the shutdown signal, between two flushes only.                   *)
StopLoop ==
  /\ loop_pc = "wait"
  /\ loop_pc' = "stopped"
  /\ NoFault
  /\ UNCHANGED <<flush_pc, cfs_to_flush, handles, pipeVars, commit_queue, commitVars,
                 storeVars>>

(* The rotation, in a blocking task.                                        *)
FlushRotate ==
  /\ flush_pc = "rotate"
  /\ \E n \in CfName : RotateCreate(n)
  /\ flush_pc' = "switch"
  /\ UNCHANGED <<loop_pc, cfs_to_flush, handles, pipeVars, commit_queue, commitVars>>

FlushSwitch ==
  /\ flush_pc = "switch"
  /\ RotateSwitch
  /\ cfs_to_flush' = Add(cfs_to_flush, active_cf)
  /\ flush_pc' = "spawn"
  /\ NoFault
  /\ UNCHANGED <<loop_pc, handles, pipeVars, commit_queue, commitVars>>

(* An early return: create_cf, build_catalog or the write context failed.   *)
(* The local list goes with the call.                                       *)
FlushFail ==
  /\ \/ flush_pc = "rotate" /\ Fault("rotate")
     \/ flush_pc = "spawn" /\ Fault("catalog")
  /\ flush_pc' = "returned"
  /\ cfs_to_flush' = None
  /\ handles' = {}
  /\ UNCHANGED <<loop_pc, pipeVars, commit_queue, commitVars, storeVars>>

(* The catalog is there: one task per CF.                                   *)
FlushSpawn ==
  /\ flush_pc = "spawn"
  /\ waiting' = Join(waiting, cfs_to_flush)
  /\ handles' = {c \in CfName : cfs_to_flush[c] > 0}
  /\ cfs_to_flush' = None
  /\ flush_pc' = "returned"
  /\ NoFault
  /\ UNCHANGED <<loop_pc, compiling, encoded, permits, data_files, commit_queue, commitVars,
                 storeVars>>

(* The loop drops the handles of a flush it ran: its pipelines go on alone. *)
NextRound ==
  /\ loop_pc = "flushing" /\ flush_pc = "returned"
  /\ loop_pc' = "wait"
  /\ flush_pc' = "idle"
  /\ handles' = {}
  /\ NoFault
  /\ UNCHANGED <<cfs_to_flush, pipeVars, commit_queue, commitVars, storeVars>>

----------------------------------------------------------------------------
(* The pipeline of CF c.                                                    *)

(* mutant: the semaphore does not block *)
TakePermit(c) ==
  /\ waiting[c] > 0
  /\ permits' = permits - 1
  /\ waiting' = Remove(waiting, c)
  /\ compiling' = Add(compiling, c)
  /\ NoFault
  /\ UNCHANGED <<loopVars, encoded, data_files, commit_queue, commitVars, storeVars>>

AcquirePermit(c) ==
  /\ waiting[c] > 0 /\ permits > 0
  /\ permits' = permits - 1
  /\ waiting' = Remove(waiting, c)
  /\ compiling' = Add(compiling, c)
  /\ NoFault
  /\ UNCHANGED <<loopVars, encoded, data_files, commit_queue, commitVars, storeVars>>

(* The iterator reads the CF as it was when the iterator was made.  The     *)
(* rows from some key on are missing if the iterator fails: its error is    *)
(* not looked at.  A record that does not parse is left out.                *)
RowsRead(c, read) ==
  \/ NoFault /\ read = rows[c]
  \/ Fault("read") /\ \E stop \in rows[c] : read = {row \in rows[c] : row[1] < stop[1]}

Parsed(read) == {row[2] : row \in read} \ Malformed

Compile(c) ==
  /\ compiling[c] > 0
  /\ \E read \in SUBSET rows[c] :
       RowsRead(c, read) /\ data_files' = [data_files EXCEPT ![c] = Parsed(read)]
  /\ compiling' = Remove(compiling, c)
  /\ encoded' = Add(encoded, c)
  /\ UNCHANGED <<loopVars, waiting, permits, commit_queue, commitVars, storeVars>>

(* The compiled files are sent to the committer.                            *)
SendCommit(c) ==
  /\ encoded[c] > 0
  /\ encoded' = Remove(encoded, c)
  /\ permits' = permits + 1
  /\ commit_queue' = Add(commit_queue, c)
  /\ NoFault
  /\ UNCHANGED <<loopVars, waiting, compiling, data_files, commitVars, storeVars>>

(* The compile task ends without data files, before or after the snapshot.  *)
CompileAborts(c) ==
  \/ /\ compiling[c] > 0
     /\ compiling' = Remove(compiling, c)
     /\ UNCHANGED <<encoded, data_files>>
  \/ /\ encoded[c] > 0
     /\ encoded' = Remove(encoded, c)
     /\ data_files' = [data_files EXCEPT ![c] = {}]
     /\ UNCHANGED compiling

(* An error of the writer retains the CF; a panic returns from the task     *)
(* without it.                                                              *)
ForgetOnError(c) == UNCHANGED storeVars   \* mutant: the CF is not retained

RetainOnError(c) == RetainFrozenCfs(Of({c}))

LeakPermit == UNCHANGED permits   \* mutant: the permit is not part of the task

ReleasePermit == permits' = permits + 1

PipelineFail(c) ==
  /\ CompileAborts(c)
  /\ ReleasePermit
  /\ \/ Fault("compile") /\ RetainOnError(c)
     \/ Fault("panic") /\ UNCHANGED storeVars
  /\ UNCHANGED <<loopVars, waiting, commit_queue, commitVars>>

----------------------------------------------------------------------------
(* run_committer_loop and commit_with_retry.                                *)

(* All the requests in the channel make one batch.  A batch without data    *)
(* files needs no commit.                                                   *)
BatchRecords(v) == UNION {data_files[c] : c \in {d \in CfName : v[d] > 0}}

RecvBatch ==
  /\ committer = "recv"
  /\ commit_queue # None
  /\ batch' = commit_queue
  /\ commit_queue' = None
  /\ committer' = IF BatchRecords(commit_queue) = {} THEN "drop" ELSE "commit"
  /\ attempt' = 1
  /\ NoFault
  /\ UNCHANGED <<loopVars, pipeVars, table, storeVars>>

(* The files of the batch are added to the table; a batch that is done with.*)
WithFiles(v) ==
  [r \in Records |-> table[r] + Cardinality({c \in CfName : v[c] > 0 /\ r \in data_files[c]})]

EndBatch ==
  /\ committer' = "recv"
  /\ batch' = None
  /\ attempt' = 0
  /\ data_files' = [c \in CfName |-> IF batch[c] > 0 THEN {} ELSE data_files[c]]

(* mutant: the batch is retained after a commit that succeeded *)
CommitOkRetains ==
  /\ committer = "commit"
  /\ table' = WithFiles(batch)
  /\ RetainFrozenCfs(batch)
  /\ EndBatch
  /\ NoFault
  /\ UNCHANGED <<loopVars, waiting, compiling, encoded, permits, commit_queue>>

CommitOk ==
  /\ committer = "commit"
  /\ table' = WithFiles(batch)
  /\ committer' = "drop"
  /\ NoFault
  /\ UNCHANGED <<loopVars, pipeVars, commit_queue, batch, attempt, storeVars>>

(* An attempt fails, and may have reached the table all the same; there is  *)
(* another attempt.                                                         *)
AttemptFails == \/ Fault("commit") /\ UNCHANGED table
                \/ Fault("ambiguous") /\ table' = WithFiles(batch)

MayRetry == attempt < MaxAttempts

CommitRetry ==
  /\ committer = "commit"
  /\ MayRetry
  /\ AttemptFails
  /\ attempt' = attempt + 1
  /\ UNCHANGED <<loopVars, pipeVars, commit_queue, committer, batch, storeVars>>

(* mutant: fully_committed stays true *)
CommitFailDrops ==
  /\ committer = "commit"
  /\ \/ ~MayRetry /\ AttemptFails
     \/ Fault("commit") /\ UNCHANGED table
  /\ committer' = "drop"
  /\ UNCHANGED <<loopVars, pipeVars, commit_queue, batch, attempt, storeVars>>

(* The last attempt failed, or loading the table did: the CFs are retained. *)
CommitFail ==
  /\ committer = "commit"
  /\ \/ ~MayRetry /\ AttemptFails
     \/ Fault("commit") /\ UNCHANGED table
  /\ RetainFrozenCfs(batch)
  /\ EndBatch
  /\ UNCHANGED <<loopVars, waiting, compiling, encoded, permits, commit_queue>>

(* One CF of a committed batch is dropped.  The result of the drop is       *)
(* not looked at.                                                           *)
DropOne(c) ==
  /\ committer = "drop"
  /\ batch[c] > 0
  /\ \/ DropFrozenCf(c) /\ NoFault
     \/ (IF c \in cfs THEN Fault("drop") ELSE NoFault) /\ UNCHANGED storeVars
  /\ batch' = Remove(batch, c)
  /\ data_files' = [data_files EXCEPT ![c] = {}]
  /\ committer' = IF batch' = None THEN "recv" ELSE "drop"
  /\ attempt' = IF batch' = None THEN 0 ELSE attempt
  /\ UNCHANGED <<loopVars, waiting, compiling, encoded, permits, commit_queue, table>>

(* recv answers None: no request is left and every sender is gone, the      *)
(* clones of the loop and of the pipelines here, main's own in Engine.      *)
OnlyLoopGone == loop_pc = "stopped"   \* mutant: the pipelines' senders are forgotten

SendersGone == loop_pc = "stopped" /\ \A c \in CfName : Pipelines(c) = 0

CommitterExit ==
  /\ committer = "recv"
  /\ commit_queue = None
  /\ SendersGone
  /\ committer' = "exited"
  /\ NoFault
  /\ UNCHANGED <<loopVars, pipeVars, commit_queue, batch, attempt, table, storeVars>>

----------------------------------------------------------------------------
(* The tasks of a process that starts, and of one that has ended.           *)
ResetFlush(loop) ==
  /\ loop_pc' = loop
  /\ flush_pc' = "idle"
  /\ cfs_to_flush' = None
  /\ handles' = {}
  /\ waiting' = None /\ compiling' = None /\ encoded' = None
  /\ permits' = ConcurrentCfFlushes
  /\ data_files' = [c \in CfName |-> {}]
  /\ commit_queue' = None
  /\ committer' = "recv" /\ batch' = None /\ attempt' = 0
  /\ UNCHANGED table

FlushInit ==
  /\ loop_pc = "stopped" /\ flush_pc = "idle"
  /\ cfs_to_flush = None /\ handles = {}
  /\ waiting = None /\ compiling = None /\ encoded = None
  /\ permits = ConcurrentCfFlushes
  /\ data_files = [c \in CfName |-> {}]
  /\ commit_queue = None
  /\ committer = "recv" /\ batch = None /\ attempt = 0
  /\ table = [r \in Records |-> 0]

FlushTypeOK ==
  /\ loop_pc \in {"wait", "flushing", "stopped"}
  /\ flush_pc \in {"idle", "rotate", "switch", "spawn", "returned"}
  /\ handles \subseteq CfName
  /\ cfs_to_flush \in [CfName -> Nat]
  /\ waiting \in [CfName -> Nat]
  /\ compiling \in [CfName -> Nat]
  /\ encoded \in [CfName -> Nat]
  /\ permits \in Nat
  /\ data_files \in [CfName -> SUBSET Records]
  /\ commit_queue \in [CfName -> Nat]
  /\ committer \in {"recv", "commit", "drop", "exited"}
  /\ batch \in [CfName -> Nat]
  /\ attempt \in 0 .. MaxAttempts
  /\ table \in [Records -> Nat]
==============================================================================
