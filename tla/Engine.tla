------------------------------- MODULE Engine --------------------------------
(***************************************************************************)
(* The engine: main.rs with the components it starts, a process that may   *)
(* be stopped, killed and started again on the same disk.                  *)
(***************************************************************************)
EXTENDS GrpcServer, FlushEngine

CONSTANTS FlushEmpty,        \* bound: whether the loop also flushes when
                             \* nothing is buffered
          RestartAfterExit   \* bound: whether an orderly exit is followed
                             \* by another start

ASSUME EngineAssumption == FlushEmpty \in BOOLEAN /\ RestartAfterExit \in BOOLEAN

VARIABLES
  main_pc,   \* "down", "run", "drain", "join", "emergency", "close" or "exited"
  late       \* history: the records written to a CF after the iterator's
             \* snapshot that its data files were or will be made from

vars == <<storeVars, grpcVars, flushVars, faults, main_pc, late>>

Up == main_pc \notin {"down", "exited"}
ShuttingDown == Up /\ main_pc # "run"

(* Bound: the clock may name k more CFs.  One is kept for the emergency     *)
(* flush, so that a shutdown never waits for a name.                        *)
Room(k, floor) == Cardinality(Fresh(floor)) >= k

MayFlush == /\ Room(2, active_cf)
            /\ FlushEmpty \/ rows[active_cf] # {} \/ orphaned_cfs # None

----------------------------------------------------------------------------
(* main opens the store and starts the gRPC server, the committer and the   *)
(* flush loop.                                                              *)
Start ==
  /\ ~Up
  /\ main_pc = "exited" => RestartAfterExit
  /\ \E newest \in ListCf : \E max_id \in {0} \cup {row[1] : row \in rows[newest]} :
       Room(1, newest) /\ Open(newest, max_id)
  /\ ResetFlush("wait")
  /\ main_pc' = "run"
  /\ UNCHANGED <<grpcVars, late>>

Sigterm ==
  /\ main_pc = "run"
  /\ main_pc' = "drain"
  /\ NoFault
  /\ UNCHANGED <<storeVars, grpcVars, flushVars, late>>

(* mutant: main does not await the server *)
DrainedAtOnce ==
  /\ main_pc = "drain"
  /\ main_pc' = "join"
  /\ NoFault
  /\ UNCHANGED <<storeVars, grpcVars, flushVars, late>>

(* The server's task ends once every connection is closed.                  *)
Drained ==
  /\ main_pc = "drain"
  /\ conn = {}
  /\ main_pc' = "join"
  /\ NoFault
  /\ UNCHANGED <<storeVars, grpcVars, flushVars, late>>

(* The flush loop has ended: main flushes what is left.                     *)
EmergencyFlush ==
  /\ main_pc = "join"
  /\ loop_pc = "stopped"
  /\ StartFlush
  /\ main_pc' = "emergency"
  /\ UNCHANGED <<grpcVars, loop_pc, late>>

(* The pipelines of the emergency flush have ended: main drops its sender.  *)
HandlesJoined == \A c \in handles : Pipelines(c) = 0

CloseChannel ==
  /\ main_pc = "emergency"
  /\ flush_pc = "returned"
  /\ HandlesJoined
  /\ flush_pc' = "idle"
  /\ handles' = {}
  /\ main_pc' = "close"
  /\ NoFault
  /\ UNCHANGED <<storeVars, grpcVars, loop_pc, cfs_to_flush, pipeVars, commit_queue,
                 commitVars, late>>

(* main returns after the committer: the process ends.                      *)
Exit ==
  /\ main_pc = "close"
  /\ committer = "exited"
  /\ main_pc' = "exited"
  /\ ForgetStore /\ UNCHANGED diskVars
  /\ ForgetGrpc
  /\ ResetFlush("stopped")
  /\ NoFault
  /\ UNCHANGED late

Crash ==
  /\ Up
  /\ main_pc' = "down"
  /\ ForgetStore
  /\ \/ Fault("crash") /\ UNCHANGED diskVars
     \/ Fault("power") /\ \E lost \in SUBSET unsynced : LoseUnsynced(lost)
  /\ ForgetGrpc
  /\ ResetFlush("stopped")
  /\ UNCHANGED late

----------------------------------------------------------------------------
(* The steps of the components.                                             *)

(* A stopped server accepts no new stream or call.                          *)
Client ==
  /\ main_pc = "run"
  /\ FlushNow \/ \E s \in Streams : Connect(s)
  /\ UNCHANGED <<flushVars, main_pc, late>>

Hangup(s) ==
  /\ Disconnect(s)
  /\ UNCHANGED <<flushVars, main_pc, late>>

Message(s) ==
  /\ \E r \in Records : Ingest(s, r)
  /\ UNCHANGED <<flushVars, main_pc, late>>

IngestTask(s) ==
  /\ IngestAppend(s) \/ Reply(s)
  /\ UNCHANGED <<flushVars, main_pc, late>>

(* The write of append_batch, with the history of the late ones.            *)
Snapshotted(c) == encoded[c] + commit_queue[c] + batch[c] > 0

IngestTaskWrite(s) ==
  /\ IngestWrite(s)
  /\ late' = IF Snapshotted(cf_name[s]) THEN late \cup {value[s]} ELSE late
  /\ UNCHANGED <<flushVars, main_pc>>

Timer ==
  /\ Up
  /\ MayFlush
  /\ WakeUp
  /\ UNCHANGED <<grpcVars, main_pc, late>>

(* mutant: a notification is lost while a flush is under way *)
NotifiedOrLost ==
  /\ flush_trigger /\ flush_trigger' = FALSE
  /\ \/ MayFlush /\ WakeUp
     \/ loop_pc = "flushing" /\ UNCHANGED <<storeVars, flushVars, faults>>
  /\ UNCHANGED <<conn, sent, acked, main_pc, late>>

Notified ==
  /\ flush_trigger
  /\ MayFlush
  /\ WakeUp
  /\ flush_trigger' = FALSE
  /\ UNCHANGED <<conn, sent, acked, main_pc, late>>

Shutdown ==
  /\ ShuttingDown
  /\ StopLoop
  /\ UNCHANGED <<grpcVars, main_pc, late>>

Flush ==
  /\ FlushRotate \/ FlushSwitch \/ FlushFail \/ FlushSpawn \/ NextRound
  /\ UNCHANGED <<grpcVars, main_pc, late>>

Acquire(c) == AcquirePermit(c) /\ UNCHANGED <<grpcVars, main_pc, late>>

Pipeline(c) ==
  /\ Compile(c) \/ SendCommit(c) \/ PipelineFail(c)
  /\ UNCHANGED <<grpcVars, main_pc, late>>

Committer ==
  /\ \/ RecvBatch \/ CommitOk \/ CommitRetry \/ CommitFail
     \/ \E c \in CfName : DropOne(c)
  /\ UNCHANGED <<grpcVars, main_pc, late>>

CommitterEnds ==
  /\ main_pc = "close"
  /\ CommitterExit
  /\ UNCHANGED <<grpcVars, main_pc, late>>

(* Bound: no further start is modelled.                                     *)
Halted ==
  /\ ~Up
  /\ \/ main_pc = "exited" /\ ~RestartAfterExit
     \/ \E newest \in ListCf : (\A c \in ListCf : c <= newest) /\ ~Room(1, newest)
  /\ UNCHANGED vars

Init ==
  /\ StoreInit /\ GrpcInit /\ FlushInit
  /\ faults = 0
  /\ main_pc = "down"
  /\ late = {}

Next ==
  \/ Start \/ Sigterm \/ Drained \/ EmergencyFlush \/ CloseChannel \/ Exit \/ Crash
  \/ Client
  \/ \E s \in Streams : Hangup(s) \/ Message(s) \/ IngestTask(s) \/ IngestTaskWrite(s)
  \/ Timer \/ Notified \/ Shutdown \/ Flush
  \/ \E c \in CfName : Acquire(c) \/ Pipeline(c)
  \/ Committer \/ CommitterEnds
  \/ Halted

Spec == Init /\ [][Next]_vars

(* What the runtime guarantees: every task that can go on does.  Strong     *)
(* fairness stands for select!, which picks at random among the branches    *)
(* that are ready.                                                          *)
TaskFairness ==
  /\ WF_vars(Drained) /\ WF_vars(EmergencyFlush) /\ WF_vars(CloseChannel) /\ WF_vars(Exit)
  /\ \A s \in Streams : WF_vars(IngestTask(s) \/ IngestTaskWrite(s))
  /\ WF_vars(Flush) /\ SF_vars(Shutdown)
  /\ WF_vars(\E c \in CfName : Acquire(c) \/ Pipeline(c))
  /\ WF_vars(Committer \/ CommitterEnds)

(* Clients close their streams once the engine shuts down: main waits for   *)
(* them without a deadline.                                                 *)
HangupWhenStopped(s) == ShuttingDown /\ Hangup(s)

ClientFairness == \A s \in Streams : WF_vars(HangupWhenStopped(s))

(* A notification is answered without the help of the timer.                *)
ShutdownSpec == Spec /\ TaskFairness /\ ClientFairness /\ WF_vars(Notified)

StartAgain == main_pc = "down" /\ Start

(* The timer of the loop fires again and again, and a process that died is  *)
(* started again.                                                           *)
DeliverySpec == Spec /\ TaskFairness /\ ClientFairness /\ WF_vars(Timer) /\ WF_vars(StartAgain)

TypeOK ==
  /\ StoreTypeOK /\ GrpcTypeOK /\ FlushTypeOK
  /\ faults \in Nat
  /\ main_pc \in {"down", "run", "drain", "join", "emergency", "close", "exited"}
  /\ late \subseteq Records

----------------------------------------------------------------------------
(* A record that is neither malformed nor late is one the code promises to  *)
(* deliver.                                                                 *)
Deliverable(r) == r \notin Malformed /\ r \notin late

(* No record that was acknowledged, parses and was not written behind a     *)
(* snapshot is ever lost: it is in the Iceberg table or in a CF on disk,    *)
(* whatever append_batch, rotate, the pipelines, the committer and restarts *)
(* do in between.                                                           *)
AckedSafe == \A r \in acked : Deliverable(r) => table[r] > 0 \/ r \in OnDisk

(* The same for every record that parses: what "durable local buffer"       *)
(* (config.rs) promises of append_batch's acknowledgement.                  *)
AckedNeverLost == \A r \in acked \ Malformed : table[r] > 0 \/ r \in OnDisk

(* A frozen CF is in the hands of one flush at most, exists until that      *)
(* flush drops it, and is never the one that receives appends: do_flush,    *)
(* the pipelines and the committer pass its name on without copying it.     *)
Custody == \A c \in CfName :
             Held(c) <= 1 /\ (Held(c) = 1 => c \in cfs /\ c # active_cf /\ c # rotating)

(* While the engine runs, every frozen CF is retained or being flushed, so  *)
(* that no restart is needed to retry it (the comment of orphaned_cfs).     *)
NoCfForgotten == Up => \A c \in cfs \ {active_cf, rotating} : Held(c) > 0

(* Every extra copy of a record in the table is the work of a fault:        *)
(* without one, a record that is retried or flushed twice is never          *)
(* committed twice.                                                         *)
DuplicatesNeedFaults == \A r \in Records : table[r] <= 1 + faults

(* An orderly shutdown without a fault leaves no acknowledged record behind *)
(* on the local disk: the emergency flush and the committer have delivered  *)
(* them all, exactly once.                                                  *)
CleanExit ==
  main_pc = "exited" /\ faults = 0
    => \A r \in acked : Deliverable(r) => table[r] = 1 /\ r \notin OnDisk

(* When the committer has exited nobody is left to send to it, so the       *)
(* error branch of a pipeline's send is never taken.                        *)
SendNeverFails ==
  committer = "exited" => \A c \in CfName : Pipelines(c) = 0 /\ cfs_to_flush[c] = 0

(* Nothing waits for ever during a shutdown: main gets through the drain,   *)
(* the flush loop, the emergency flush and the committer.                   *)
ShutdownCompletes == main_pc = "drain" ~> ~Up

(* Every acknowledged record reaches the table, through failed commits,     *)
(* failed compilations and crashes, unless the engine is stopped before.    *)
EventuallyCommitted ==
  \A r \in Records : r \in acked /\ Deliverable(r) ~> table[r] > 0 \/ main_pc = "exited"

(* A notification, FlushNow's or that of a full CF, is never lost: what was *)
(* acknowledged before it is committed, even if a flush was under way (for  *)
(* as long as the model has a CF name for the flush that it causes).        *)
NotifyFlushes ==
  \A r \in Records :
    flush_trigger /\ r \in acked /\ Deliverable(r) /\ Room(2, active_cf) /\ flush_pc # "rotate"
      ~> table[r] > 0 \/ faults > 0 \/ ShuttingDown

(* No append, restart or rotation overwrites a row: the rows of a CF that   *)
(* still exists only grow.                                                  *)
NeverOverwrites ==
  [][\A c \in cfs \cap cfs' : rows[c] \subseteq rows'[c]]_vars
==============================================================================
