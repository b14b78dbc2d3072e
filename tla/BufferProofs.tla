---------------------------- MODULE BufferProofs -----------------------------
(***************************************************************************)
(* The copies of a record: at most one in the table for each fault and one *)
(* more, and the engine is an implementation of DurableBuffer, for every   *)
(* value of the constants.                                                 *)
(***************************************************************************)
EXTENDS EngineBuffer, DurabilityProofs

----------------------------------------------------------------------------
(* Where the next commits may get a record from: the rows of a CF and the   *)
(* data files that were made of it.                                         *)
Source(c) == RecordsIn(c) \cup (IF Snapshotted(c) THEN data_files[c] ELSE {})

(* Two appends under way have different records, which were sent.           *)
SlotsOK ==
  \A s \in Streams : append_pc[s] # "idle" =>
    /\ value[s] \in sent
    /\ \A t \in Streams : t # s /\ append_pc[t] # "idle" => value[t] # value[s]

(* A record that is not written yet is in no source and not in the table.   *)
Unwritten(r) == r \notin sent \/ \E s \in Streams : append_pc[s] = "named" /\ value[s] = r

UnwrittenNowhere ==
  \A r \in Records : Unwritten(r) => table[r] = 0 /\ \A c \in CfName : r \notin Source(c)

(* A record has one source, however often its CF is flushed.                *)
OneSource == \A c, d \in CfName : \A r \in Source(c) \cap Source(d) : c = d

(* The committer has committed the CF, or found nothing in it to commit,    *)
(* and is about to drop it.                                                 *)
Settled(c) == committer = "drop" /\ batch[c] > 0

(* A record that may be committed again has no more copies than there were  *)
(* faults; one more copy is that of the commit that settled its CF.         *)
CopiesBelow ==
  \A r \in Records :
    /\ table[r] <= 1 + faults
    /\ \A c \in CfName : r \in Source(c) /\ ~Settled(c) => table[r] <= faults

CopiesInv == SlotsOK /\ UnwrittenNowhere /\ OneSource /\ CopiesBelow

LEMMA CopiesInit == Init => CopiesInv
<1> SUFFICES ASSUME Init PROVE CopiesInv
  OBVIOUS
<1>1. \A c \in CfName : Source(c) = {}
  BY DEF Init, StoreInit, FlushInit, Source, RecordsIn, Snapshotted, None
<1> QED
  BY <1>1 DEF Init, StoreInit, GrpcInit, FlushInit, CopiesInv, SlotsOK, UnwrittenNowhere, OneSource,
              CopiesBelow

(* A step that adds nothing to a source or to the table.                    *)
LEMMA CopiesShrink ==
  ASSUME TypeOK, TypeOK', CopiesInv, SlotsOK',
         \A r \in Records : Unwritten(r)' => Unwritten(r),
         \A c \in CfName : Source(c)' \subseteq Source(c),
         table' = table, faults' = faults \/ faults' = faults + 1,
         \A c \in CfName : Settled(c) /\ ~Settled(c)' => Source(c)' = {} \/ faults' = faults + 1
  PROVE  CopiesInv'
<1>1. UnwrittenNowhere'
  BY DEF CopiesInv, UnwrittenNowhere
<1>2. OneSource'
  BY DEF CopiesInv, OneSource
<1>3. CopiesBelow'
  <2> SUFFICES ASSUME NEW r \in Records
               PROVE  /\ table[r] <= 1 + faults'
                      /\ \A c \in CfName : r \in Source(c)' /\ ~Settled(c)' => table[r] <= faults'
    BY DEF CopiesBelow
  <2>1. table[r] \in Nat /\ faults \in Nat /\ table[r] <= 1 + faults
    BY DEF TypeOK, FlushTypeOK, CopiesInv, CopiesBelow
  <2>2. ASSUME NEW c \in CfName, r \in Source(c)', ~Settled(c)', faults' = faults
        PROVE  table[r] <= faults
    <3>1. r \in Source(c) /\ ~Settled(c)
      BY <2>1, <2>2
    <3> QED
      BY <3>1 DEF CopiesInv, CopiesBelow
  <2>3. CASE faults' = faults
    BY <2>1, <2>2, <2>3
  <2>4. CASE faults' = faults + 1
    BY <2>1, <2>4
  <2> QED
    BY <2>3, <2>4
<1> QED
  BY <1>1, <1>2, <1>3 DEF CopiesInv

(* What the sources and the append slots depend on.                         *)
LEMMA SourceKept ==
  ASSUME NEW c \in CfName, RecordsIn(c)' \subseteq RecordsIn(c),
         ~Snapshotted(c)' \/ (Snapshotted(c) /\ data_files'[c] \subseteq data_files[c])
  PROVE  Source(c)' \subseteq Source(c)
BY DEF Source

LEMMA SlotsUnchanged ==
  ASSUME SlotsOK, sent' = sent, UNCHANGED appendVars
  PROVE  SlotsOK' /\ \A r \in Records : Unwritten(r)' => Unwritten(r)
BY DEF SlotsOK, Unwritten, appendVars

(* The steps of an append but the write.                                    *)
LEMMA SlotsSteps ==
  ASSUME TypeOK, SlotsOK, NEW s \in Streams, Message(s) \/ IngestTask(s)
  PROVE  SlotsOK' /\ \A r \in Records : Unwritten(r)' => Unwritten(r)
<1>1. CASE Message(s)
  <2>1. PICK q \in Records : Ingest(s, q)
    BY <1>1 DEF Message
  <2> QED
    BY <2>1 DEF Ingest, AppendStart, SlotsOK, Unwritten, TypeOK, StoreTypeOK
<1>2. CASE IngestAppend(s)
  BY <1>2 DEF IngestAppend, AppendFail, AppendCount, AppendReturn, SlotsOK, Unwritten, TypeOK,
              StoreTypeOK, grpcVars
<1>3. CASE Reply(s)
  BY <1>3 DEF Reply, AppendForget, SlotsOK, Unwritten, TypeOK, StoreTypeOK
<1> QED
  BY <1>1, <1>2, <1>3 DEF IngestTask

(* The write gives its record its only source.                              *)
LEMMA CopiesWrite ==
  ASSUME TypeOK, ValuesOK, CopiesInv, NEW s \in Streams, IngestTaskWrite(s)
  PROVE  CopiesInv'
<1> DEFINE q == value[s]
<1>1. AppendWrite(s) /\ UNCHANGED <<flushVars, faults, grpcVars>> /\ append_pc[s] = "named"
  BY DEF IngestTaskWrite, IngestWrite, NoFault, AppendWrite
<1>2. PICK c \in CfName : c = cf_name[s]
  BY <1>1 DEF AppendWrite, TypeOK, StoreTypeOK
<1>3. q \in Records /\ Unwritten(q)
  BY <1>1 DEF ValuesOK, Unwritten
<1>4. \A d \in CfName : /\ d # c => Source(d)' = Source(d)
                        /\ Source(d)' \subseteq Source(d) \cup {q}
  BY <1>1, <1>2 DEF AppendWrite, Put, Source, RecordsIn, Snapshotted, TypeOK, StoreTypeOK,
                    flushVars, pipeVars, commitVars
<1>5. SlotsOK'
  BY <1>1 DEF AppendWrite, CopiesInv, SlotsOK, TypeOK, StoreTypeOK, grpcVars
<1>6. \A r \in Records : Unwritten(r)' => Unwritten(r) /\ r # q
  BY <1>1, <1>3 DEF AppendWrite, CopiesInv, SlotsOK, Unwritten, TypeOK, StoreTypeOK, grpcVars
<1>7. UNCHANGED <<table, committer, batch, faults>>
  BY <1>1 DEF flushVars, commitVars
<1>8. table[q] = 0 /\ \A d \in CfName : q \notin Source(d)
  BY <1>3 DEF CopiesInv, UnwrittenNowhere
<1>9. UnwrittenNowhere'
  BY <1>4, <1>6, <1>7 DEF CopiesInv, UnwrittenNowhere
<1>10. OneSource'
  BY <1>4, <1>8 DEF CopiesInv, OneSource
<1>11. CopiesBelow'
  BY <1>4, <1>7, <1>8 DEF CopiesInv, CopiesBelow, Settled, TypeOK
<1> QED
  BY <1>5, <1>9, <1>10, <1>11 DEF CopiesInv

(* A commit, whether it is answered or not, adds one copy of each record of *)
(* the batch: no record is in the data files of two CFs.                    *)
LEMMA CommitCounts ==
  ASSUME TypeOK, CopiesInv, NEW r \in Records
  PROVE  WithFiles(batch)[r] = IF r \in BatchRecords(batch) THEN table[r] + 1 ELSE table[r]
<1> DEFINE sources == {c \in CfName : batch[c] > 0 /\ r \in data_files[c]}
<1>1. WithFiles(batch)[r] = table[r] + Cardinality(sources) /\ table[r] \in Nat
  BY DEF WithFiles, TypeOK, FlushTypeOK
<1>2. \A c \in sources : c \in CfName /\ r \in Source(c)
  BY HeldType DEF Source, Snapshotted
<1>3. \A c, d \in sources : c = d
  BY <1>2 DEF CopiesInv, OneSource
<1>4. r \in BatchRecords(batch) <=> sources # {}
  BY DEF BatchRecords
<1> HIDE DEF sources
<1>5. CASE sources = {}
  BY <1>1, <1>4, <1>5, FS_EmptySet
<1>6. CASE sources # {}
  <2>1. PICK c : sources = {c}
    BY <1>3, <1>6
  <2>2. Cardinality(sources) = 1
    BY <2>1, FS_Singleton
  <2> QED
    BY <1>1, <1>4, <1>6, <2>2
<1> QED
  BY <1>5, <1>6

----------------------------------------------------------------------------
(* Every step counts at most one fault.                                     *)
LEMMA FaultStep == ASSUME [Next]_vars PROVE faults' = faults \/ faults' = faults + 1
<1>1. CASE Start
  BY <1>1 DEF Start, Open, LastKey, Fault, NoFault
<1>2. CASE Crash \/ Exit
  BY <1>2 DEF Crash, Exit, Fault, NoFault
<1>3. CASE \/ Sigterm \/ Drained \/ EmergencyFlush \/ CloseChannel \/ Client \/ Timer \/ Notified
           \/ Shutdown \/ Halted \/ UNCHANGED vars
           \/ \E s \in Streams : Hangup(s) \/ Message(s) \/ IngestTask(s) \/ IngestTaskWrite(s)
  BY <1>3 DEF Sigterm, Drained, EmergencyFlush, CloseChannel, Client, FlushNow, Connect, Timer,
              Notified, WakeUp, StartFlush, Shutdown, StopLoop, Halted, vars, Hangup, Disconnect,
              Message, Ingest, IngestTask, IngestAppend, AppendFail, Reply, IngestTaskWrite,
              IngestWrite, Fault, NoFault
<1>4. CASE Flush
  BY <1>4 DEF Flush, FlushRotate, RotateCreate, NewName, FlushSwitch, FlushFail, FlushSpawn,
              NextRound, Fault, NoFault
<1>5. CASE \E c \in CfName : Acquire(c) \/ Pipeline(c)
  BY <1>5 DEF Acquire, AcquirePermit, Pipeline, Compile, RowsRead, SendCommit, PipelineFail, Fault,
              NoFault
<1>6. CASE Committer \/ CommitterEnds
  BY <1>6 DEF Committer, CommitterEnds, RecvBatch, CommitOk, CommitRetry, CommitFail, AttemptFails,
              DropOne, CommitterExit, Fault, NoFault
<1> QED
  BY <1>1, <1>2, <1>3, <1>4, <1>5, <1>6 DEF Next

(* Data files are made by a compilation only; every other step passes them  *)
(* on or gives them up.                                                     *)
LEMMA FilesKept ==
  ASSUME TypeOK, TypeOK', CustodyInv, [Next]_vars, NEW d \in CfName, ~Compile(d), Snapshotted(d)'
  PROVE  Snapshotted(d) /\ data_files'[d] \subseteq data_files[d]
<1> DEFINE Goal == Snapshotted(d) /\ data_files'[d] \subseteq data_files[d]
<1>0. /\ encoded[d] \in Nat /\ commit_queue[d] \in Nat /\ batch[d] \in Nat
      /\ encoded'[d] \in Nat /\ commit_queue'[d] \in Nat /\ batch'[d] \in Nat
  BY HeldType, HeldTypeNext
<1>1. CASE UNCHANGED <<encoded, commit_queue, batch, data_files>>
  BY <1>1 DEF Snapshotted
<1>2. CASE Start \/ Exit \/ Crash
  BY <1>2 DEF Start, Exit, Crash, ResetFlush, Snapshotted, None
<1>3. CASE \/ Sigterm \/ Drained \/ EmergencyFlush \/ CloseChannel \/ Client \/ Timer \/ Notified
           \/ Shutdown \/ Flush \/ Halted \/ UNCHANGED vars \/ CommitOk \/ CommitRetry
           \/ CommitterExit
           \/ \E s \in Streams : Hangup(s) \/ Message(s) \/ IngestTask(s) \/ IngestTaskWrite(s)
           \/ \E c \in CfName : AcquirePermit(c)
  <2>1. UNCHANGED <<encoded, commit_queue, batch, data_files>>
    BY <1>3 DEF Sigterm, Drained, EmergencyFlush, CloseChannel, Client, Timer, Notified, WakeUp,
                StartFlush, Shutdown, StopLoop, Flush, FlushRotate, FlushSwitch, FlushFail,
                FlushSpawn, NextRound, Halted, vars, CommitOk, CommitRetry, CommitterExit, Hangup,
                Message, IngestTask, IngestTaskWrite, AcquirePermit, flushVars, pipeVars, commitVars
  <2> QED
    BY <1>1, <2>1
<1>4. ASSUME NEW c \in CfName, Compile(c) PROVE Goal
  BY <1>4 DEF Compile, Add, Snapshotted, TypeOK, FlushTypeOK, commitVars
<1>5. ASSUME NEW c \in CfName, SendCommit(c) PROVE Goal
  <2>1. data_files' = data_files /\ UNCHANGED batch
    BY <1>5 DEF SendCommit, commitVars
  <2>2. Snapshotted(d)
    BY <1>0, <1>5, <2>1 DEF SendCommit, Add, Remove, Snapshotted, TypeOK, FlushTypeOK
  <2> QED
    BY <2>1, <2>2
<1>6. ASSUME NEW c \in CfName, PipelineFail(c) PROVE Goal
  BY <1>0, <1>6 DEF PipelineFail, CompileAborts, Remove, Snapshotted, TypeOK, FlushTypeOK,
                    commitVars
<1>7. CASE RecvBatch
  BY <1>0, <1>7 DEF RecvBatch, Snapshotted, None, pipeVars
<1>8. CASE CommitFail
  BY <1>0, <1>8 DEF CommitFail, EndBatch, Snapshotted, None
<1>9. ASSUME NEW c \in CfName, DropOne(c) PROVE Goal
  BY <1>0, <1>9 DEF DropOne, Remove, Snapshotted, TypeOK, FlushTypeOK
<1> QED
  BY <1>2, <1>3, <1>4, <1>5, <1>6, <1>7, <1>8, <1>9
     DEF Next, Acquire, Pipeline, Committer, CommitterEnds

(* A step that changes neither the rows nor what is made of them.           *)
LEMMA CopiesQuiet ==
  ASSUME TypeOK, TypeOK', CopiesInv, [Next]_vars, SlotsOK',
         \A r \in Records : Unwritten(r)' => Unwritten(r),
         UNCHANGED <<rows, encoded, commit_queue, batch, data_files, table>>,
         committer' = committer \/ committer = "recv"
  PROVE  CopiesInv'
<1>1. \A c \in CfName : Source(c)' \subseteq Source(c)
  BY DEF Source, RecordsIn, Snapshotted
<1>2. \A c \in CfName : Settled(c) => Settled(c)'
  BY DEF Settled
<1> QED
  BY <1>1, <1>2, FaultStep, CopiesShrink

(* A process that starts or ends makes no copies.                           *)
LEMMA CopiesLife ==
  ASSUME TypeOK, TypeOK', CustodyInv, CopiesInv, [Next]_vars, Start \/ Exit \/ Crash
  PROVE  CopiesInv'
<1>1. SlotsOK' /\ \A r \in Records : Unwritten(r)' => Unwritten(r)
  <2>1. CASE Start
    BY <2>1, SlotsUnchanged DEF Start, Open, CopiesInv, grpcVars
  <2>2. CASE Exit \/ Crash
    BY <2>2 DEF Exit, Crash, ForgetStore, ForgetGrpc, SlotsOK, Unwritten
  <2> QED
    BY <2>1, <2>2
<1>2. table' = table /\ \A c \in CfName : ~Snapshotted(c)'
  BY DEF Start, Exit, Crash, ResetFlush, Snapshotted, None
<1>3. \A c \in CfName : rows'[c] \subseteq rows[c]
  BY DEF Start, Open, Exit, Crash, LoseUnsynced, diskVars
<1>4. \A c \in CfName : Source(c)' \subseteq Source(c)
  BY <1>2, <1>3 DEF Source, RecordsIn
<1>5. (\A c \in CfName : ~Settled(c)) \/ faults' = faults + 1
  BY DEF Start, Exit, Crash, Fault, CustodyInv, ProcessOK, Settled
<1> QED
  BY <1>1, <1>2, <1>4, <1>5, FaultStep, CopiesShrink

(* The pipelines read a source and pass it on.                              *)
LEMMA CopiesPipeline ==
  ASSUME TypeOK, TypeOK', CustodyInv, CopiesInv, [Next]_vars, NEW c \in CfName,
         AcquirePermit(c) \/ Compile(c) \/ SendCommit(c) \/ PipelineFail(c),
         UNCHANGED grpcVars
  PROVE  CopiesInv'
<1>1. SlotsOK' /\ \A r \in Records : Unwritten(r)' => Unwritten(r)
  BY StoreQuiet, SlotsUnchanged DEF CopiesInv, grpcVars
<1>2. rows' = rows /\ \A d \in CfName : RecordsIn(d)' = RecordsIn(d)
  BY StoreQuiet DEF RecordsIn, diskVars
<1>3. UNCHANGED <<batch, committer, table>>
  BY DEF AcquirePermit, Compile, SendCommit, PipelineFail, commitVars
<1>4. ASSUME NEW d \in CfName PROVE Source(d)' \subseteq Source(d)
  <2>1. CASE Compile(d)
    <3>1. PICK read \in SUBSET rows[d] : data_files' = [data_files EXCEPT ![d] = Parsed(read)]
      BY <2>1 DEF Compile
    <3>2. data_files'[d] \subseteq RecordsIn(d)
      BY <3>1 DEF Parsed, RecordsIn, TypeOK, FlushTypeOK
    <3> QED
      BY <1>2, <3>2 DEF Source
  <2> QED
    BY <1>2, <2>1, FilesKept, SourceKept
<1>5. \A d \in CfName : Settled(d) => Settled(d)'
  BY <1>3 DEF Settled
<1> QED
  BY <1>1, <1>3, <1>4, <1>5, FaultStep, CopiesShrink

(* A commit that adds the files of the batch to the table: it settles the   *)
(* CFs of the batch or is a fault.                                          *)
LEMMA CopiesCommit ==
  ASSUME TypeOK, TypeOK', CopiesInv, SlotsOK',
         \A r \in Records : Unwritten(r)' => Unwritten(r),
         \A c \in CfName : Source(c)' \subseteq Source(c),
         committer = "commit", table' = WithFiles(batch),
         \/ faults' = faults + 1
         \/ faults' = faults /\ \A c \in CfName : batch[c] > 0 => Settled(c)'
  PROVE  CopiesInv'
<1>1. ASSUME NEW r \in Records, r \in BatchRecords(batch)
      PROVE  \E c \in CfName : batch[c] > 0 /\ r \in Source(c)
  <2>1. PICK c \in CfName : batch[c] > 0 /\ r \in data_files[c]
    BY <1>1 DEF BatchRecords
  <2> QED
    BY <2>1, HeldType DEF Source, Snapshotted
<1>2. UnwrittenNowhere'
  BY <1>1, CommitCounts DEF CopiesInv, UnwrittenNowhere
<1>3. OneSource'
  BY DEF CopiesInv, OneSource
<1>4. CopiesBelow'
  <2> SUFFICES ASSUME NEW r \in Records
               PROVE  /\ table'[r] <= 1 + faults'
                      /\ \A c \in CfName : r \in Source(c)' /\ ~Settled(c)' => table'[r] <= faults'
    BY DEF CopiesBelow
  <2>1. table[r] \in Nat /\ faults \in Nat /\ table[r] <= 1 + faults
    BY DEF TypeOK, FlushTypeOK, CopiesInv, CopiesBelow
  <2>2. \A c \in CfName : r \in Source(c) => table[r] <= faults
    BY DEF CopiesInv, CopiesBelow, Settled
  <2>3. table'[r] = IF r \in BatchRecords(batch) THEN table[r] + 1 ELSE table[r]
    BY CommitCounts
  <2>4. r \in BatchRecords(batch) => table[r] <= faults
    BY <1>1, <2>2
  <2>5. table'[r] <= 1 + faults
    BY <2>1, <2>3, <2>4
  <2>6. CASE faults' = faults + 1
    <3>1. table'[r] <= faults'
      BY <2>5, <2>6, <2>1
    <3> QED
      BY <3>1, <2>1, <2>3, <2>6
  <2>7. CASE faults' = faults /\ \A c \in CfName : batch[c] > 0 => Settled(c)'
    <3>1. ASSUME NEW c \in CfName, r \in Source(c)', ~Settled(c)' PROVE table'[r] <= faults
      <4>1. r \in Source(c) /\ ~(batch[c] > 0)
        BY <3>1, <2>7
      <4>2. r \notin BatchRecords(batch)
        BY <4>1, <1>1 DEF CopiesInv, OneSource
      <4> QED
        BY <4>1, <4>2, <2>2, <2>3
    <3> QED
      BY <2>5, <2>7, <3>1
  <2> QED
    BY <2>6, <2>7
<1> QED
  BY <1>2, <1>3, <1>4 DEF CopiesInv

(* The committer.                                                           *)
LEMMA CopiesCommitter ==
  ASSUME TypeOK, TypeOK', CustodyInv, CopiesInv, [Next]_vars, UNCHANGED grpcVars,
         RecvBatch \/ CommitOk \/ CommitRetry \/ CommitFail \/ CommitterExit
  PROVE  CopiesInv'
<1>1. SlotsOK' /\ \A r \in Records : Unwritten(r)' => Unwritten(r)
  BY StoreQuiet, SlotsUnchanged DEF CopiesInv, grpcVars
<1>2. rows' = rows /\ \A d \in CfName : RecordsIn(d)' = RecordsIn(d)
  BY StoreQuiet DEF RecordsIn, diskVars
<1>3. ASSUME NEW d \in CfName PROVE Source(d)' \subseteq Source(d)
  <2>1. ~Compile(d)
    <3>1. encoded' = encoded /\ encoded \in [CfName -> Nat]
      BY DEF RecvBatch, CommitOk, CommitRetry, CommitFail, CommitterExit, pipeVars, TypeOK, FlushTypeOK
    <3> QED
      BY <3>1 DEF Compile, Add
  <2> QED
    BY <1>2, <2>1, FilesKept, SourceKept
<1>4. \A d \in CfName : ~Settled(d)
  BY DEF RecvBatch, CommitOk, CommitRetry, CommitFail, CommitterExit, Settled
<1>5. CASE table' = table
  BY <1>1, <1>3, <1>4, <1>5, FaultStep, CopiesShrink
<1>6. CASE CommitOk
  <2>1. \A c \in CfName : batch[c] > 0 => Settled(c)'
    BY <1>6 DEF CommitOk, Settled
  <2> QED
    BY <1>1, <1>3, <1>6, <2>1, CopiesCommit DEF CommitOk, NoFault
<1>7. CASE (CommitRetry \/ CommitFail) /\ table' # table
  BY <1>1, <1>3, <1>7, CopiesCommit DEF CommitRetry, CommitFail, AttemptFails, Fault
<1> QED
  BY <1>5, <1>6, <1>7 DEF RecvBatch, CommitterExit

(* A CF that was committed is dropped; when that fails, its next copies     *)
(* have this fault for their excuse.                                        *)
LEMMA CopiesDrop ==
  ASSUME TypeOK, TypeOK', CustodyInv, CopiesInv, [Next]_vars, UNCHANGED grpcVars,
         NEW c \in CfName, DropOne(c)
  PROVE  CopiesInv'
<1>0. UNCHANGED appendVars
  BY DEF DropOne, DropFrozenCf, storeVars
<1>1. SlotsOK' /\ \A r \in Records : Unwritten(r)' => Unwritten(r)
  BY <1>0, SlotsUnchanged DEF CopiesInv, grpcVars
<1>2. ASSUME NEW d \in CfName PROVE rows'[d] \subseteq rows[d]
  BY DEF DropOne, DropFrozenCf, storeVars, diskVars, TypeOK, StoreTypeOK
<1>3. ~Snapshotted(c)'
  <2>1. batch[c] > 0 /\ batch'[c] = batch[c] - 1 /\ UNCHANGED <<encoded, commit_queue>>
    BY DEF DropOne, Remove, TypeOK, FlushTypeOK
  <2> QED
    BY <2>1, SoleHolder DEF Snapshotted
<1>4. \A d \in CfName : d # c => /\ data_files'[d] = data_files[d]
                                 /\ UNCHANGED <<encoded, commit_queue, batch[d]>>
  BY DEF DropOne, Remove, TypeOK, FlushTypeOK
<1>5. ASSUME NEW d \in CfName PROVE Source(d)' \subseteq Source(d)
  <2>1. RecordsIn(d)' \subseteq RecordsIn(d)
    BY <1>2 DEF RecordsIn
  <2>2. CASE d # c
    BY <1>4, <2>1, <2>2, SourceKept DEF Snapshotted
  <2> QED
    BY <1>3, <2>1, <2>2, SourceKept
<1>6. c \in cfs
  BY HeldType DEF DropOne, CustodyInv, Custody, Held
<1>7. Source(c)' = {} \/ faults' = faults + 1
  <2>1. CASE DropFrozenCf(c)
    <3>1. rows'[c] = {}
      BY <2>1 DEF DropFrozenCf, TypeOK, StoreTypeOK
    <3> QED
      BY <1>3, <3>1 DEF Source, RecordsIn
  <2> QED
    BY <1>6, <2>1 DEF DropOne, Fault
<1>8. \A d \in CfName : d # c /\ Settled(d) => Settled(d)'
  <2> SUFFICES ASSUME NEW d \in CfName, d # c, batch[d] > 0 PROVE Settled(d)'
    BY DEF Settled
  <2>1. batch'[d] > 0
    BY <1>4
  <2>2. batch' # None
    BY <2>1 DEF None
  <2> QED
    BY <2>1, <2>2 DEF DropOne, Settled
<1> QED
  BY <1>1, <1>5, <1>7, <1>8, FaultStep, CopiesShrink DEF DropOne

LEMMA CopiesNext ==
  TypeOK /\ TypeOK' /\ ValuesOK /\ CustodyInv /\ CopiesInv /\ [Next]_vars => CopiesInv'
<1> SUFFICES ASSUME TypeOK, TypeOK', ValuesOK, CustodyInv, CopiesInv, [Next]_vars PROVE CopiesInv'
  OBVIOUS
<1>1. CASE Start \/ Exit \/ Crash
  BY <1>1, CopiesLife
<1>2. ASSUME NEW s \in Streams, Message(s) \/ IngestTask(s) PROVE CopiesInv'
  <2>1. UNCHANGED <<rows, flushVars>>
    BY <1>2 DEF Message, Ingest, AppendStart, IngestTask, IngestAppend, AppendFail, AppendCount,
                AppendReturn, Reply, AppendForget, diskVars
  <2> QED
    BY <1>2, <2>1, SlotsSteps, CopiesQuiet DEF CopiesInv, flushVars, pipeVars, commitVars
<1>3. ASSUME NEW s \in Streams, IngestTaskWrite(s) PROVE CopiesInv'
  BY <1>3, CopiesWrite
<1>4. CASE \/ Sigterm \/ Drained \/ CloseChannel \/ Client \/ Halted \/ UNCHANGED vars
           \/ \E s \in Streams : Hangup(s)
  <2>1. UNCHANGED <<rows, appendVars, sent, encoded, commit_queue, batch, data_files, table,
                    committer>>
    BY <1>4 DEF Sigterm, Drained, CloseChannel, Client, FlushNow, Connect, Hangup, Disconnect,
                Halted, vars, storeVars, diskVars, grpcVars, flushVars, pipeVars, commitVars
  <2> QED
    BY <2>1, SlotsUnchanged, CopiesQuiet DEF CopiesInv
<1>5. CASE EmergencyFlush \/ Timer \/ Notified \/ Shutdown \/ Flush
  <2>1. UNCHANGED <<rows, appendVars, sent, encoded, commit_queue, batch, data_files, table,
                    committer>>
    BY <1>5 DEF EmergencyFlush, Timer, Notified, WakeUp, StartFlush, TakeOrphanedCfs, Shutdown,
                StopLoop, Flush, FlushRotate, RotateCreate, FlushSwitch, RotateSwitch, FlushFail,
                FlushSpawn, NextRound, storeVars, diskVars, grpcVars, pipeVars, commitVars
  <2> QED
    BY <2>1, SlotsUnchanged, CopiesQuiet DEF CopiesInv
<1>6. ASSUME NEW c \in CfName, Acquire(c) \/ Pipeline(c) PROVE CopiesInv'
  BY <1>6, CopiesPipeline DEF Acquire, Pipeline
<1>7. CASE Committer \/ CommitterEnds
  BY <1>7, CopiesCommitter, CopiesDrop DEF Committer, CommitterEnds
<1> QED
  BY <1>1, <1>2, <1>3, <1>4, <1>5, <1>6, <1>7 DEF Next

(* A record is in the table at most once more than there were faults: the   *)
(* retries of commit_with_retry, the CFs retained by a failed commit and    *)
(* flushed again, and those found by a restart, commit nothing twice unless *)
(* an answer was lost, a drop failed or the process died in between.        *)
THEOREM DuplicatesCorrect == Spec => []DuplicatesNeedFaults
<1> DEFINE Inv == TypeOK /\ ValuesOK /\ CustodyInv /\ CopiesInv
<1>1. Init => Inv
  BY InitTypes, CustodyInit, CopiesInit
<1>2. Inv /\ [Next]_vars => Inv'
  BY NextTypes, CustodyNext, CopiesNext
<1>3. Inv => DuplicatesNeedFaults
  BY DEF CopiesInv, CopiesBelow, DuplicatesNeedFaults
<1> QED
  BY <1>1, <1>2, <1>3, PTL DEF Spec

----------------------------------------------------------------------------
(* The refinement of DurableBuffer.  What is in the data files of a CF is   *)
(* still in the CF: nothing is committed that the local disk has lost.      *)
FilesInCf == \A c \in CfName : Snapshotted(c) => data_files[c] \subseteq RecordsIn(c)

LEMMA FilesInit == Init => FilesInCf
BY DEF Init, FlushInit, FilesInCf, Snapshotted, None

LEMMA FilesNext ==
  ASSUME Noticed, TypeOK, TypeOK', CustodyInv, KeysInv, FilesInCf, [Next]_vars
  PROVE  FilesInCf'
<1> SUFFICES ASSUME NEW d \in CfName, Snapshotted(d)' PROVE data_files'[d] \subseteq RecordsIn(d)'
  BY DEF FilesInCf
<1>1. CASE Compile(d)
  <2>1. PICK read \in SUBSET rows[d] : data_files' = [data_files EXCEPT ![d] = Parsed(read)]
    BY <1>1 DEF Compile
  <2>2. rows' = rows
    BY <1>1, StoreQuiet DEF diskVars
  <2> QED
    BY <2>1, <2>2 DEF Parsed, RecordsIn, TypeOK, FlushTypeOK
<1>2. CASE ~Compile(d)
  <2>1. data_files'[d] \subseteq RecordsIn(d)
    BY <1>2, FilesKept DEF FilesInCf
  <2>2. ASSUME NEW s \in Streams, IngestTaskWrite(s), Up PROVE rows[d] \subseteq rows'[d]
    BY <2>2, WriteGrows DEF IngestTaskWrite, IngestWrite
  <2>3. ASSUME NEW c \in CfName, DropOne(c), DropFrozenCf(c) PROVE rows[d] \subseteq rows'[d]
    <3>1. d # c
      <4>1. batch[c] > 0 /\ batch'[c] = batch[c] - 1 /\ UNCHANGED <<encoded, commit_queue>>
        BY <2>3 DEF DropOne, Remove, TypeOK, FlushTypeOK
      <4> QED
        BY <4>1, SoleHolder DEF Snapshotted
    <3> QED
      BY <2>3, <3>1 DEF DropFrozenCf, TypeOK, StoreTypeOK
  <2>4. rows[d] \subseteq rows'[d]
    BY <2>2, <2>3, RowsStep
  <2> QED
    BY <2>1, <2>4 DEF RecordsIn
<1> QED
  BY <1>1, <1>2

(* The store changes what is on disk by a write and by a drop only.         *)
LEMMA DiskKept ==
  ASSUME TypeOK', KeysInv, rows' = rows, cfs \subseteq cfs'
  PROVE  OnDisk' = OnDisk
<1>1. \A c \in cfs' : RecordsIn(c)' = RecordsIn(c)
  BY DEF RecordsIn
<1>2. \A c \in cfs' \ cfs : RecordsIn(c) = {}
  BY DEF KeysInv, AbsentEmpty, RecordsIn, TypeOK, StoreTypeOK
<1> QED
  BY <1>1, <1>2 DEF OnDisk

LEMMA RefineWrite ==
  ASSUME TypeOK, ValuesOK, KeysInv, CopiesInv, Up, NEW s \in Streams, IngestTaskWrite(s)
  PROVE  value[s] \in Records /\ Buffer!Store(value[s])
<1> DEFINE q == value[s]
<1>1. AppendWrite(s) /\ UNCHANGED <<flushVars, grpcVars>> /\ append_pc[s] = "named"
  BY DEF IngestTaskWrite, IngestWrite, AppendWrite
<1>2. q \in Records /\ q \in sent /\ Unwritten(q)
  BY <1>1 DEF ValuesOK, CopiesInv, SlotsOK, Unwritten
<1>3. table[q] = 0 /\ \A c \in CfName : q \notin RecordsIn(c)
  BY <1>2 DEF CopiesInv, UnwrittenNowhere, Source
<1>4. q \notin OnDisk
  BY <1>3 DEF OnDisk, TypeOK, StoreTypeOK
<1>5. OnDisk' = OnDisk \cup {q}
  <2>1. PICK c \in cfs : c = cf_name[s]
    BY <1>1, WriteGrows
  <2>2. cfs' = cfs /\ cfs \subseteq CfName
    BY <1>1, WriteGrows DEF TypeOK, StoreTypeOK
  <2>3. RecordsIn(c)' = RecordsIn(c) \cup {q}
    <3>1. rows'[c] = rows[c] \cup {<<counter, q>>}
      BY <1>1, <2>1, WriteGrows
    <3>2. \A row \in {<<counter, q>>} : row[2] = q
      OBVIOUS
    <3> HIDE DEF q
    <3> QED
      BY <3>1, <3>2 DEF RecordsIn
  <2>4. \A d \in cfs : d # c => RecordsIn(d)' = RecordsIn(d)
    BY <1>1, <2>1, <2>2, WriteGrows DEF RecordsIn
  <2> QED
    BY <2>2, <2>3, <2>4 DEF OnDisk
<1>6. late' \in {late, late \cup {q}}
  BY DEF IngestTaskWrite
<1>7. UNCHANGED <<sent, acked, table>>
  BY <1>1 DEF grpcVars, flushVars, commitVars
<1> QED
  BY <1>2, <1>3, <1>4, <1>5, <1>6, <1>7 DEF Buffer!Store

LEMMA RefineReply ==
  ASSUME ValuesOK, SafeInv, CopiesInv, NEW s \in Streams, Reply(s), Acknowledges(s),
         OnDisk' = OnDisk, UNCHANGED <<table, late>>
  PROVE  value[s] \in Records /\ Buffer!Acknowledge(value[s])
<1>1. append_pc[s] \in {"done", "full"}
  BY DEF Acknowledges
<1>2. value[s] \in Records /\ value[s] \in sent
  BY <1>1 DEF ValuesOK, CopiesInv, SlotsOK
<1>3. Buffer!Safe(value[s])
  BY <1>1 DEF SafeInv, PendingSafe, Safe, Deliverable, Buffer!Safe
<1> QED
  BY <1>2, <1>3 DEF Reply, Buffer!Acknowledge

(* A commit delivers the records of the batch, all of them still on disk.   *)
LEMMA RefineCommit ==
  ASSUME TypeOK, CustodyInv, CopiesInv, FilesInCf, table' = WithFiles(batch),
         OnDisk' = OnDisk, UNCHANGED <<sent, acked, late>>
  PROVE  BatchRecords(batch) \in SUBSET Records /\ Buffer!Deliver(BatchRecords(batch))
<1>1. ASSUME NEW r \in BatchRecords(batch) PROVE r \in Records /\ r \in OnDisk
  <2>1. PICK c \in CfName : batch[c] > 0 /\ r \in data_files[c]
    BY DEF BatchRecords
  <2>2. c \in cfs
    <3>1. Held(c) > 0 /\ Held(c) \in Nat
      BY <2>1, HeldType DEF Held
    <3> QED
      BY <3>1 DEF CustodyInv, Custody
  <2>3. Snapshotted(c)
    BY <2>1, HeldType DEF Snapshotted
  <2> QED
    BY <2>1, <2>2, <2>3 DEF FilesInCf, OnDisk, TypeOK, FlushTypeOK
<1>2. table' = [r \in Records |-> IF r \in BatchRecords(batch) THEN table[r] + 1 ELSE table[r]]
  <2>1. table' = [r \in Records |-> WithFiles(batch)[r]]
    BY DEF WithFiles
  <2> QED
    BY <2>1, CommitCounts
<1> QED
  BY <1>1, <1>2 DEF Buffer!Deliver

(* A drop releases the records of its CF: no other CF has one of them, and  *)
(* each is in the table or exempt.                                          *)
LEMMA RefineDrop ==
  ASSUME TypeOK, CustodyInv, SafeInv, CopiesInv, NEW c \in CfName, DropOne(c), DropFrozenCf(c),
         UNCHANGED <<sent, acked, late>>
  PROVE  RecordsIn(c) \in SUBSET Records /\ Buffer!Release(RecordsIn(c))
<1>1. RecordsIn(c) \subseteq Records /\ cfs \subseteq CfName /\ c \in cfs
  BY DEF RecordsIn, TypeOK, StoreTypeOK, DropFrozenCf
<1>2. batch[c] > 0 /\ committer = "drop" /\ Snapshotted(c)
  BY HeldType DEF DropOne, Snapshotted
<1>3. \A r \in RecordsIn(c) : table[r] > 0 \/ r \in late \cup Malformed
  BY <1>2 DEF SafeInv, Covered, BatchInTable, Deliverable
<1>4. cfs' = cfs \ {c} /\ \A d \in cfs' : RecordsIn(d)' = RecordsIn(d)
  BY <1>1 DEF DropFrozenCf, RecordsIn, TypeOK, StoreTypeOK
<1>5. \A d \in cfs' : RecordsIn(d) \cap RecordsIn(c) = {}
  BY <1>1, <1>4 DEF CopiesInv, OneSource, Source
<1>6. OnDisk' = OnDisk \ RecordsIn(c)
  BY <1>1, <1>4, <1>5 DEF OnDisk
<1>7. RecordsIn(c) \subseteq OnDisk
  BY <1>1 DEF OnDisk
<1> QED
  BY <1>1, <1>3, <1>6, <1>7 DEF Buffer!Release, DropOne

(* Every step of the engine is a step of the buffer or none.                *)
LEMMA RefineNext ==
  ASSUME Noticed, TypeOK, TypeOK', ValuesOK, CustodyInv, KeysInv, SafeInv, CopiesInv, FilesInCf,
         [Next]_vars
  PROVE  [Buffer!Next]_(Buffer!bufferVars)
<1> DEFINE Goal == Buffer!Next \/ UNCHANGED Buffer!bufferVars
<1> SUFFICES Goal
  OBVIOUS
<1>0. CASE UNCHANGED <<sent, acked, table, late>> /\ OnDisk' = OnDisk
  BY <1>0 DEF Buffer!bufferVars
<1>1. ASSUME NEW s \in Streams, IngestTaskWrite(s) PROVE Goal
  BY <1>1, TasksUp, RefineWrite DEF Buffer!Next
<1>2. ASSUME NEW c \in CfName, DropOne(c), DropFrozenCf(c), UNCHANGED <<grpcVars, late>> PROVE Goal
  BY <1>2, RefineDrop DEF Buffer!Next, grpcVars
<1>3. ASSUME NEW s \in Streams, Message(s), OnDisk' = OnDisk PROVE Goal
  <2>1. PICK r \in Records : Ingest(s, r)
    BY <1>3 DEF Message
  <2>2. Buffer!Send(r)
    BY <1>3, <2>1 DEF Message, Ingest, Buffer!Send, flushVars, commitVars
  <2> QED
    BY <2>2 DEF Buffer!Next
<1>4. ASSUME NEW s \in Streams, IngestTask(s), OnDisk' = OnDisk PROVE Goal
  <2>1. UNCHANGED <<sent, table, late>>
    BY <1>4 DEF IngestTask, IngestAppend, Reply, grpcVars, flushVars, commitVars
  <2>2. CASE Reply(s) /\ Acknowledges(s)
    BY <1>4, <2>1, <2>2, RefineReply DEF Buffer!Next
  <2>3. CASE acked' = acked
    BY <1>0, <1>4, <2>1, <2>3
  <2> QED
    BY <1>4, <2>2, <2>3 DEF IngestTask, IngestAppend, Reply, grpcVars
<1>5. ASSUME Committer \/ CommitterEnds, OnDisk' = OnDisk PROVE Goal
  <2>1. UNCHANGED <<sent, acked, late>>
    BY <1>5 DEF Committer, CommitterEnds, grpcVars
  <2>2. CASE table' = WithFiles(batch)
    BY <1>5, <2>1, <2>2, RefineCommit DEF Buffer!Next
  <2>3. CASE table' = table
    BY <1>0, <1>5, <2>1, <2>3
  <2> QED
    BY <1>5, <2>2, <2>3 DEF Committer, CommitterEnds, RecvBatch, CommitOk, CommitRetry, CommitFail,
                            AttemptFails, DropOne, CommitterExit
<1>6. ASSUME \/ Start \/ Sigterm \/ Drained \/ EmergencyFlush \/ CloseChannel \/ Exit \/ Crash
             \/ Client \/ Timer \/ Notified \/ Shutdown \/ Flush \/ Halted \/ UNCHANGED vars
             \/ \E s \in Streams : Hangup(s)
             \/ \E c \in CfName : Acquire(c) \/ Pipeline(c),
             OnDisk' = OnDisk
      PROVE  Goal
  <2>1. UNCHANGED <<sent, acked, table, late>>
    BY <1>6 DEF Start, ResetFlush, Sigterm, Drained, EmergencyFlush, CloseChannel, Exit, Crash,
                ForgetGrpc, Client, FlushNow, Connect, Timer, Notified, WakeUp, StartFlush,
                Shutdown, StopLoop, Flush, FlushRotate, FlushSwitch, FlushFail, FlushSpawn, NextRound, Halted,
                vars, Hangup, Disconnect, Acquire, AcquirePermit, Pipeline, Compile, SendCommit,
                PipelineFail, grpcVars, flushVars, commitVars
  <2> QED
    BY <1>0, <1>6, <2>1
<1>7. ASSUME OnDisk' = OnDisk PROVE Goal
  BY <1>1, <1>3, <1>4, <1>5, <1>6, <1>7 DEF Next
<1>8. CASE \E c \in CfName : DropOne(c) /\ DropFrozenCf(c) /\ UNCHANGED <<grpcVars, late>>
  BY <1>2, <1>8
<1>9. CASE rows' = rows /\ cfs \subseteq cfs'
  BY <1>7, <1>9, DiskKept
<1> QED
  BY <1>1, <1>8, <1>9, RowsStep

(* The engine implements the durable buffer, for any number of records,     *)
(* streams, CFs, retries, faults and restarts: append_batch stores a record *)
(* once, a record is acknowledged only when it is safe, a commit (answered  *)
(* or not) adds one copy of records that are still on disk, and             *)
(* drop_frozen_cf gives up only what was delivered.                         *)
THEOREM ImplementsBufferCorrect ==
  ASSUME Reliable
  PROVE  Spec => ImplementsBuffer
<1> DEFINE Inv == /\ TypeOK /\ ValuesOK /\ CustodyInv /\ KeysInv /\ SafeInv /\ CopiesInv
                  /\ FilesInCf
<1>1. Init => Inv /\ Buffer!Init
  <2> SUFFICES ASSUME Init PROVE Inv /\ Buffer!Init
    OBVIOUS
  <2>1. Inv
    BY InitTypes, CustodyInit, KeysInit, SafeInit, CopiesInit, FilesInit
  <2>2. OnDisk = {}
    BY DEF Init, StoreInit, OnDisk
  <2>3. Buffer!Init
    BY <2>2, FlushAssumption DEF Init, GrpcInit, FlushInit, Buffer!Init
  <2> QED
    BY <2>1, <2>3
<1>2. Inv /\ [Next]_vars => Inv' /\ [Buffer!Next]_(Buffer!bufferVars)
  <2> SUFFICES ASSUME Inv, [Next]_vars PROVE Inv' /\ [Buffer!Next]_(Buffer!bufferVars)
    OBVIOUS
  <2>0. Noticed
    BY ReliableNoticed
  <2>1. TypeOK' /\ ValuesOK' /\ CustodyInv' /\ KeysInv'
    BY <2>0, NextTypes, CustodyNext, KeysNext
  <2>2. SafeInv'
    BY <2>0, <2>1, AckedNext, PendingNext, CoveredNext, BatchNext DEF SafeInv
  <2>3. CopiesInv' /\ FilesInCf'
    BY <2>0, <2>1, CopiesNext, FilesNext
  <2>4. [Buffer!Next]_(Buffer!bufferVars)
    BY <2>0, <2>1, RefineNext
  <2> QED
    BY <2>1, <2>2, <2>3, <2>4
<1> QED
  BY <1>1, <1>2, PTL DEF Spec, ImplementsBuffer, Buffer!Spec
==============================================================================
