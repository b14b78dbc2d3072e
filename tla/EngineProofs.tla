---------------------------- MODULE EngineProofs -----------------------------
(***************************************************************************)
(* Proofs about Engine, for every value of its constants.                  *)
(***************************************************************************)
EXTENDS Engine, FiniteSetTheorems, TLAPS

USE StoreAssumption

----------------------------------------------------------------------------
(* The operators on multisets of CF names return multisets.                 *)
LEMMA MultisetTypes ==
  ASSUME NEW v \in [CfName -> Nat], NEW w \in [CfName -> Nat], NEW c \in CfName, NEW S
  PROVE  /\ None \in [CfName -> Nat]
         /\ Add(v, c) \in [CfName -> Nat]
         /\ v[c] > 0 => Remove(v, c) \in [CfName -> Nat]
         /\ Join(v, w) \in [CfName -> Nat]
         /\ Of(S) \in [CfName -> Nat]
BY DEF None, Add, Remove, Join, Of

(* There are finitely many CF names.                                        *)
LEMMA CfNameFinite == IsFiniteSet(CfName) /\ \A S \in SUBSET CfName : IsFiniteSet(S) /\ Cardinality(S) \in Nat
<1>1. IsFiniteSet(CfName)
  BY FS_Interval DEF CfName
<1>2. QED
  BY <1>1, FS_Subset, FS_CardinalityType

(* The size limits are natural numbers.                                     *)
LEMMA SizeLimitsNat == SizeLimits \subseteq Nat
BY DEF SizeLimits

----------------------------------------------------------------------------
(* Every operation of the store preserves the types of its variables.       *)
LEMMA OpenType ==
  ASSUME StoreTypeOK, NEW n, NEW k \in Nat, Open(n, k)
  PROVE  StoreTypeOK'
<1>1. ListCf \subseteq CfName
  BY DEF ListCf, INITIAL_CF, CfName, StoreTypeOK
<1>2. Cardinality(Orphans(n)) \in Nat
  BY <1>1, CfNameFinite DEF Orphans
<1>3. /\ Cardinality(Orphans(n)) * FlushSizeBytes \in Nat
      /\ FirstKey(k) \in Nat
  BY <1>2 DEF FirstKey
<1>4. Of(Orphans(n)) \in [CfName -> Nat]
  BY DEF Of
<1>5. [c \in CfName |-> IF c \in Orphans(n) THEN FlushSizeBytes ELSE 0] \in [CfName -> Nat]
  OBVIOUS
<1>6. QED
  BY <1>1, <1>3, <1>4, <1>5, SizeLimitsNat DEF Open, StoreTypeOK, ResetSizeLimit, appendVars

LEMMA AppendTypes ==
  ASSUME StoreTypeOK, NEW s \in Streams, NEW r \in Records,
         AppendStart(s, r) \/ AppendFail(s) \/ AppendCount(s)
           \/ AppendReturn(s) \/ AppendForget(s)
  PROVE  StoreTypeOK'
<1>1. CASE AppendStart(s, r)
  BY <1>1 DEF AppendStart, StoreTypeOK, diskVars, byteVars
<1>2. CASE AppendFail(s)
  BY <1>2 DEF AppendFail, StoreTypeOK, diskVars, byteVars
<1>3. CASE AppendCount(s)
  BY <1>3 DEF AppendCount, StoreTypeOK, diskVars
<1>4. CASE AppendReturn(s)
  BY <1>4 DEF AppendReturn, StoreTypeOK, diskVars
<1>5. CASE AppendForget(s)
  BY <1>5 DEF AppendForget, StoreTypeOK, diskVars, byteVars
<1>6. QED
  BY <1>1, <1>2, <1>3, <1>4, <1>5

LEMMA StoreUnchanged == ASSUME StoreTypeOK, UNCHANGED storeVars PROVE StoreTypeOK'
BY DEF StoreTypeOK, storeVars, diskVars, byteVars, appendVars

LEMMA WriteType ==
  ASSUME StoreTypeOK, NEW s \in Streams, AppendWrite(s), value[s] \in Records
  PROVE  StoreTypeOK'
<1>1. PICK c \in CfName : c = cf_name[s]
  BY DEF AppendWrite, StoreTypeOK
<1>2. Put(rows[c], counter, value[s]) \in SUBSET (Nat \X Records)
  BY DEF Put, StoreTypeOK
<1>3. rows' \in [CfName -> SUBSET (Nat \X Records)]
  BY <1>1, <1>2 DEF AppendWrite, StoreTypeOK
<1>4. QED
  BY <1>3 DEF AppendWrite, StoreTypeOK, byteVars

LEMMA RotateTypes ==
  ASSUME StoreTypeOK, RotateSwitch \/ \E n \in CfName : RotateCreate(n)
  PROVE  StoreTypeOK'
<1>1. CASE RotateSwitch
  BY <1>1, SizeLimitsNat DEF RotateSwitch, ResetSizeLimit, StoreTypeOK, diskVars, appendVars
<1>2. CASE \E n \in CfName : RotateCreate(n)
  BY <1>2 DEF RotateCreate, StoreTypeOK, byteVars, appendVars
<1>3. QED
  BY <1>1, <1>2

LEMMA OrphanTypes ==
  ASSUME StoreTypeOK, NEW v \in [CfName -> Nat], TakeOrphanedCfs \/ RetainFrozenCfs(v)
  PROVE  StoreTypeOK'
BY DEF TakeOrphanedCfs, RetainFrozenCfs, StoreTypeOK, None, Join, diskVars, byteVars, appendVars

LEMMA DropType ==
  ASSUME StoreTypeOK, NEW c \in CfName, DropFrozenCf(c)
  PROVE  StoreTypeOK'
<1>1. frozen_cf_sizes[c] \in Nat
  BY DEF StoreTypeOK
<1>2. QED
  BY <1>1 DEF DropFrozenCf, StoreTypeOK, appendVars

LEMMA ForgetType ==
  ASSUME StoreTypeOK, ForgetStore,
         UNCHANGED diskVars \/ \E lost \in SUBSET unsynced : LoseUnsynced(lost)
  PROVE  StoreTypeOK'
<1>1. INITIAL_CF \in CfName
  BY DEF INITIAL_CF, CfName
<1>2. cfs' \subseteq CfName /\ rows' \in [CfName -> SUBSET (Nat \X Records)] /\ unsynced' \subseteq Records
  BY DEF LoseUnsynced, diskVars, StoreTypeOK
<1>3. QED
  BY <1>1, <1>2 DEF ForgetStore, StoreTypeOK, None

----------------------------------------------------------------------------
(* The components' own variables, and the steps that leave them alone.      *)
LEMMA FlushUnchanged == ASSUME FlushTypeOK, UNCHANGED flushVars PROVE FlushTypeOK'
BY DEF FlushTypeOK, flushVars, loopVars, pipeVars, commitVars

LEMMA GrpcUnchanged == ASSUME GrpcTypeOK, UNCHANGED grpcVars PROVE GrpcTypeOK'
BY DEF GrpcTypeOK, grpcVars

LEMMA FlushReset ==
  ASSUME FlushTypeOK, NEW l \in {"wait", "stopped"}, ResetFlush(l)
  PROVE  FlushTypeOK'
BY FlushAssumption DEF ResetFlush, FlushTypeOK, None

(* Adding the files of a batch to the table keeps the copies countable.     *)
LEMMA TableType ==
  ASSUME FlushTypeOK, NEW v
  PROVE  WithFiles(v) \in [Records -> Nat]
<1> DEFINE sources(r) == {c \in CfName : v[c] > 0 /\ r \in data_files[c]}
           copies(r) == Cardinality(sources(r))
<1>1. \A r \in Records : copies(r) \in Nat
  <2> TAKE r \in Records
  <2>1. sources(r) \in SUBSET CfName
    OBVIOUS
  <2> HIDE DEF sources
  <2> QED
    BY <2>1, CfNameFinite
<1>2. WithFiles(v) = [r \in Records |-> table[r] + copies(r)]
  BY DEF WithFiles
<1>3. QED
  <2> HIDE DEF copies
  <2> QED BY <1>1, <1>2 DEF FlushTypeOK

(* Every step of the flush engine preserves its types and the store's.      *)
LEMMA FlushStepTypes ==
  ASSUME TypeOK,
         (StartFlush /\ loop_pc' \in {loop_pc, "flushing"}) \/ StopLoop \/ FlushRotate \/ FlushSwitch
           \/ FlushFail \/ FlushSpawn \/ NextRound
  PROVE  StoreTypeOK' /\ FlushTypeOK'
<1>0. StoreTypeOK /\ FlushTypeOK
  BY DEF TypeOK
<1>1. CASE StartFlush /\ loop_pc' \in {loop_pc, "flushing"}
  <2>1. StoreTypeOK'
    BY <1>0, <1>1, OrphanTypes DEF StartFlush, FlushTypeOK
  <2>2. FlushTypeOK'
    BY <1>0, <1>1 DEF StartFlush, FlushTypeOK, StoreTypeOK, pipeVars, commitVars
  <2>3. QED
    BY <2>1, <2>2
<1>2. CASE StopLoop
  BY <1>0, <1>2, StoreUnchanged DEF StopLoop, FlushTypeOK, pipeVars, commitVars
<1>3. CASE FlushRotate
  BY <1>0, <1>3, RotateTypes DEF FlushRotate, FlushTypeOK, pipeVars, commitVars
<1>4. CASE FlushSwitch
  <2>1. Add(cfs_to_flush, active_cf) \in [CfName -> Nat]
    BY <1>0, MultisetTypes DEF FlushTypeOK, StoreTypeOK
  <2>2. FlushTypeOK'
    BY <1>0, <1>4, <2>1 DEF FlushSwitch, FlushTypeOK, pipeVars, commitVars
  <2>3. StoreTypeOK'
    BY <1>0, <1>4, RotateTypes DEF FlushSwitch
  <2>4. QED
    BY <2>2, <2>3
<1>5. CASE FlushFail
  BY <1>0, <1>5, StoreUnchanged DEF FlushFail, FlushTypeOK, None, pipeVars, commitVars
<1>6. CASE FlushSpawn
  BY <1>0, <1>6, StoreUnchanged DEF FlushSpawn, FlushTypeOK, None, Join, commitVars
<1>7. CASE NextRound
  BY <1>0, <1>7, StoreUnchanged DEF NextRound, FlushTypeOK, pipeVars, commitVars
<1>8. QED
  BY <1>1, <1>2, <1>3, <1>4, <1>5, <1>6, <1>7

(* So does every step of a pipeline.                                        *)
LEMMA PipelineTypes ==
  ASSUME TypeOK, NEW c \in CfName,
         AcquirePermit(c) \/ Compile(c) \/ SendCommit(c) \/ PipelineFail(c)
  PROVE  StoreTypeOK' /\ FlushTypeOK'
<1>0. StoreTypeOK /\ FlushTypeOK
  BY DEF TypeOK
<1>1. CASE AcquirePermit(c)
  <2>1. Remove(waiting, c) \in [CfName -> Nat] /\ Add(compiling, c) \in [CfName -> Nat]
    BY <1>0, <1>1, MultisetTypes DEF AcquirePermit, FlushTypeOK
  <2>2. QED
    BY <1>0, <1>1, <2>1, StoreUnchanged DEF AcquirePermit, FlushTypeOK, loopVars, commitVars
<1>2. CASE Compile(c)
  <2>1. Remove(compiling, c) \in [CfName -> Nat] /\ Add(encoded, c) \in [CfName -> Nat]
    BY <1>0, <1>2, MultisetTypes DEF Compile, FlushTypeOK
  <2>2. PICK read \in SUBSET rows[c] : data_files' = [data_files EXCEPT ![c] = Parsed(read)]
    BY <1>2 DEF Compile
  <2>3. Parsed(read) \in SUBSET Records
    BY <1>0 DEF Parsed, StoreTypeOK
  <2>4. data_files' \in [CfName -> SUBSET Records]
    BY <1>0, <2>2, <2>3 DEF FlushTypeOK
  <2>5. QED
    BY <1>0, <1>2, <2>1, <2>4, StoreUnchanged DEF Compile, FlushTypeOK, loopVars, commitVars
<1>3. CASE SendCommit(c)
  <2>1. Remove(encoded, c) \in [CfName -> Nat] /\ Add(commit_queue, c) \in [CfName -> Nat]
    BY <1>0, <1>3, MultisetTypes DEF SendCommit, FlushTypeOK
  <2>2. QED
    BY <1>0, <1>3, <2>1, StoreUnchanged DEF SendCommit, FlushTypeOK, loopVars, commitVars
<1>4. CASE PipelineFail(c)
  <2>0. Of({c}) \in [CfName -> Nat]
    BY DEF Of
  <2>1. StoreTypeOK'
    BY <1>0, <1>4, <2>0, StoreUnchanged, OrphanTypes DEF PipelineFail, RetainOnError
  <2>2. /\ compiling' \in [CfName -> Nat] /\ encoded' \in [CfName -> Nat]
        /\ data_files' \in [CfName -> SUBSET Records]
    BY <1>0, <1>4 DEF PipelineFail, CompileAborts, FlushTypeOK, Remove
  <2>3. QED
    BY <1>0, <1>4, <2>1, <2>2 DEF PipelineFail, ReleasePermit, FlushTypeOK, loopVars, commitVars
<1>5. QED
  BY <1>1, <1>2, <1>3, <1>4

(* And every step of the committer.                                         *)
LEMMA CommitterTypes ==
  ASSUME TypeOK,
         \/ RecvBatch \/ CommitOk \/ CommitRetry \/ CommitFail \/ CommitterExit
         \/ \E c \in CfName : DropOne(c)
  PROVE  StoreTypeOK' /\ FlushTypeOK'
<1>0. StoreTypeOK /\ FlushTypeOK
  BY DEF TypeOK
<1>0a. WithFiles(batch) \in [Records -> Nat]
  BY <1>0, TableType
<1>0b. 0 \in 0 .. MaxAttempts /\ 1 \in 0 .. MaxAttempts
  BY FlushAssumption
<1>1. CASE RecvBatch
  BY <1>0, <1>0b, <1>1, StoreUnchanged DEF RecvBatch, FlushTypeOK, None, loopVars, pipeVars
<1>2. CASE CommitOk
  BY <1>0, <1>0a, <1>2, StoreUnchanged DEF CommitOk, FlushTypeOK, loopVars, pipeVars
<1>3. CASE CommitRetry
  <2>1. attempt' \in 0 .. MaxAttempts
    BY <1>0, <1>3, FlushAssumption DEF CommitRetry, MayRetry, FlushTypeOK
  <2>2. QED
    BY <1>0, <1>0a, <1>3, <2>1, StoreUnchanged
       DEF CommitRetry, AttemptFails, FlushTypeOK, loopVars, pipeVars
<1>4. CASE CommitFail
  <2>1. StoreTypeOK'
    BY <1>0, <1>4, OrphanTypes DEF CommitFail, FlushTypeOK
  <2>2. data_files' \in [CfName -> SUBSET Records]
    BY <1>0, <1>4 DEF CommitFail, EndBatch, FlushTypeOK
  <2>3. QED
    BY <1>0, <1>0a, <1>0b, <1>4, <2>1, <2>2
       DEF CommitFail, EndBatch, AttemptFails, FlushTypeOK, None, loopVars
<1>5. CASE CommitterExit
  BY <1>0, <1>5, StoreUnchanged DEF CommitterExit, FlushTypeOK, loopVars, pipeVars
<1>6. CASE \E c \in CfName : DropOne(c)
  <2>1. PICK c \in CfName : DropOne(c)
    BY <1>6
  <2>2. StoreTypeOK'
    BY <1>0, <2>1, DropType, StoreUnchanged DEF DropOne
  <2>3. Remove(batch, c) \in [CfName -> Nat]
    BY <1>0, <2>1, MultisetTypes DEF DropOne, FlushTypeOK
  <2>4. QED
    BY <1>0, <1>0b, <2>1, <2>2, <2>3 DEF DropOne, FlushTypeOK, loopVars
<1>7. QED
  BY <1>1, <1>2, <1>3, <1>4, <1>5, <1>6

----------------------------------------------------------------------------
(* The type invariant is inductive together with this: a slot in use holds  *)
(* a record.                                                                *)
ValuesOK == \A s \in Streams : append_pc[s] # "idle" => value[s] \in Records

LEMMA InitTypes == Init => TypeOK /\ ValuesOK
<1> SUFFICES ASSUME Init PROVE TypeOK /\ ValuesOK
  OBVIOUS
<1>1. StoreTypeOK
  BY DEF Init, StoreInit, StoreTypeOK, None, CfName, INITIAL_CF
<1>2. GrpcTypeOK
  BY DEF Init, GrpcInit, GrpcTypeOK
<1>3. FlushTypeOK
  BY FlushAssumption DEF Init, FlushInit, FlushTypeOK, None
<1>4. QED
  BY <1>1, <1>2, <1>3 DEF Init, TypeOK, ValuesOK, StoreInit

LEMMA NextTypes == TypeOK /\ ValuesOK /\ [Next]_vars => TypeOK' /\ ValuesOK'
<1> SUFFICES ASSUME TypeOK, ValuesOK, [Next]_vars PROVE TypeOK' /\ ValuesOK'
  OBVIOUS
<1>0. StoreTypeOK /\ GrpcTypeOK /\ FlushTypeOK
  BY DEF TypeOK
<1> USE DEF Fault, NoFault
<1>1. CASE Start
  <2>0. PICK n \in ListCf : \E k \in {0} \cup {row[1] : row \in rows[n]} : Open(n, k)
    BY <1>1 DEF Start
  <2>1. PICK k \in {0} \cup {row[1] : row \in rows[n]} : Open(n, k)
    BY <2>0
  <2>2. k \in Nat
    <3>1. n \in CfName
      BY <1>0 DEF StoreTypeOK, ListCf, INITIAL_CF, CfName
    <3>2. \A row \in rows[n] : row[1] \in Nat
      BY <1>0, <3>1 DEF StoreTypeOK
    <3>3. QED
      BY <2>1, <3>2
  <2>3. StoreTypeOK'
    BY <1>0, <2>1, <2>2, OpenType
  <2>4. GrpcTypeOK' /\ FlushTypeOK'
    BY <1>0, <1>1, GrpcUnchanged, FlushReset DEF Start
  <2>5. faults' \in Nat /\ ValuesOK'
    BY <1>0, <2>1 DEF Open, LastKey, appendVars, ValuesOK, TypeOK
  <2>6. QED
    BY <1>1, <2>3, <2>4, <2>5 DEF Start, TypeOK
<1>2. CASE Sigterm \/ Drained
  BY <1>0, <1>2, StoreUnchanged, GrpcUnchanged, FlushUnchanged
     DEF Sigterm, Drained, TypeOK, ValuesOK, storeVars, appendVars
<1>3. CASE EmergencyFlush
  <2>1. StoreTypeOK' /\ FlushTypeOK'
    BY <1>3, FlushStepTypes DEF EmergencyFlush
  <2>2. QED
    BY <1>0, <1>3, <2>1, GrpcUnchanged
       DEF EmergencyFlush, StartFlush, TakeOrphanedCfs, TypeOK, ValuesOK, appendVars
<1>4. CASE CloseChannel
  <2>1. FlushTypeOK'
    BY <1>0, <1>4 DEF CloseChannel, FlushTypeOK, pipeVars, commitVars
  <2>2. QED
    BY <1>0, <1>4, <2>1, StoreUnchanged, GrpcUnchanged
       DEF CloseChannel, TypeOK, ValuesOK, storeVars, appendVars
<1>5. CASE Exit \/ Crash
  <2>1. StoreTypeOK'
    BY <1>0, <1>5, ForgetType DEF Exit, Crash
  <2>2. GrpcTypeOK' /\ FlushTypeOK'
    BY <1>0, <1>5, FlushReset DEF Exit, Crash, ForgetGrpc, GrpcTypeOK
  <2>3. QED
    BY <1>5, <2>1, <2>2 DEF Exit, Crash, ForgetStore, TypeOK, ValuesOK
<1>6. CASE Client
  <2>1. StoreTypeOK' /\ FlushTypeOK'
    BY <1>0, <1>6, StoreUnchanged, FlushUnchanged DEF Client, FlushNow, Connect
  <2>2. GrpcTypeOK'
    BY <1>0, <1>6 DEF Client, FlushNow, Connect, NotifyOne, GrpcTypeOK
  <2>3. QED
    BY <1>6, <2>1, <2>2
       DEF Client, FlushNow, Connect, TypeOK, ValuesOK, storeVars, appendVars
<1>7. ASSUME NEW s \in Streams, Hangup(s)
      PROVE  TypeOK' /\ ValuesOK'
  BY <1>0, <1>7, StoreUnchanged, FlushUnchanged
     DEF Hangup, Disconnect, TypeOK, ValuesOK, GrpcTypeOK, storeVars, appendVars
<1>8. ASSUME NEW s \in Streams, Message(s)
      PROVE  TypeOK' /\ ValuesOK'
  <2>1. PICK r \in Records : Ingest(s, r)
    BY <1>8 DEF Message
  <2>2. StoreTypeOK'
    BY <1>0, <2>1, AppendTypes DEF Ingest
  <2>3. GrpcTypeOK'
    BY <1>0, <2>1 DEF Ingest, GrpcTypeOK
  <2>4. ValuesOK'
    BY <1>0, <2>1 DEF Ingest, AppendStart, ValuesOK, StoreTypeOK
  <2>5. QED
    BY <1>0, <1>8, <2>1, <2>2, <2>3, <2>4, FlushUnchanged DEF Message, Ingest, TypeOK
<1>9. ASSUME NEW s \in Streams, IngestTask(s)
      PROVE  TypeOK' /\ ValuesOK'
  <2>0. FlushTypeOK' /\ main_pc' = main_pc /\ late' = late
    BY <1>0, <1>9, FlushUnchanged DEF IngestTask
  <2>1. CASE IngestAppend(s)
    <3>1. PICK r \in Records : r = value[s]
      BY <1>0, <2>1 DEF IngestAppend, AppendFail, AppendCount, AppendReturn, ValuesOK
    <3>2. StoreTypeOK'
      BY <1>0, <2>1, <3>1, AppendTypes DEF IngestAppend
    <3>3. faults' \in Nat /\ ValuesOK'
      BY <1>0, <2>1
         DEF IngestAppend, AppendFail, AppendCount, AppendReturn, ValuesOK, TypeOK, StoreTypeOK
    <3>4. QED
      BY <1>0, <2>0, <2>1, <3>2, <3>3, GrpcUnchanged DEF IngestAppend, TypeOK
  <2>2. CASE Reply(s)
    <3>1. value[s] \in Records
      BY <1>0, <2>2 DEF Reply, AppendForget, ValuesOK
    <3>2. StoreTypeOK'
      BY <1>0, <2>2, <3>1, AppendTypes DEF Reply
    <3>3. GrpcTypeOK'
      BY <1>0, <2>2, <3>1 DEF Reply, NotifyOne, GrpcTypeOK
    <3>4. ValuesOK'
      BY <1>0, <2>2 DEF Reply, AppendForget, ValuesOK, StoreTypeOK
    <3>5. QED
      BY <2>0, <2>2, <3>2, <3>3, <3>4 DEF Reply, TypeOK
  <2>3. QED
    BY <1>9, <2>1, <2>2 DEF IngestTask
<1>10. ASSUME NEW s \in Streams, IngestTaskWrite(s)
       PROVE  TypeOK' /\ ValuesOK'
  <2>1. value[s] \in Records /\ AppendWrite(s)
    BY <1>10 DEF IngestTaskWrite, IngestWrite, AppendWrite, ValuesOK
  <2>2. StoreTypeOK'
    BY <1>0, <2>1, WriteType
  <2>3. ValuesOK'
    BY <1>0, <2>1 DEF AppendWrite, ValuesOK, StoreTypeOK
  <2>4. QED
    BY <1>0, <1>10, <2>1, <2>2, <2>3, GrpcUnchanged, FlushUnchanged
       DEF IngestTaskWrite, IngestWrite, TypeOK
<1>11. CASE Timer \/ Notified
  <2>1. StoreTypeOK' /\ FlushTypeOK'
    BY <1>11, FlushStepTypes DEF Timer, Notified, WakeUp
  <2>2. GrpcTypeOK'
    BY <1>0, <1>11, GrpcUnchanged DEF Timer, Notified, GrpcTypeOK
  <2>3. QED
    BY <1>11, <2>1, <2>2
       DEF Timer, Notified, WakeUp, StartFlush, TakeOrphanedCfs, TypeOK, ValuesOK, appendVars
<1>12. CASE Shutdown
  <2>1. StoreTypeOK' /\ FlushTypeOK'
    BY <1>12, FlushStepTypes DEF Shutdown
  <2>2. QED
    BY <1>0, <1>12, <2>1, GrpcUnchanged
       DEF Shutdown, StopLoop, TypeOK, ValuesOK, storeVars, appendVars
<1>13. CASE Flush
  <2>1. StoreTypeOK' /\ FlushTypeOK'
    BY <1>13, FlushStepTypes DEF Flush
  <2>2. UNCHANGED appendVars
    BY <1>13 DEF Flush, FlushRotate, RotateCreate, FlushSwitch, RotateSwitch, FlushFail,
                 FlushSpawn, NextRound, storeVars, appendVars
  <2>3. faults' \in Nat
    BY <1>13 DEF Flush, FlushRotate, RotateCreate, NewName, FlushSwitch, FlushFail,
                 FlushSpawn, NextRound, TypeOK
  <2>4. QED
    BY <1>0, <1>13, <2>1, <2>2, <2>3, GrpcUnchanged DEF Flush, TypeOK, ValuesOK, appendVars
<1>14. ASSUME NEW c \in CfName, Acquire(c) \/ Pipeline(c)
       PROVE  TypeOK' /\ ValuesOK'
  <2>1. StoreTypeOK' /\ FlushTypeOK'
    BY <1>14, PipelineTypes DEF Acquire, Pipeline
  <2>2. UNCHANGED appendVars
    BY <1>14 DEF Acquire, Pipeline, AcquirePermit, Compile, SendCommit, PipelineFail,
                 RetainOnError, RetainFrozenCfs, storeVars, appendVars
  <2>3. faults' \in Nat
    BY <1>14 DEF Acquire, Pipeline, AcquirePermit, Compile, RowsRead, SendCommit, PipelineFail,
                 TypeOK
  <2>4. QED
    BY <1>0, <1>14, <2>1, <2>2, <2>3, GrpcUnchanged
       DEF Acquire, Pipeline, TypeOK, ValuesOK, appendVars
<1>15. CASE Committer \/ CommitterEnds
  <2>1. StoreTypeOK' /\ FlushTypeOK'
    BY <1>15, CommitterTypes DEF Committer, CommitterEnds
  <2>2. UNCHANGED appendVars
    BY <1>15 DEF Committer, CommitterEnds, RecvBatch, CommitOk, CommitRetry, CommitFail,
                 RetainFrozenCfs, DropOne, DropFrozenCf, CommitterExit, storeVars, appendVars
  <2>3. faults' \in Nat
    BY <1>15 DEF Committer, CommitterEnds, RecvBatch, CommitOk, CommitRetry, CommitFail,
                 AttemptFails, DropOne, CommitterExit, TypeOK
  <2>4. QED
    BY <1>0, <1>15, <2>1, <2>2, <2>3, GrpcUnchanged
       DEF Committer, CommitterEnds, TypeOK, ValuesOK, appendVars
<1>16. CASE Halted \/ UNCHANGED vars
  BY <1>0, <1>16, StoreUnchanged, GrpcUnchanged, FlushUnchanged
     DEF Halted, vars, TypeOK, ValuesOK, storeVars, appendVars
<1>17. QED
  BY <1>1, <1>2, <1>3, <1>4, <1>5, <1>6, <1>7, <1>8, <1>9, <1>10, <1>11, <1>12, <1>13, <1>14,
     <1>15, <1>16 DEF Next

(* Every variable keeps its type: in particular the counts of CF names and  *)
(* the permits never go below zero.                                         *)
THEOREM TypeCorrect == Spec => []TypeOK
<1>1. Spec => [](TypeOK /\ ValuesOK)
  BY InitTypes, NextTypes, PTL DEF Spec
<1>2. QED
  BY <1>1, PTL
==============================================================================
