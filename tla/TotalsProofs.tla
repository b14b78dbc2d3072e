---------------------------- MODULE TotalsProofs -----------------------------
(***************************************************************************)
(* The counters of the store and of the semaphore against what they count, *)
(* for every value of the constants.                                       *)
(***************************************************************************)
EXTENDS EngineTotals, DurabilityProofs

----------------------------------------------------------------------------
(* Sums over the CF names.                                                  *)

LEMMA ColumnSize ==
  ASSUME NEW c, NEW n \in Nat
  PROVE  IsFiniteSet(Column(c, n)) /\ Cardinality(Column(c, n)) = n
<1>1. IsFiniteSet({c}) /\ Cardinality({c}) = 1
  BY FS_Singleton
<1>2. IsFiniteSet(1 .. n) /\ Cardinality(1 .. n) = n
  BY FS_Interval
<1>3. IsFiniteSet(Column(c, n)) /\ Cardinality(Column(c, n)) = Cardinality({c}) * Cardinality(1 .. n)
  BY <1>1, <1>2, FS_Product, Zenon DEF Column
<1> QED
  BY <1>1, <1>2, <1>3

LEMMA UnitsFinite ==
  ASSUME NEW f \in [CfName -> Nat]
  PROVE  IsFiniteSet(Units(f)) /\ Total(f) \in Nat
<1> DEFINE columns == {Column(c, f[c]) : c \in CfName}
           column == [c \in CfName |-> Column(c, f[c])]
<1>1. column \in Surjection(CfName, columns)
  BY DEF Surjection
<1>2. IsFiniteSet(columns)
  BY <1>1, CfNameFinite, FS_Surjection
<1>3. \A T \in columns : IsFiniteSet(T)
  BY ColumnSize
<1>4. IsFiniteSet(UNION columns)
  <2> HIDE DEF columns
  <2> QED BY <1>2, <1>3, FS_UNION
<1> QED
  BY <1>4, FS_CardinalityType DEF Units, Total

(* A sum follows the change of one of its terms.                            *)
LEMMA TotalUpdate ==
  ASSUME NEW f \in [CfName -> Nat], NEW c \in CfName, NEW n \in Nat
  PROVE  Total([f EXCEPT ![c] = n]) = Total(f) - f[c] + n
<1> DEFINE g == [f EXCEPT ![c] = n]
           old == Column(c, f[c])
           new == Column(c, n)
           rest == Units(f) \ old
<1>1. old \subseteq Units(f)
  BY DEF Units
<1>2. Units(g) = rest \cup new
  BY DEF Units, Column
<1>3. rest \cap new = {}
  BY DEF Units, Column
<1>4. /\ IsFiniteSet(old) /\ Cardinality(old) = f[c]
      /\ IsFiniteSet(new) /\ Cardinality(new) = n
  BY ColumnSize
<1>5. IsFiniteSet(Units(f)) /\ Cardinality(Units(f)) \in Nat
  BY UnitsFinite DEF Total
<1> HIDE DEF g, old, new
<1>6. Units(f) \cap old = old
  BY <1>1
<1>7. IsFiniteSet(rest) /\ Cardinality(rest) = Cardinality(Units(f)) - f[c]
  BY <1>4, <1>5, <1>6, FS_Difference
<1>8. Cardinality(rest \cup new) = Cardinality(rest) + n - Cardinality({})
  BY <1>3, <1>4, <1>7, FS_Union
<1>9. Cardinality(rest \cup new) = Cardinality(Units(f)) - f[c] + n
  BY <1>5, <1>7, <1>8, FS_EmptySet
<1> QED
  BY <1>2, <1>9 DEF Total, g

LEMMA TotalSteps ==
  ASSUME NEW f \in [CfName -> Nat], NEW c \in CfName
  PROVE  /\ Total(Add(f, c)) = Total(f) + 1
         /\ f[c] > 0 => Total(Remove(f, c)) = Total(f) - 1
<1>1. Total(f) \in Nat
  BY UnitsFinite
<1>4. f[c] \in Nat /\ f[c] + 1 \in Nat /\ (f[c] > 0 => f[c] - 1 \in Nat)
  OBVIOUS
<1>2. Total([f EXCEPT ![c] = f[c] + 1]) = Total(f) - f[c] + (f[c] + 1)
  BY <1>4, TotalUpdate
<1>3. f[c] > 0 => Total([f EXCEPT ![c] = f[c] - 1]) = Total(f) - f[c] + (f[c] - 1)
  BY <1>4, TotalUpdate
<1>5. /\ Total([f EXCEPT ![c] = f[c] + 1]) = Total(f) + 1
      /\ f[c] > 0 => Total([f EXCEPT ![c] = f[c] - 1]) = Total(f) - 1
  BY <1>1, <1>2, <1>3, <1>4
<1>6. /\ Add(f, c) = [f EXCEPT ![c] = f[c] + 1]
      /\ Remove(f, c) = [f EXCEPT ![c] = f[c] - 1]
  BY DEF Add, Remove
<1> QED
  BY <1>5, <1>6

(* The sum of a function that is n on a set and 0 elsewhere.                *)
LEMMA TotalConstant ==
  ASSUME NEW S \in SUBSET CfName, NEW n \in Nat
  PROVE  Total([c \in CfName |-> IF c \in S THEN n ELSE 0]) = Cardinality(S) * n
<1> DEFINE f == [c \in CfName |-> IF c \in S THEN n ELSE 0]
<1>1. Units(f) = S \X (1 .. n)
  BY DEF Units, Column
<1>2. IsFiniteSet(S) /\ IsFiniteSet(1 .. n) /\ Cardinality(1 .. n) = n
  BY CfNameFinite, FS_Interval
<1> QED
  BY <1>1, <1>2, FS_Product DEF Total

LEMMA TotalNone == Total(None) = 0
<1>1. Units(None) = {}
  BY DEF Units, Column, None
<1> QED
  BY <1>1, FS_EmptySet DEF Total

----------------------------------------------------------------------------
(* The permits of the semaphore.                                            *)

LEMMA PermitsNext ==
  TypeOK /\ PermitsConserved /\ [Next]_vars => PermitsConserved'
<1> SUFFICES ASSUME TypeOK, PermitsConserved, [Next]_vars PROVE PermitsConserved'
  OBVIOUS
<1>0. /\ permits \in Nat /\ compiling \in [CfName -> Nat] /\ encoded \in [CfName -> Nat]
      /\ Total(compiling) \in Nat /\ Total(encoded) \in Nat /\ ConcurrentCfFlushes \in Nat
  BY UnitsFinite, FlushAssumption DEF TypeOK, FlushTypeOK
<1>1. ASSUME UNCHANGED <<permits, compiling, encoded>> PROVE PermitsConserved'
  BY <1>1 DEF PermitsConserved
<1>2. CASE Start \/ Exit \/ Crash
  BY <1>0, <1>2, TotalNone DEF Start, Exit, Crash, ResetFlush, PermitsConserved
<1>3. ASSUME NEW c \in CfName, Acquire(c) PROVE PermitsConserved'
  <2>1. Total(Add(compiling, c)) = Total(compiling) + 1
    BY <1>0, TotalSteps
  <2> QED
    BY <1>0, <1>3, <2>1 DEF Acquire, AcquirePermit, PermitsConserved
<1>4. ASSUME NEW c \in CfName, Pipeline(c) PROVE PermitsConserved'
  <2>1. /\ Total(Add(encoded, c)) = Total(encoded) + 1
        /\ compiling[c] > 0 => Total(Remove(compiling, c)) = Total(compiling) - 1
        /\ encoded[c] > 0 => Total(Remove(encoded, c)) = Total(encoded) - 1
    BY <1>0, TotalSteps
  <2>2. CASE Compile(c)
    BY <1>0, <2>1, <2>2 DEF Compile, PermitsConserved
  <2>3. CASE SendCommit(c)
    BY <1>0, <2>1, <2>3 DEF SendCommit, PermitsConserved
  <2>4. CASE PipelineFail(c)
    BY <1>0, <2>1, <2>4 DEF PipelineFail, CompileAborts, ReleasePermit, PermitsConserved
  <2> QED
    BY <1>4, <2>2, <2>3, <2>4 DEF Pipeline
<1>5. CASE Sigterm \/ Drained \/ EmergencyFlush \/ CloseChannel \/ Client
  BY <1>1, <1>5 DEF Sigterm, Drained, EmergencyFlush, StartFlush, CloseChannel, Client,
                    flushVars, pipeVars
<1>6. ASSUME NEW s \in Streams, Hangup(s) \/ Message(s) \/ IngestTask(s) \/ IngestTaskWrite(s)
      PROVE  PermitsConserved'
  BY <1>1, <1>6 DEF Hangup, Message, IngestTask, IngestTaskWrite, flushVars, pipeVars
<1>7. CASE Timer \/ Notified \/ Shutdown \/ Flush
  BY <1>1, <1>7 DEF Timer, Notified, WakeUp, StartFlush, Shutdown, StopLoop, Flush, FlushRotate,
                    FlushSwitch, FlushFail, FlushSpawn, NextRound, pipeVars
<1>8. CASE Committer \/ CommitterEnds
  BY <1>1, <1>8 DEF Committer, RecvBatch, CommitOk, CommitRetry, CommitFail, DropOne,
                    CommitterEnds, CommitterExit, pipeVars
<1>9. CASE Halted \/ UNCHANGED vars
  BY <1>1, <1>9 DEF Halted, vars, flushVars, pipeVars
<1> QED
  BY <1>2, <1>3, <1>4, <1>5, <1>6, <1>7, <1>8, <1>9 DEF Next

(* No permit is lost or made up, by a compile task that returns, fails or   *)
(* panics, however many flush cycles overlap: there are always as many      *)
(* pipelines between acquire_owned and their end as permits taken.          *)
THEOREM PermitsCorrect == Spec => []PermitsConserved
<1>1. Init => PermitsConserved
  BY TotalNone, FlushAssumption DEF Init, FlushInit, PermitsConserved
<1>2. Spec => []TypeOK
  BY TypeCorrect
<1> QED
  BY <1>1, <1>2, PermitsNext, PTL DEF Spec

----------------------------------------------------------------------------
(* The bytes of the store.  What is counted as frozen belongs to a CF that  *)
(* exists and is not, or not about to be, active: so rotate replaces an     *)
(* entry of frozen_cf_sizes that is 0, and drop_frozen_cf takes off what    *)
(* rotate or RocksStore::new put in.                                        *)
FrozenSizes ==
  \A c \in CfName : frozen_cf_sizes[c] # 0 => c \in cfs /\ c # active_cf /\ c # rotating

BytesInv == BytesConserved /\ FrozenSizes

(* The appends that have counted the bytes of the active CF, not the total. *)
Counting == {s \in Streams : append_pc[s] = "counted"}

(* What BytesInv speaks about.                                              *)
bytesVars == <<total_unflushed_bytes, active_cf_bytes, frozen_cf_sizes, append_pc, cfs, active_cf,
               rotating>>

LEMMA BytesUnchanged == ASSUME BytesInv, UNCHANGED bytesVars PROVE BytesInv'
BY DEF BytesInv, BytesConserved, FrozenSizes, bytesVars

LEMMA CountingSteps ==
  ASSUME IsFiniteSet(Streams), TypeOK, NEW s \in Streams
  PROVE  /\ IsFiniteSet(Counting) /\ Cardinality(Counting) \in Nat
         /\ AppendCount(s) => Cardinality(Counting)' = Cardinality(Counting) + 1
         /\ AppendReturn(s) => Cardinality(Counting)' = Cardinality(Counting) - 1
         /\ AppendWrite(s) \/ AppendFail(s) \/ AppendForget(s) \/ (\E r \in Records : AppendStart(s, r))
              => Cardinality(Counting)' = Cardinality(Counting)
<1>1. IsFiniteSet(Counting)
  BY FS_Subset DEF Counting
<1>2. /\ AppendCount(s) => s \notin Counting /\ Counting' = Counting \cup {s}
      /\ AppendReturn(s) => s \in Counting /\ Counting' = Counting \ {s}
      /\ AppendWrite(s) \/ AppendFail(s) \/ AppendForget(s) \/ (\E r \in Records : AppendStart(s, r))
           => Counting' = Counting
  BY DEF Counting, AppendCount, AppendReturn, AppendWrite, AppendFail, AppendForget, AppendStart,
         TypeOK, StoreTypeOK
<1>3. /\ Cardinality(Counting) \in Nat
      /\ s \notin Counting => Cardinality(Counting \cup {s}) = Cardinality(Counting) + 1
      /\ s \in Counting => Cardinality(Counting \ {s}) = Cardinality(Counting) - 1
  BY <1>1, FS_CardinalityType, FS_AddElement, FS_RemoveElement
<1> QED
  BY <1>1, <1>2, <1>3

LEMMA BytesAppend ==
  ASSUME IsFiniteSet(Streams), TypeOK, BytesInv, NEW s \in Streams,
         \/ AppendWrite(s) \/ AppendFail(s) \/ AppendCount(s) \/ AppendReturn(s) \/ AppendForget(s)
         \/ \E r \in Records : AppendStart(s, r)
  PROVE  BytesInv'
<1>1. /\ active_cf_bytes \in Nat /\ total_unflushed_bytes \in Int
      /\ Total(frozen_cf_sizes) \in Nat /\ Cardinality(Counting) \in Nat
  BY UnitsFinite, CountingSteps DEF TypeOK, StoreTypeOK
<1>2. /\ total_unflushed_bytes >= 0
      /\ total_unflushed_bytes + Cardinality(Counting) = active_cf_bytes + Total(frozen_cf_sizes)
  BY DEF BytesInv, BytesConserved, Counting
<1>3. UNCHANGED <<frozen_cf_sizes, cfs, active_cf, rotating>>
  BY DEF AppendWrite, AppendFail, AppendCount, AppendReturn, AppendForget, AppendStart,
         diskVars, byteVars
<1>4. /\ total_unflushed_bytes' >= 0
      /\ total_unflushed_bytes' + Cardinality(Counting)' = active_cf_bytes' + Total(frozen_cf_sizes)
  <2>1. CASE AppendCount(s)
    <3>1. Cardinality(Counting)' = Cardinality(Counting) + 1
      BY <2>1, CountingSteps
    <3>2. /\ total_unflushed_bytes' = total_unflushed_bytes
          /\ active_cf_bytes' = active_cf_bytes + 1
      BY <2>1 DEF AppendCount
    <3> QED
      BY <1>1, <1>2, <3>1, <3>2
  <2>2. CASE AppendReturn(s)
    <3>1. Cardinality(Counting)' = Cardinality(Counting) - 1
      BY <2>2, CountingSteps
    <3>2. /\ total_unflushed_bytes' = total_unflushed_bytes + 1
          /\ active_cf_bytes' = active_cf_bytes
      BY <2>2 DEF AppendReturn
    <3> QED
      BY <1>1, <1>2, <3>1, <3>2
  <2>3. CASE \/ AppendWrite(s) \/ AppendFail(s) \/ AppendForget(s)
             \/ \E r \in Records : AppendStart(s, r)
    <3>1. UNCHANGED <<total_unflushed_bytes, active_cf_bytes>>
      BY <2>3 DEF AppendWrite, AppendFail, AppendForget, AppendStart, byteVars
    <3>2. Cardinality(Counting)' = Cardinality(Counting)
      BY <2>3, CountingSteps
    <3> QED
      BY <1>2, <3>1, <3>2
  <2> QED
    BY <2>1, <2>2, <2>3
<1> QED
  BY <1>3, <1>4 DEF BytesInv, BytesConserved, FrozenSizes, Counting

(* rotate freezes the size of the CF it replaces.                           *)
LEMMA BytesRotate ==
  ASSUME IsFiniteSet(Streams), TypeOK, CustodyInv, Up, BytesInv,
         RotateSwitch \/ \E n \in CfName : RotateCreate(n)
  PROVE  BytesInv'
<1>1. CASE RotateSwitch
  <2>1. /\ active_cf \in cfs /\ active_cf # rotating /\ active_cf \in CfName
        /\ active_cf_bytes \in Nat /\ frozen_cf_sizes \in [CfName -> Nat]
        /\ total_unflushed_bytes \in Int
    BY <1>1 DEF RotateSwitch, CustodyInv, RotationOK, ProcessOK, TypeOK, StoreTypeOK
  <2>2. frozen_cf_sizes[active_cf] = 0
    BY <2>1 DEF BytesInv, FrozenSizes
  <2>3. Total(frozen_cf_sizes') = Total(frozen_cf_sizes) - 0 + active_cf_bytes
    BY <1>1, <2>1, <2>2, TotalUpdate DEF RotateSwitch
  <2>4. Total(frozen_cf_sizes) \in Nat
    BY <2>1, UnitsFinite
  <2>5. UNCHANGED <<append_pc, total_unflushed_bytes>> /\ active_cf_bytes' = 0
    BY <1>1 DEF RotateSwitch, appendVars
  <2>6. BytesConserved'
    BY <2>1, <2>3, <2>4, <2>5 DEF BytesInv, BytesConserved
  <2>7. FrozenSizes'
    BY <1>1, <2>1 DEF RotateSwitch, BytesInv, FrozenSizes, diskVars, NoCf, CfName
  <2> QED
    BY <2>6, <2>7 DEF BytesInv
<1>2. CASE \E n \in CfName : RotateCreate(n)
  <2>1. PICK n \in CfName : RotateCreate(n)
    BY <1>2
  <2>2. n \notin cfs
    BY <2>1 DEF RotateCreate, NewName, Fresh
  <2>3. FrozenSizes'
    BY <2>1, <2>2 DEF RotateCreate, BytesInv, FrozenSizes, byteVars
  <2> QED
    BY <2>1, <2>3 DEF RotateCreate, BytesInv, BytesConserved, byteVars, appendVars
<1> QED
  BY <1>1, <1>2

(* drop_frozen_cf waits for the appends between their two fetch_adds.       *)
LEMMA BytesDrop ==
  ASSUME TypeOK, BytesInv, NEW c \in CfName, DropFrozenCf(c)
  PROVE  BytesInv'
<1>1. /\ active_cf_bytes \in Nat /\ frozen_cf_sizes \in [CfName -> Nat]
      /\ total_unflushed_bytes \in Int
  BY DEF TypeOK, StoreTypeOK
<1>2. /\ Total(frozen_cf_sizes) \in Nat /\ Total(frozen_cf_sizes') \in Nat
      /\ Total(frozen_cf_sizes') = Total(frozen_cf_sizes) - frozen_cf_sizes[c]
  <2>1. frozen_cf_sizes' \in [CfName -> Nat]
    BY <1>1 DEF DropFrozenCf
  <2>2. Total(frozen_cf_sizes) \in Nat /\ Total(frozen_cf_sizes') \in Nat
    BY <1>1, <2>1, UnitsFinite
  <2>3. Total(frozen_cf_sizes') = Total(frozen_cf_sizes) - frozen_cf_sizes[c] + 0
    BY <1>1, TotalUpdate DEF DropFrozenCf
  <2> QED
    BY <1>1, <2>2, <2>3
<1>3. Counting = {} /\ Counting' = {}
  BY DEF DropFrozenCf, DbReadHeld, Counting, appendVars
<1>4. total_unflushed_bytes + Cardinality({}) = active_cf_bytes + Total(frozen_cf_sizes)
  BY <1>3 DEF BytesInv, BytesConserved, Counting
<1>5. /\ total_unflushed_bytes' >= 0
      /\ total_unflushed_bytes' + Cardinality({}) = active_cf_bytes' + Total(frozen_cf_sizes')
  <2>1. /\ total_unflushed_bytes' = total_unflushed_bytes - frozen_cf_sizes[c]
        /\ active_cf_bytes' = active_cf_bytes
    BY DEF DropFrozenCf
  <2>2. frozen_cf_sizes[c] \in Nat
    BY <1>1
  <2> QED
    BY <1>1, <1>2, <1>4, <2>1, <2>2, FS_EmptySet
<1>6. BytesConserved'
  BY <1>3, <1>5 DEF BytesConserved, Counting
<1>7. FrozenSizes'
  BY <1>1 DEF DropFrozenCf, BytesInv, FrozenSizes
<1> QED
  BY <1>6, <1>7 DEF BytesInv

(* RocksStore::new estimates the CFs it finds; no append is under way.      *)
LEMMA BytesOpen ==
  ASSUME TypeOK, CustodyInv, ~Up, BytesInv, Counting = {}, NEW n \in ListCf, NEW k, Open(n, k)
  PROVE  BytesInv'
<1>1. Orphans(n) \in SUBSET CfName
  BY DEF Orphans, ListCf, TypeOK, StoreTypeOK, INITIAL_CF, CfName
<1>2. Cardinality(Orphans(n)) \in Nat
  BY <1>1, CfNameFinite
<1>3. Total(frozen_cf_sizes') = Cardinality(Orphans(n)) * FlushSizeBytes
  <2>1. frozen_cf_sizes' = [c \in CfName |-> IF c \in Orphans(n) THEN FlushSizeBytes ELSE 0]
    BY DEF Open
  <2>2. Total([c \in CfName |-> IF c \in Orphans(n) THEN FlushSizeBytes ELSE 0])
          = Cardinality(Orphans(n)) * FlushSizeBytes
    BY <1>1, TotalConstant, StoreAssumption
  <2> QED
    BY <2>1, <2>2
<1>4. /\ Cardinality(Orphans(n)) * FlushSizeBytes \in Nat
      /\ total_unflushed_bytes' = Cardinality(Orphans(n)) * FlushSizeBytes
      /\ active_cf_bytes' = 0
  <2>1. Cardinality(Orphans(n)) * FlushSizeBytes \in Nat
    BY <1>2, StoreAssumption
  <2> QED
    BY <2>1 DEF Open
<1>5. Counting' = {}
  BY DEF Open, appendVars, Counting
<1>6. BytesConserved'
  <2>1. Cardinality({}) = 0
    BY FS_EmptySet
  <2>2. BytesConserved' = /\ total_unflushed_bytes' >= 0
                          /\ total_unflushed_bytes' + Cardinality(Counting')
                               = active_cf_bytes' + Total(frozen_cf_sizes')
    BY DEF BytesConserved, Counting
  <2> QED
    BY <1>3, <1>4, <1>5, <2>1, <2>2
<1>7. rotating' = NoCf
  BY DEF CustodyInv, ProcessOK, RotationOK, Open
<1>8. FrozenSizes'
  BY <1>7 DEF Open, Orphans, FrozenSizes, NoCf, CfName
<1> QED
  BY <1>6, <1>8 DEF BytesInv

(* A process that is not up has neither connections nor appends.            *)
LEMMA DownIdleNext == TypeOK /\ CustodyInv /\ DownIdle /\ [Next]_vars => DownIdle'
<1> SUFFICES ASSUME TypeOK, CustodyInv, DownIdle, [Next]_vars, ~Up' PROVE DownIdle'
  BY DEF DownIdle
<1>1. CASE Exit \/ Crash
  BY <1>1 DEF Exit, Crash, ForgetStore, ForgetGrpc, DownIdle
<1>2. CASE ~Up /\ UNCHANGED <<conn, append_pc>>
  BY <1>2 DEF DownIdle
<1>3. CASE Start \/ Sigterm \/ Drained \/ EmergencyFlush \/ CloseChannel \/ Client
  BY <1>3 DEF Start, Sigterm, Drained, EmergencyFlush, CloseChannel, Client, Up
<1>4. ASSUME NEW s \in Streams, Hangup(s) \/ Message(s) \/ IngestTask(s) \/ IngestTaskWrite(s)
      PROVE  FALSE
  <2>1. main_pc' = main_pc /\ ~Up
    BY <1>4 DEF Hangup, Message, IngestTask, IngestTaskWrite, Up
  <2> QED
    BY <1>4, <2>1 DEF Hangup, Disconnect, Message, Ingest, IngestTask, IngestAppend, AppendFail,
         AppendCount, AppendReturn, Reply, AppendForget, IngestTaskWrite, IngestWrite, AppendWrite,
         DownIdle
<1>5. CASE Timer \/ Notified \/ Shutdown \/ Flush
  BY <1>2, <1>5 DEF Timer, Notified, WakeUp, Shutdown, ShuttingDown, Flush, FlushRotate,
       FlushSwitch, FlushFail, FlushSpawn, NextRound, CustodyInv, ProcessOK, Up
<1>6. ASSUME NEW c \in CfName, Acquire(c) \/ Pipeline(c) PROVE DownIdle'
  <2>1. main_pc' = main_pc /\ UNCHANGED <<conn, append_pc>>
    BY <1>6 DEF Acquire, Pipeline, AcquirePermit, Compile, SendCommit, PipelineFail,
         RetainOnError, RetainFrozenCfs, storeVars, appendVars, grpcVars
  <2> QED
    BY <1>2, <2>1 DEF Up
<1>7. CASE Committer \/ CommitterEnds
  <2>1. main_pc' = main_pc /\ UNCHANGED <<conn, append_pc>>
    BY <1>7 DEF Committer, CommitterEnds, RecvBatch, CommitOk, CommitRetry, CommitFail,
         RetainFrozenCfs, DropOne, DropFrozenCf, CommitterExit, storeVars, appendVars, grpcVars
  <2> QED
    BY <1>2, <2>1 DEF Up
<1>8. CASE Halted \/ UNCHANGED vars
  BY <1>2, <1>8 DEF Halted, vars, storeVars, appendVars, grpcVars, Up
<1> QED
  BY <1>1, <1>3, <1>4, <1>5, <1>6, <1>7, <1>8 DEF Next

LEMMA BytesNext ==
  IsFiniteSet(Streams) /\ TypeOK /\ CustodyInv /\ DownIdle /\ BytesInv /\ [Next]_vars => BytesInv'
<1> SUFFICES ASSUME IsFiniteSet(Streams), TypeOK, CustodyInv, DownIdle, BytesInv, [Next]_vars
             PROVE  BytesInv'
  OBVIOUS
<1>0. ASSUME UNCHANGED storeVars PROVE BytesInv'
  BY <1>0, BytesUnchanged DEF storeVars, diskVars, byteVars, appendVars, bytesVars
<1>1. CASE Start
  <2>1. PICK n \in ListCf : \E k \in {0} \cup {row[1] : row \in rows[n]} : Open(n, k)
    BY <1>1 DEF Start
  <2>2. PICK k : Open(n, k)
    BY <2>1
  <2>3. ~Up /\ Counting = {}
    BY <1>1 DEF Start, DownIdle, Counting
  <2> QED
    BY <2>2, <2>3, BytesOpen
<1>2. CASE Exit \/ Crash
  <2>1. Counting' = {}
    BY <1>2 DEF Exit, Crash, ForgetStore, Counting
  <2>2. /\ active_cf_bytes' = 0 /\ total_unflushed_bytes' = 0 /\ frozen_cf_sizes' = None
    BY <1>2 DEF Exit, Crash, ForgetStore
  <2>3. BytesConserved'
    BY <2>1, <2>2, TotalNone, FS_EmptySet DEF BytesConserved, Counting
  <2>4. FrozenSizes'
    BY <2>2 DEF FrozenSizes, None
  <2> QED
    BY <2>3, <2>4 DEF BytesInv
<1>3. CASE Sigterm \/ Drained \/ CloseChannel \/ Client \/ Shutdown \/ CommitterEnds
  BY <1>0, <1>3 DEF Sigterm, Drained, CloseChannel, Client, FlushNow, Connect, Shutdown, StopLoop,
                    CommitterEnds, CommitterExit
<1>4. ASSUME NEW s \in Streams, Hangup(s) \/ Message(s) \/ IngestTask(s) \/ IngestTaskWrite(s)
      PROVE  BytesInv'
  BY <1>0, <1>4, BytesAppend
     DEF Hangup, Disconnect, Message, Ingest, IngestTask, IngestAppend, Reply, IngestTaskWrite,
         IngestWrite
<1>5. CASE EmergencyFlush \/ Timer \/ Notified
  BY <1>5, BytesUnchanged DEF EmergencyFlush, Timer, Notified, WakeUp, StartFlush,
       TakeOrphanedCfs, diskVars, byteVars, appendVars, bytesVars
<1>6. CASE Flush
  <2>1. CASE FlushRotate \/ FlushSwitch
    <3>1. Up
      BY <2>1 DEF FlushRotate, FlushSwitch, CustodyInv, ProcessOK
    <3> QED
      BY <2>1, <3>1, BytesRotate DEF FlushRotate, FlushSwitch
  <2>2. CASE FlushFail \/ FlushSpawn \/ NextRound
    BY <1>0, <2>2 DEF FlushFail, FlushSpawn, NextRound
  <2> QED
    BY <1>6, <2>1, <2>2 DEF Flush
<1>7. ASSUME NEW c \in CfName, Acquire(c) \/ Pipeline(c) PROVE BytesInv'
  BY <1>0, <1>7, BytesUnchanged
     DEF Acquire, Pipeline, AcquirePermit, Compile, SendCommit, PipelineFail, RetainOnError,
         RetainFrozenCfs, diskVars, byteVars, appendVars, bytesVars
<1>8. CASE Committer
  <2>1. CASE RecvBatch \/ CommitOk \/ CommitRetry
    BY <1>0, <2>1 DEF RecvBatch, CommitOk, CommitRetry
  <2>2. CASE CommitFail
    BY <2>2, BytesUnchanged
       DEF CommitFail, RetainFrozenCfs, diskVars, byteVars, appendVars, bytesVars
  <2>3. ASSUME NEW c \in CfName, DropOne(c) PROVE BytesInv'
    BY <1>0, <2>3, BytesDrop DEF DropOne
  <2> QED
    BY <1>8, <2>1, <2>2, <2>3 DEF Committer
<1>9. CASE Halted \/ UNCHANGED vars
  BY <1>0, <1>9 DEF Halted, vars
<1> QED
  BY <1>1, <1>2, <1>3, <1>4, <1>5, <1>6, <1>7, <1>8, <1>9 DEF Next

(* total_unflushed_bytes is exact and fetch_sub never wraps it, for any     *)
(* number of streams, sizes and CFs: because rotate and drop_frozen_cf find *)
(* an entry of frozen_cf_sizes as the other left it, and drop_frozen_cf     *)
(* waits for every append that has counted its bytes once but not twice.    *)
THEOREM BytesCorrect == ASSUME IsFiniteSet(Streams) PROVE Spec => []BytesConserved
<1> DEFINE Inv == TypeOK /\ ValuesOK /\ CustodyInv /\ DownIdle /\ BytesInv
<1>1. Init => BytesInv
  <2> SUFFICES ASSUME Init PROVE BytesInv
    OBVIOUS
  <2>1. Counting = {} /\ frozen_cf_sizes = None
    BY DEF Init, StoreInit, Counting
  <2>2. BytesConserved
    BY <2>1, TotalNone, FS_EmptySet DEF Init, StoreInit, BytesConserved, Counting
  <2> QED
    BY <2>1, <2>2 DEF BytesInv, FrozenSizes, None
<1>2. Init => Inv
  BY <1>1, InitTypes, CustodyInit, KeysInit DEF KeysInv
<1>3. Inv /\ [Next]_vars => Inv'
  BY NextTypes, CustodyNext, DownIdleNext, BytesNext
<1>4. Inv => BytesConserved
  BY DEF BytesInv
<1> QED
  BY <1>2, <1>3, <1>4, PTL DEF Spec
==============================================================================
