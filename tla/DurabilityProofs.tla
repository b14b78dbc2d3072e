-------------------------- MODULE DurabilityProofs ---------------------------
(***************************************************************************)
(* No acknowledged record is lost and no row is overwritten, for every     *)
(* value of the constants, as long as the iterators of RocksDB report no   *)
(* error that the code drops and no write is lost that was to be synced.   *)
(***************************************************************************)
EXTENDS CustodyProofs

(* The two iterator errors the code ignores do not happen, and power fails  *)
(* only where writes are synced.                                            *)
Reliable == /\ "read" \notin FaultKinds /\ "maxkey" \notin FaultKinds
            /\ SyncWrites \/ "power" \notin FaultKinds

(* The step under way is none of those failures.                            *)
Noticed == ~Fault("read") /\ ~Fault("maxkey") /\ (SyncWrites \/ ~Fault("power"))

LEMMA ReliableNoticed == ASSUME Reliable PROVE Noticed
BY DEF Reliable, Noticed, Fault

----------------------------------------------------------------------------
(* The next key is new in every CF that an append may still write to: the   *)
(* active one, the one about to be, and the ones whose name is copied.      *)
Target(c) == \/ c = active_cf \/ c = rotating
             \/ \E s \in Streams : append_pc[s] = "named" /\ cf_name[s] = c

KeysBelow == Up => \A c \in CfName : Target(c) => \A row \in rows[c] : row[1] < counter

AbsentEmpty == \A c \in CfName \ cfs : rows[c] = {}

DownIdle == ~Up => conn = {} /\ \A s \in Streams : append_pc[s] = "idle"

Synced == SyncWrites => unsynced = {}

KeysInv == KeysBelow /\ AbsentEmpty /\ DownIdle /\ Synced

keysVars == <<diskVars, active_cf, rotating, counter, append_pc, cf_name, conn>>

LEMMA KeysInit == Init => KeysInv
BY DEF Init, StoreInit, GrpcInit, KeysInv, KeysBelow, AbsentEmpty, DownIdle, Synced, Up

LEMMA KeysUnchanged ==
  ASSUME KeysInv, UNCHANGED keysVars, Up' = Up
  PROVE  KeysInv'
BY DEF KeysInv, KeysBelow, AbsentEmpty, DownIdle, Synced, Target, keysVars, diskVars

(* A process that starts continues after the last key of the newest CF.     *)
LEMMA KeysStart ==
  ASSUME Noticed, TypeOK, CustodyInv, KeysInv, Start
  PROVE  KeysInv'
<1>1. PICK n \in ListCf : \E k \in {0} \cup {row[1] : row \in rows[n]} : Open(n, k)
  BY DEF Start
<1>2. PICK k \in {0} \cup {row[1] : row \in rows[n]} : Open(n, k)
  BY <1>1
<1>3. n \in CfName
  BY <1>1, StoreAssumption DEF ListCf, INITIAL_CF, CfName, TypeOK, StoreTypeOK
<1>4. k \in Nat
  BY <1>2, <1>3 DEF TypeOK, StoreTypeOK
<1>5. \A row \in rows[n] : row[1] <= k
  BY <1>2, <1>3 DEF Open, LastKey, Fault, Noticed, TypeOK, StoreTypeOK
<1>6. rotating = NoCf /\ \A s \in Streams : append_pc[s] = "idle"
  BY DEF Start, CustodyInv, ProcessOK, RotationOK, KeysInv, DownIdle
<1>7. /\ counter' = k + 1 /\ active_cf' = n /\ cfs' = ListCf
      /\ UNCHANGED <<rows, unsynced, rotating, append_pc, cf_name>>
  BY <1>2 DEF Open, FirstKey, appendVars
<1>8. KeysBelow'
  <2> SUFFICES ASSUME NEW c \in CfName, Target(c)', NEW row \in rows[c]
               PROVE  row[1] < k + 1
    BY <1>7 DEF KeysBelow
  <2>1. c = n
    BY <1>6, <1>7 DEF Target, NoCf, CfName
  <2>2. row[1] \in Nat
    BY DEF TypeOK, StoreTypeOK
  <2>3. QED
    BY <1>4, <1>5, <2>1, <2>2
<1>9. AbsentEmpty' /\ Synced' /\ DownIdle'
  BY <1>6, <1>7 DEF KeysInv, AbsentEmpty, Synced, DownIdle, ListCf, Start, Up
<1>10. QED
  BY <1>8, <1>9 DEF KeysInv

(* A process that ends loses no row.                                        *)
LEMMA RowsSurvive ==
  ASSUME Noticed, TypeOK, KeysInv, Exit \/ Crash
  PROVE  cfs' = cfs /\ rows' = rows /\ (SyncWrites => unsynced' = {})
<1>1. CASE UNCHANGED diskVars
  BY <1>1 DEF KeysInv, Synced, diskVars
<1>2. CASE Fault("power") /\ \E lost \in SUBSET unsynced : LoseUnsynced(lost)
  <2>1. PICK lost \in SUBSET unsynced : LoseUnsynced(lost)
    BY <1>2
  <2>2. lost = {}
    BY <1>2, <2>1 DEF Fault, Noticed, KeysInv, Synced
  <2>3. \A c \in CfName : rows'[c] = rows[c]
    BY <2>1, <2>2 DEF LoseUnsynced
  <2>4. rows' = [c \in CfName |-> rows[c]]
    BY <2>1, <2>2, <2>3 DEF LoseUnsynced
  <2>5. rows' = rows
    BY <2>4 DEF TypeOK, StoreTypeOK
  <2>6. QED
    BY <2>1, <2>5 DEF LoseUnsynced
<1>3. QED
  BY <1>1, <1>2 DEF Exit, Crash

LEMMA KeysEnd ==
  ASSUME Noticed, TypeOK, KeysInv, Exit \/ Crash
  PROVE  KeysInv'
BY RowsSurvive DEF Exit, Crash, ForgetStore, ForgetGrpc, KeysInv, KeysBelow, AbsentEmpty, DownIdle,
                   Synced, Up

(* A write takes the next key, in a CF where it is new.                     *)
LEMMA WriteGrows ==
  ASSUME TypeOK, KeysInv, Up, NEW s \in Streams, AppendWrite(s)
  PROVE  /\ cf_name[s] \in cfs /\ cf_name[s] \in CfName /\ cfs' = cfs
         /\ rows'[cf_name[s]] = rows[cf_name[s]] \cup {<<counter, value[s]>>}
         /\ \A c \in CfName : c # cf_name[s] => rows'[c] = rows[c]
<1>1. cf_name[s] \in cfs /\ cf_name[s] \in CfName
  BY DEF AppendWrite, TypeOK, StoreTypeOK
<1>2. \A row \in rows[cf_name[s]] : row[1] < counter /\ row[1] \in Nat /\ counter \in Nat
  BY <1>1 DEF AppendWrite, KeysInv, KeysBelow, Target, TypeOK, StoreTypeOK
<1>3. Put(rows[cf_name[s]], counter, value[s]) = rows[cf_name[s]] \cup {<<counter, value[s]>>}
  BY <1>2 DEF Put
<1>4. QED
  BY <1>1, <1>3 DEF AppendWrite, TypeOK, StoreTypeOK

LEMMA KeysWrite ==
  ASSUME TypeOK, KeysInv, Up, Up', NEW s \in Streams, IngestTaskWrite(s)
  PROVE  KeysInv'
<1>0. AppendWrite(s) /\ UNCHANGED conn
  BY DEF IngestTaskWrite, IngestWrite, grpcVars
<1>1. KeysBelow'
  <2> SUFFICES ASSUME NEW c \in CfName, Target(c)', NEW row \in rows'[c]
               PROVE  row[1] < counter'
    BY DEF KeysBelow
  <2>1. Target(c)
    BY <1>0 DEF Target, AppendWrite, TypeOK, StoreTypeOK
  <2>2. counter \in Nat /\ counter' = counter + 1
    BY <1>0 DEF AppendWrite, TypeOK, StoreTypeOK
  <2>3. CASE row \in rows[c]
    BY <2>1, <2>2, <2>3 DEF KeysInv, KeysBelow, TypeOK, StoreTypeOK
  <2>4. CASE row = <<counter, value[s]>>
    BY <2>2, <2>4
  <2>5. QED
    BY <1>0, <2>3, <2>4, WriteGrows
<1>2. AbsentEmpty'
  BY <1>0, WriteGrows DEF KeysInv, AbsentEmpty
<1>3. QED
  BY <1>0, <1>1, <1>2 DEF KeysInv, DownIdle, Synced, AppendWrite

(* The other steps of an append take no key that is in use.                 *)
LEMMA KeysAppend ==
  ASSUME TypeOK, KeysInv, Up, Up', NEW s \in Streams, Message(s) \/ IngestTask(s)
  PROVE  KeysInv'
<1>0. counter \in Nat /\ \A c \in CfName : \A row \in rows[c] : row[1] \in Nat
  BY DEF TypeOK, StoreTypeOK
<1>1. /\ UNCHANGED <<cfs, rows, unsynced, active_cf, rotating>>
      /\ counter' \in Nat /\ counter' >= counter
  BY <1>0 DEF Message, Ingest, AppendStart, IngestTask, IngestAppend, AppendFail, AppendCount,
              AppendReturn, Reply, AppendForget, diskVars
<1>2. \A c \in CfName : Target(c)' => Target(c)
  <2> SUFFICES ASSUME NEW c \in CfName, Target(c)' PROVE Target(c)
    OBVIOUS
  <2>1. CASE c = active_cf' \/ c = rotating'
    BY <1>1, <2>1 DEF Target
  <2>2. ASSUME NEW t \in Streams, append_pc'[t] = "named", cf_name'[t] = c
        PROVE  Target(c)
    <3>1. CASE Message(s) /\ t = s
      BY <2>2, <3>1 DEF Message, Ingest, AppendStart, Target, TypeOK, StoreTypeOK
    <3>2. CASE Message(s) /\ t # s
      BY <2>2, <3>2 DEF Message, Ingest, AppendStart, Target, TypeOK, StoreTypeOK
    <3>3. CASE IngestTask(s)
      BY <2>2, <3>3 DEF IngestTask, IngestAppend, AppendFail, AppendCount, AppendReturn, Reply,
                        AppendForget, Target, TypeOK, StoreTypeOK
    <3>4. QED
      BY <3>1, <3>2, <3>3
  <2>3. QED
    BY <2>1, <2>2 DEF Target
<1>3. KeysBelow'
  BY <1>0, <1>1, <1>2 DEF KeysInv, KeysBelow
<1>4. QED
  BY <1>1, <1>3 DEF KeysInv, AbsentEmpty, Synced, DownIdle

LEMMA KeysRotate ==
  ASSUME TypeOK, CustodyInv, KeysInv, Up, Up', FlushRotate \/ FlushSwitch, UNCHANGED conn
  PROVE  KeysInv'
<1>1. CASE FlushRotate
  <2>1. PICK n \in CfName : RotateCreate(n)
    BY <1>1 DEF FlushRotate
  <2>2. rows[n] = {}
    BY <2>1 DEF RotateCreate, NewName, Fresh, KeysInv, AbsentEmpty
  <2>3. \A c \in CfName : Target(c)' => c = n \/ Target(c)
    BY <2>1 DEF RotateCreate, Target, appendVars
  <2>4. KeysBelow'
    BY <2>1, <2>2, <2>3 DEF RotateCreate, KeysInv, KeysBelow
  <2>5. QED
    BY <2>1, <2>4 DEF RotateCreate, KeysInv, AbsentEmpty, Synced, DownIdle, appendVars
<1>2. CASE FlushSwitch
  <2>1. \A c \in CfName : Target(c)' => Target(c)
    BY <1>2 DEF FlushSwitch, RotateSwitch, Target, NoCf, CfName, appendVars
  <2>2. QED
    BY <1>2, <2>1 DEF FlushSwitch, RotateSwitch, KeysInv, KeysBelow, AbsentEmpty, Synced,
                      DownIdle, diskVars
<1>3. QED
  BY <1>1, <1>2

LEMMA KeysDrop ==
  ASSUME TypeOK, KeysInv, Up, Up', NEW c \in CfName, DropOne(c), UNCHANGED conn
  PROVE  KeysInv'
<1>1. CASE UNCHANGED storeVars
  BY <1>1, KeysUnchanged DEF keysVars, storeVars, appendVars
<1>2. CASE DropFrozenCf(c)
  <2>1. \A d \in CfName : rows'[d] = IF d = c THEN {} ELSE rows[d]
    BY <1>2 DEF DropFrozenCf, TypeOK, StoreTypeOK
  <2>2. KeysBelow'
    BY <1>2, <2>1 DEF DropFrozenCf, KeysInv, KeysBelow, Target, appendVars
  <2>3. AbsentEmpty'
    BY <1>2, <2>1 DEF DropFrozenCf, KeysInv, AbsentEmpty
  <2>4. QED
    BY <1>2, <2>2, <2>3 DEF DropFrozenCf, KeysInv, Synced, DownIdle, appendVars
<1>3. QED
  BY <1>1, <1>2 DEF DropOne
(* The steps that touch neither the rows nor the keys.                      *)
LEMMA StoreQuiet ==
  ASSUME \/ StartFlush \/ StopLoop \/ FlushFail \/ FlushSpawn \/ NextRound
         \/ \E c \in CfName : AcquirePermit(c) \/ Compile(c) \/ SendCommit(c) \/ PipelineFail(c)
         \/ RecvBatch \/ CommitOk \/ CommitRetry \/ CommitFail \/ CommitterExit
  PROVE  UNCHANGED <<diskVars, active_cf, rotating, counter, appendVars>>
BY DEF StartFlush, TakeOrphanedCfs, StopLoop, FlushFail, FlushSpawn, NextRound, AcquirePermit,
       Compile, SendCommit, PipelineFail, RetainOnError, RetainFrozenCfs, RecvBatch, CommitOk,
       CommitRetry, CommitFail, CommitterExit, storeVars

(* A task of a stream, of a flush or of the committer runs in a process.    *)
LEMMA TasksUp ==
  ASSUME TypeOK, CustodyInv, KeysInv,
         \/ Sigterm \/ Drained \/ EmergencyFlush \/ CloseChannel \/ Client
         \/ \E s \in Streams : Hangup(s) \/ Message(s) \/ IngestTask(s) \/ IngestTaskWrite(s)
         \/ Timer \/ Notified \/ Shutdown \/ Flush
         \/ \E c \in CfName : DropOne(c) /\ UNCHANGED main_pc
  PROVE  Up /\ Up'
<1>1. CASE Sigterm \/ Drained \/ EmergencyFlush \/ CloseChannel \/ Client
  BY <1>1 DEF Sigterm, Drained, EmergencyFlush, CloseChannel, Client, Up
<1>2. ASSUME NEW s \in Streams, Hangup(s) \/ Message(s) \/ IngestTask(s) \/ IngestTaskWrite(s)
      PROVE  Up /\ Up'
  <2>1. ~(conn = {} /\ append_pc[s] = "idle")
    BY <1>2 DEF Hangup, Disconnect, Message, Ingest, IngestTask, IngestAppend, AppendFail,
                AppendCount, AppendReturn, Reply, AppendForget, IngestTaskWrite, IngestWrite,
                AppendWrite
  <2>2. UNCHANGED main_pc
    BY <1>2 DEF Hangup, Message, IngestTask, IngestTaskWrite
  <2>3. QED
    BY <2>1, <2>2 DEF KeysInv, DownIdle, Up
<1>3. CASE Timer \/ Notified \/ Shutdown \/ Flush
  <2>1. Up
    BY <1>3 DEF Timer, Notified, WakeUp, Shutdown, ShuttingDown, Flush, FlushRotate, FlushSwitch,
                FlushFail, FlushSpawn, NextRound, CustodyInv, ProcessOK
  <2>2. QED
    BY <1>3, <2>1 DEF Timer, Notified, Shutdown, Flush, Up
<1>4. ASSUME NEW c \in CfName, DropOne(c), UNCHANGED main_pc PROVE Up /\ Up'
  BY <1>4 DEF DropOne, CustodyInv, ProcessOK, Up
<1>5. QED
  BY <1>1, <1>2, <1>3, <1>4

LEMMA KeysNext ==
  ASSUME Noticed, TypeOK, CustodyInv, KeysInv, [Next]_vars
  PROVE  KeysInv'
<1>1. CASE Start
  BY <1>1, KeysStart
<1>2. CASE Exit \/ Crash
  BY <1>2, KeysEnd
<1>3. CASE Sigterm \/ Drained \/ CloseChannel \/ Halted \/ UNCHANGED vars
  BY <1>3, KeysUnchanged
     DEF Sigterm, Drained, CloseChannel, Halted, vars, Up, keysVars, storeVars, appendVars, grpcVars
<1>4. CASE Client \/ \E s \in Streams : Hangup(s)
  <2>1. Up /\ Up'
    BY <1>4, TasksUp
  <2>2. UNCHANGED storeVars
    BY <1>4 DEF Client, FlushNow, Connect, Hangup, Disconnect
  <2>3. QED
    BY <2>1, <2>2 DEF KeysInv, KeysBelow, AbsentEmpty, DownIdle, Synced, Target, storeVars,
                      diskVars, appendVars
<1>5. ASSUME NEW s \in Streams, Message(s) \/ IngestTask(s) \/ IngestTaskWrite(s)
      PROVE  KeysInv'
  BY <1>5, TasksUp, KeysAppend, KeysWrite
<1>6. CASE EmergencyFlush \/ Timer \/ Notified \/ Shutdown \/ Flush
  <2>1. Up /\ Up'
    BY <1>6, TasksUp
  <2>2. UNCHANGED conn
    BY <1>6 DEF EmergencyFlush, Timer, Notified, Shutdown, Flush, grpcVars
  <2>3. CASE FlushRotate \/ FlushSwitch
    BY <2>1, <2>2, <2>3, KeysRotate
  <2>4. CASE StartFlush \/ StopLoop \/ FlushFail \/ FlushSpawn \/ NextRound
    BY <2>1, <2>2, <2>4, StoreQuiet, KeysUnchanged DEF keysVars, appendVars
  <2>5. QED
    BY <1>6, <2>3, <2>4 DEF EmergencyFlush, Timer, Notified, WakeUp, Shutdown, Flush
<1>7. CASE (\E c \in CfName : Acquire(c) \/ Pipeline(c)) \/ Committer \/ CommitterEnds
  <2>1. UNCHANGED <<conn, main_pc>>
    BY <1>7 DEF Acquire, Pipeline, Committer, CommitterEnds, grpcVars
  <2>2. ASSUME NEW c \in CfName, DropOne(c) PROVE KeysInv'
    BY <2>1, <2>2, TasksUp, KeysDrop
  <2>3. CASE \/ \E c \in CfName : AcquirePermit(c) \/ Compile(c) \/ SendCommit(c) \/ PipelineFail(c)
             \/ RecvBatch \/ CommitOk \/ CommitRetry \/ CommitFail \/ CommitterExit
    BY <2>1, <2>3, StoreQuiet, KeysUnchanged DEF keysVars, appendVars, Up
  <2>4. QED
    BY <1>7, <2>2, <2>3 DEF Acquire, Pipeline, Committer, CommitterEnds
<1>8. QED
  BY <1>1, <1>2, <1>3, <1>4, <1>5, <1>6, <1>7 DEF Next
(* Only a write and a drop change rows.                                     *)
LEMMA RowsStep ==
  ASSUME Noticed, TypeOK, CustodyInv, KeysInv, [Next]_vars
  PROVE  \/ rows' = rows /\ cfs \subseteq cfs'
         \/ \E s \in Streams : IngestTaskWrite(s) /\ Up
         \/ \E c \in CfName : DropOne(c) /\ DropFrozenCf(c) /\ UNCHANGED <<grpcVars, late>>
<1> DEFINE Goal == \/ rows' = rows /\ cfs \subseteq cfs'
                   \/ \E s \in Streams : IngestTaskWrite(s) /\ Up
                   \/ \E c \in CfName : DropOne(c) /\ DropFrozenCf(c) /\ UNCHANGED <<grpcVars, late>>
<1>1. CASE Start
  BY <1>1 DEF Start, Open, ListCf
<1>2. CASE Exit \/ Crash
  BY <1>2, RowsSurvive
<1>3. CASE Sigterm \/ Drained \/ CloseChannel \/ Halted \/ UNCHANGED vars
  BY <1>3 DEF Sigterm, Drained, CloseChannel, Halted, vars, storeVars, diskVars
<1>4. CASE Client \/ \E s \in Streams : Hangup(s) \/ Message(s) \/ IngestTask(s)
  BY <1>4 DEF Client, FlushNow, Connect, Hangup, Disconnect, Message, Ingest, AppendStart,
              IngestTask, IngestAppend, AppendFail, AppendCount, AppendReturn, Reply, AppendForget,
              storeVars, diskVars
<1>5. ASSUME NEW s \in Streams, IngestTaskWrite(s) PROVE Goal
  BY <1>5, TasksUp
<1>6. CASE EmergencyFlush \/ Timer \/ Notified \/ Shutdown \/ Flush
  <2>1. CASE FlushRotate \/ FlushSwitch
    BY <2>1 DEF FlushRotate, RotateCreate, FlushSwitch, RotateSwitch, diskVars
  <2>2. CASE StartFlush \/ StopLoop \/ FlushFail \/ FlushSpawn \/ NextRound
    BY <2>2, StoreQuiet DEF diskVars
  <2>3. QED
    BY <1>6, <2>1, <2>2 DEF EmergencyFlush, Timer, Notified, WakeUp, Shutdown, Flush
<1>7. CASE (\E c \in CfName : Acquire(c) \/ Pipeline(c)) \/ Committer \/ CommitterEnds
  <2>0. UNCHANGED <<grpcVars, late>>
    BY <1>7 DEF Acquire, Pipeline, Committer, CommitterEnds
  <2>1. ASSUME NEW c \in CfName, DropOne(c) PROVE Goal
    BY <2>0, <2>1 DEF DropOne, storeVars, diskVars
  <2>2. CASE \/ \E c \in CfName : AcquirePermit(c) \/ Compile(c) \/ SendCommit(c) \/ PipelineFail(c)
             \/ RecvBatch \/ CommitOk \/ CommitRetry \/ CommitFail \/ CommitterExit
    BY <2>2, StoreQuiet DEF diskVars
  <2>3. QED
    BY <1>7, <2>1, <2>2 DEF Acquire, Pipeline, Committer, CommitterEnds
<1>8. QED
  BY <1>1, <1>2, <1>3, <1>4, <1>5, <1>6, <1>7 DEF Next

LEMMA RowsGrow ==
  ASSUME Noticed, TypeOK, CustodyInv, KeysInv, [Next]_vars
  PROVE  \A c \in cfs \cap cfs' : rows[c] \subseteq rows'[c]
<1> SUFFICES ASSUME NEW c \in cfs \cap cfs' PROVE rows[c] \subseteq rows'[c]
  OBVIOUS
<1>0. c \in CfName
  BY DEF TypeOK, StoreTypeOK
<1>1. ASSUME NEW s \in Streams, IngestTaskWrite(s), Up PROVE rows[c] \subseteq rows'[c]
  BY <1>0, <1>1, WriteGrows DEF IngestTaskWrite, IngestWrite
<1>2. ASSUME NEW d \in CfName, DropFrozenCf(d) PROVE rows[c] \subseteq rows'[c]
  BY <1>0, <1>2 DEF DropFrozenCf, TypeOK, StoreTypeOK
<1>3. QED
  BY <1>1, <1>2, RowsStep

(* No append, rotation or restart overwrites a row, for any number of       *)
(* records, streams and CFs and with any fault but a failed search for the  *)
(* last key: append_batch's keys are new in the CF they go to, even in one  *)
(* that was rotated away meanwhile.                                         *)
THEOREM NeverOverwritesCorrect ==
  ASSUME Reliable
  PROVE  Spec => NeverOverwrites
<1> DEFINE Inv == TypeOK /\ ValuesOK /\ CustodyInv /\ KeysInv
<1>1. Init => Inv
  BY InitTypes, CustodyInit, KeysInit
<1>2. Inv /\ [Next]_vars => Inv'
  BY ReliableNoticed, NextTypes, CustodyNext, KeysNext
<1>3. Inv /\ [Next]_vars => [\A c \in cfs \cap cfs' : rows[c] \subseteq rows'[c]]_vars
  BY ReliableNoticed, RowsGrow
<1>4. QED
  BY <1>1, <1>2, <1>3, PTL DEF Spec, NeverOverwrites
----------------------------------------------------------------------------
(* A record is safe in the table or on disk.  Beside the acknowledged ones  *)
(* those are safe that a stream is about to acknowledge; the data files of  *)
(* a CF whose snapshot was taken hold what is in the CF; and when the       *)
(* committer drops CFs their data files are in the table.                   *)
Safe(r) == Deliverable(r) => table[r] > 0 \/ r \in OnDisk

PendingSafe == \A s \in Streams :
                 append_pc[s] \in {"wrote", "counted", "done", "full"} => Safe(value[s])

Covered == \A c \in CfName : Snapshotted(c) =>
             \A r \in RecordsIn(c) : Deliverable(r) => r \in data_files[c]

BatchInTable == committer = "drop" =>
                  \A c \in CfName : batch[c] > 0 => \A r \in data_files[c] : table[r] > 0

SafeInv == AckedSafe /\ PendingSafe /\ Covered /\ BatchInTable

LEMMA SafeInit == Init => SafeInv
BY DEF Init, StoreInit, GrpcInit, FlushInit, SafeInv, AckedSafe, PendingSafe, Covered,
       BatchInTable, Snapshotted, None

(* What keeps a record safe.                                                *)
LEMMA SafeKept ==
  ASSUME NEW r, Safe(r), late \subseteq late', table[r] > 0 => table'[r] > 0,
         OnDisk \subseteq OnDisk'
  PROVE  Safe(r)'
BY DEF Safe, Deliverable

LEMMA DiskGrows ==
  ASSUME cfs \subseteq cfs', \A c \in cfs : rows[c] \subseteq rows'[c]
  PROVE  OnDisk \subseteq OnDisk'
<1> SUFFICES ASSUME NEW c \in cfs, NEW r \in RecordsIn(c) PROVE r \in OnDisk'
  BY DEF OnDisk
<1>1. PICK row \in rows[c] : r = row[2]
  BY DEF RecordsIn
<1>2. row \in rows'[c] /\ c \in cfs'
  OBVIOUS
<1>3. r \in RecordsIn(c)'
  BY <1>1, <1>2 DEF RecordsIn
<1>4. QED
  BY <1>2, <1>3 DEF OnDisk

(* A CF in a batch that is being dropped holds nothing undelivered.         *)
LEMMA DropSafe ==
  ASSUME TypeOK, TypeOK', SafeInv, NEW c \in CfName, DropOne(c), DropFrozenCf(c), UNCHANGED late,
         NEW r \in Records, Safe(r)
  PROVE  Safe(r)'
<1> SUFFICES ASSUME Deliverable(r), ~(table[r] > 0) PROVE r \in OnDisk'
  BY DEF Safe, Deliverable, DropOne
<1>1. PICK d \in cfs : r \in RecordsIn(d)
  BY DEF Safe, OnDisk
<1>2. d \in CfName
  BY DEF TypeOK, StoreTypeOK
<1>3. d # c
  <2> SUFFICES ASSUME d = c PROVE FALSE
    OBVIOUS
  <2>1. Snapshotted(c) /\ batch[c] > 0 /\ committer = "drop"
    BY HeldType DEF DropOne, Snapshotted
  <2>2. r \in data_files[c]
    BY <1>1, <2>1 DEF SafeInv, Covered
  <2>3. QED
    BY <2>1, <2>2 DEF SafeInv, BatchInTable
<1>4. d \in cfs' /\ rows'[d] = rows[d]
  BY <1>2, <1>3 DEF DropFrozenCf, TypeOK, StoreTypeOK
<1>5. r \in RecordsIn(d)'
  BY <1>1, <1>4 DEF RecordsIn
<1>6. QED
  BY <1>4, <1>5 DEF OnDisk

(* Every step keeps what is safe safe.                                      *)
LEMMA TableGrows ==
  ASSUME TypeOK, [Next]_vars, NEW r \in Records, table[r] > 0
  PROVE  table'[r] > 0
<1> DEFINE sources(v) == {c \in CfName : v[c] > 0 /\ r \in data_files[c]}
<1>1. ASSUME NEW v PROVE WithFiles(v)[r] = table[r] + Cardinality(sources(v))
  BY DEF WithFiles
<1>2. ASSUME NEW v PROVE Cardinality(sources(v)) \in Nat
  <2>1. sources(v) \in SUBSET CfName
    OBVIOUS
  <2> HIDE DEF sources
  <2>2. QED
    BY <2>1, CfNameFinite
<1>3. table[r] \in Nat
  BY DEF TypeOK, FlushTypeOK
<1> HIDE DEF sources
<1>4. \A v : WithFiles(v)[r] > 0
  BY <1>1, <1>2, <1>3
<1>5. table' = table \/ table' = WithFiles(batch)
  BY DEF Next, vars, Start, Sigterm, Drained, EmergencyFlush, StartFlush, CloseChannel, Exit, Crash,
         ResetFlush, Client, Hangup, Message, IngestTask, IngestTaskWrite, Timer, Notified, WakeUp,
         Shutdown, StopLoop, Flush, FlushRotate, FlushSwitch, FlushFail, FlushSpawn, NextRound,
         Acquire, AcquirePermit, Pipeline, Compile, SendCommit, PipelineFail, Committer, RecvBatch,
         CommitOk, CommitRetry, CommitFail, AttemptFails, DropOne, CommitterEnds, CommitterExit,
         Halted, flushVars, commitVars
<1>6. QED
  BY <1>4, <1>5

LEMMA LateGrows == ASSUME [Next]_vars PROVE late \subseteq late'
BY DEF Next, vars, Start, Sigterm, Drained, EmergencyFlush, CloseChannel, Exit, Crash, Client,
       Hangup, Message, IngestTask, IngestTaskWrite, Timer, Notified, Shutdown, Flush, Acquire,
       Pipeline, Committer, CommitterEnds, Halted

LEMMA StaysSafe ==
  ASSUME Noticed, TypeOK, TypeOK', CustodyInv, KeysInv, SafeInv, [Next]_vars,
         NEW r \in Records, Safe(r)
  PROVE  Safe(r)'
<1>0. late \subseteq late' /\ (table[r] > 0 => table'[r] > 0)
  BY LateGrows, TableGrows
<1>1. CASE cfs \subseteq cfs'
  BY <1>0, <1>1, RowsGrow, DiskGrows, SafeKept
<1>2. ASSUME NEW c \in CfName, DropOne(c), DropFrozenCf(c), UNCHANGED late PROVE Safe(r)'
  BY <1>2, DropSafe
<1>3. QED
  BY <1>1, <1>2, RowsStep, WriteGrows DEF IngestTaskWrite, IngestWrite

(* A stream that is about to acknowledge has written its record.            *)
Pending == {"wrote", "counted", "done", "full"}

LEMMA AppendSteps ==
  ASSUME TypeOK, KeysInv, [Next]_vars, NEW s \in Streams, append_pc'[s] \in Pending
  PROVE  value'[s] = value[s] /\ (append_pc[s] \in Pending \/ IngestTaskWrite(s))
<1> DEFINE Goal == value'[s] = value[s] /\ (append_pc[s] \in Pending \/ IngestTaskWrite(s))
<1> USE DEF Pending
<1>1. CASE UNCHANGED appendVars
  BY <1>1 DEF appendVars
<1>2. CASE Start
  BY <1>1, <1>2 DEF Start, Open
<1>3. CASE Exit \/ Crash
  BY <1>3 DEF Exit, Crash, ForgetStore
<1>4. ASSUME NEW t \in Streams, Message(t) \/ IngestTask(t) PROVE Goal
  BY <1>4 DEF Message, Ingest, AppendStart, IngestTask, IngestAppend, AppendFail, AppendCount,
              AppendReturn, Reply, AppendForget, TypeOK, StoreTypeOK
<1>5. ASSUME NEW t \in Streams, IngestTaskWrite(t) PROVE Goal
  BY <1>5 DEF IngestTaskWrite, IngestWrite, AppendWrite, TypeOK, StoreTypeOK
<1>6. CASE \/ Sigterm \/ Drained \/ CloseChannel \/ Halted \/ UNCHANGED vars \/ Client
           \/ \E t \in Streams : Hangup(t)
  <2>1. UNCHANGED storeVars
    BY <1>6 DEF Sigterm, Drained, CloseChannel, Halted, vars, Client, FlushNow, Connect, Hangup,
                Disconnect
  <2>2. QED
    BY <1>1, <2>1 DEF storeVars
<1>7. CASE EmergencyFlush \/ Timer \/ Notified \/ Shutdown \/ Flush
  <2>1. CASE FlushRotate \/ FlushSwitch
    BY <1>1, <2>1 DEF FlushRotate, RotateCreate, FlushSwitch, RotateSwitch
  <2>2. CASE StartFlush \/ StopLoop \/ FlushFail \/ FlushSpawn \/ NextRound
    BY <1>1, <2>2, StoreQuiet
  <2>3. QED
    BY <1>7, <2>1, <2>2 DEF EmergencyFlush, Timer, Notified, WakeUp, Shutdown, Flush
<1>8. CASE (\E c \in CfName : Acquire(c) \/ Pipeline(c)) \/ Committer \/ CommitterEnds
  <2>1. ASSUME NEW c \in CfName, DropOne(c) PROVE Goal
    BY <1>1, <2>1 DEF DropOne, DropFrozenCf, storeVars
  <2>2. CASE \/ \E c \in CfName : AcquirePermit(c) \/ Compile(c) \/ SendCommit(c) \/ PipelineFail(c)
             \/ RecvBatch \/ CommitOk \/ CommitRetry \/ CommitFail \/ CommitterExit
    BY <1>1, <2>2, StoreQuiet
  <2>3. QED
    BY <1>8, <2>1, <2>2 DEF Acquire, Pipeline, Committer, CommitterEnds
<1>9. QED
  BY <1>2, <1>3, <1>4, <1>5, <1>6, <1>7, <1>8 DEF Next

LEMMA PendingNext ==
  ASSUME Noticed, TypeOK, TypeOK', ValuesOK, CustodyInv, KeysInv, SafeInv, [Next]_vars
  PROVE  PendingSafe'
<1> SUFFICES ASSUME NEW s \in Streams, append_pc'[s] \in Pending PROVE Safe(value[s])'
  BY AppendSteps DEF PendingSafe, Pending, Safe, Deliverable
<1>1. CASE append_pc[s] \in Pending
  <2>1. value[s] \in Records /\ Safe(value[s])
    BY <1>1 DEF ValuesOK, SafeInv, PendingSafe, Pending
  <2>2. value'[s] = value[s]
    BY AppendSteps
  <2>3. QED
    BY <2>1, <2>2, StaysSafe DEF Safe, Deliverable
<1>2. CASE IngestTaskWrite(s)
  <2>1. Up /\ AppendWrite(s) /\ value'[s] = value[s]
    BY <1>2, TasksUp DEF IngestTaskWrite, IngestWrite, AppendWrite
  <2>2. PICK c \in CfName : c = cf_name[s]
    BY <2>1, WriteGrows
  <2>3. <<counter, value[s]>> \in rows'[c] /\ c \in cfs'
    BY <2>1, <2>2, WriteGrows
  <2>4. value'[s] \in RecordsIn(c)'
    BY <2>1, <2>3 DEF RecordsIn
  <2>5. value'[s] \in OnDisk'
    BY <2>3, <2>4 DEF OnDisk
  <2>6. QED
    BY <2>5 DEF Safe
<1>3. QED
  BY <1>1, <1>2, AppendSteps

LEMMA AckedNext ==
  ASSUME Noticed, TypeOK, TypeOK', ValuesOK, CustodyInv, KeysInv, SafeInv, [Next]_vars
  PROVE  AckedSafe'
<1>1. acked' = acked \/ \E s \in Streams : append_pc[s] \in Pending /\ acked' = acked \cup {value[s]}
  BY DEF Next, vars, Start, Sigterm, Drained, EmergencyFlush, CloseChannel, Exit, Crash, ForgetGrpc,
         Client, FlushNow, Connect, Hangup, Disconnect, Message, Ingest, IngestTask, IngestAppend,
         Reply, Acknowledges, Pending, IngestTaskWrite, IngestWrite, Timer, Notified, Shutdown,
         Flush, Acquire, Pipeline, Committer, CommitterEnds, Halted, grpcVars
<1>2. ASSUME NEW r \in acked' PROVE r \in Records /\ Safe(r)
  BY <1>1, <1>2 DEF SafeInv, AckedSafe, PendingSafe, Pending, Safe, ValuesOK, TypeOK, GrpcTypeOK
<1>3. ASSUME NEW r \in acked' PROVE Safe(r)'
  BY <1>2, <1>3, StaysSafe
<1>4. QED
  BY <1>3 DEF AckedSafe, Safe

(* One place at most holds the name of a CF.                                *)
LEMMA SoleHolder ==
  ASSUME TypeOK, CustodyInv, NEW c \in CfName
  PROVE  /\ batch[c] > 0 => batch[c] = 1 /\ compiling[c] = 0 /\ encoded[c] = 0 /\ commit_queue[c] = 0
         /\ compiling[c] > 0 => encoded[c] = 0 /\ commit_queue[c] = 0 /\ batch[c] = 0
         /\ encoded[c] > 0 => encoded[c] = 1 /\ commit_queue[c] = 0 /\ batch[c] = 0
<1>1. /\ orphaned_cfs[c] \in Nat /\ cfs_to_flush[c] \in Nat /\ waiting[c] \in Nat
      /\ compiling[c] \in Nat /\ encoded[c] \in Nat /\ commit_queue[c] \in Nat /\ batch[c] \in Nat
  BY HeldType
<1>2. Held(c) <= 1
  BY DEF CustodyInv, Custody
<1>3. QED
  BY <1>1, <1>2 DEF Held

(* The data files of a CF go on covering it when nothing about it changes.  *)
CoveredAt(c) == Snapshotted(c) => \A r \in RecordsIn(c) : Deliverable(r) => r \in data_files[c]

LEMMA CoveredKept ==
  ASSUME Covered, [Next]_vars, NEW c \in CfName, Snapshotted(c)' => Snapshotted(c),
         data_files'[c] = data_files[c], rows'[c] = rows[c]
  PROVE  CoveredAt(c)'
<1>1. late \subseteq late'
  BY LateGrows
<1>2. RecordsIn(c)' = RecordsIn(c)
  BY DEF RecordsIn
<1>3. QED
  BY <1>1, <1>2 DEF Covered, CoveredAt, Deliverable

LEMMA CoveredWrite ==
  ASSUME TypeOK, KeysInv, Up, SafeInv, [Next]_vars, NEW s \in Streams, IngestTaskWrite(s),
         NEW c \in CfName
  PROVE  CoveredAt(c)'
<1>1. AppendWrite(s) /\ UNCHANGED flushVars
  BY DEF IngestTaskWrite, IngestWrite
<1>2. Snapshotted(c)' = Snapshotted(c) /\ data_files' = data_files
  BY <1>1 DEF Snapshotted, flushVars, pipeVars, commitVars
<1>3. CASE c # cf_name[s]
  BY <1>1, <1>2, <1>3, WriteGrows, CoveredKept DEF SafeInv
<1>4. CASE c = cf_name[s]
  <2>1. RecordsIn(c)' \subseteq RecordsIn(c) \cup {value[s]}
    BY <1>1, <1>4, WriteGrows DEF RecordsIn
  <2>2. Snapshotted(c) => value[s] \in late'
    BY <1>4 DEF IngestTaskWrite
  <2>3. late \subseteq late'
    BY LateGrows
  <2>4. QED
    BY <1>2, <2>1, <2>2, <2>3 DEF SafeInv, Covered, CoveredAt, Deliverable
<1>5. QED
  BY <1>3, <1>4

LEMMA CoveredPipeline ==
  ASSUME Noticed, TypeOK, TypeOK', CustodyInv, SafeInv, [Next]_vars, NEW c \in CfName,
         AcquirePermit(c) \/ Compile(c) \/ SendCommit(c) \/ PipelineFail(c), NEW d \in CfName
  PROVE  CoveredAt(d)'
<1>0. rows' = rows
  BY StoreQuiet DEF diskVars
<1>1. CASE AcquirePermit(c)
  BY <1>0, <1>1, CoveredKept DEF AcquirePermit, Snapshotted, commitVars, SafeInv
<1>2. CASE Compile(c)
  <2>1. CASE d # c
    BY <1>0, <1>2, <2>1, CoveredKept
       DEF Compile, Add, Snapshotted, commitVars, SafeInv, TypeOK, FlushTypeOK
  <2>2. CASE d = c
    <3>1. data_files'[c] = {row[2] : row \in rows[c]} \ Malformed
      BY <1>2 DEF Compile, RowsRead, Parsed, Fault, Noticed, TypeOK, FlushTypeOK
    <3>2. QED
      BY <1>0, <2>2, <3>1 DEF CoveredAt, RecordsIn, Deliverable
  <2>3. QED
    BY <2>1, <2>2
<1>3. CASE SendCommit(c)
  BY <1>0, <1>3, CoveredKept, HeldType
     DEF SendCommit, Add, Remove, Snapshotted, commitVars, SafeInv, TypeOK, FlushTypeOK
<1>4. CASE PipelineFail(c)
  <2>1. CASE d # c
    BY <1>0, <1>4, <2>1, CoveredKept
       DEF PipelineFail, CompileAborts, Remove, Snapshotted, commitVars, SafeInv, TypeOK, FlushTypeOK
  <2>2. CASE d = c
    <3>1. encoded'[c] = 0 /\ commit_queue'[c] = 0 /\ batch'[c] = 0
      BY <1>4, SoleHolder DEF PipelineFail, CompileAborts, Remove, commitVars, TypeOK, FlushTypeOK
    <3>2. ~Snapshotted(c)'
      BY <3>1 DEF Snapshotted
    <3>3. QED
      BY <2>2, <3>2 DEF CoveredAt
  <2>3. QED
    BY <2>1, <2>2
<1>5. QED
  BY <1>1, <1>2, <1>3, <1>4

LEMMA CoveredCommitter ==
  ASSUME TypeOK, TypeOK', CustodyInv, SafeInv, [Next]_vars, NEW d \in CfName,
         \/ RecvBatch \/ CommitOk \/ CommitRetry \/ CommitFail \/ CommitterExit
         \/ \E c \in CfName : DropOne(c)
  PROVE  CoveredAt(d)'
<1>1. CASE RecvBatch
  <2>1. batch[d] = 0
    BY <1>1 DEF RecvBatch, CustodyInv, ListsInUse, None
  <2>2. QED
    BY <1>1, <2>1, HeldType, CoveredKept, StoreQuiet
       DEF RecvBatch, None, Snapshotted, SafeInv, pipeVars, diskVars
<1>2. CASE CommitOk \/ CommitRetry \/ CommitterExit
  BY <1>2, CoveredKept, StoreQuiet
     DEF CommitOk, CommitRetry, CommitterExit, Snapshotted, SafeInv, pipeVars, diskVars
<1>3. CASE CommitFail
  <2>0. rows' = rows /\ UNCHANGED <<encoded, commit_queue>> /\ batch'[d] = 0
    BY <1>3, StoreQuiet DEF CommitFail, EndBatch, None, diskVars
  <2>1. CASE batch[d] > 0
    <3>1. encoded[d] = 0 /\ commit_queue[d] = 0
      BY <2>1, SoleHolder
    <3>2. ~Snapshotted(d)'
      BY <2>0, <3>1 DEF Snapshotted
    <3>3. QED
      BY <3>2 DEF CoveredAt
  <2>2. CASE ~(batch[d] > 0)
    BY <1>3, <2>0, <2>2, HeldType, CoveredKept DEF CommitFail, EndBatch, Snapshotted, SafeInv
  <2>3. QED
    BY <2>1, <2>2
<1>4. ASSUME NEW c \in CfName, DropOne(c) PROVE CoveredAt(d)'
  <2>0. UNCHANGED <<encoded, commit_queue>> /\ batch'[d] = IF d = c THEN batch[d] - 1 ELSE batch[d]
    BY <1>4 DEF DropOne, Remove, TypeOK, FlushTypeOK
  <2>1. CASE d = c
    <3>1. encoded[d] = 0 /\ commit_queue[d] = 0 /\ batch[d] = 1
      BY <1>4, <2>1, SoleHolder DEF DropOne
    <3>2. ~Snapshotted(d)'
      BY <2>0, <2>1, <3>1 DEF Snapshotted
    <3>3. QED
      BY <3>2 DEF CoveredAt
  <2>2. CASE d # c
    BY <1>4, <2>0, <2>2, CoveredKept
       DEF DropOne, DropFrozenCf, Snapshotted, SafeInv, TypeOK, StoreTypeOK, FlushTypeOK, storeVars,
           diskVars
  <2>3. QED
    BY <2>1, <2>2
<1>5. QED
  BY <1>1, <1>2, <1>3, <1>4

LEMMA CoveredNext ==
  ASSUME Noticed, TypeOK, TypeOK', CustodyInv, KeysInv, SafeInv, [Next]_vars
  PROVE  Covered'
<1> SUFFICES ASSUME NEW c \in CfName PROVE CoveredAt(c)'
  BY DEF Covered, CoveredAt
<1>1. CASE Start \/ Exit \/ Crash
  BY <1>1 DEF Start, Exit, Crash, ResetFlush, None, CoveredAt, Snapshotted
<1>2. CASE \/ Sigterm \/ Drained \/ CloseChannel \/ Halted \/ UNCHANGED vars \/ Client
           \/ \E s \in Streams : Hangup(s) \/ Message(s) \/ IngestTask(s)
  <2>1. rows' = rows /\ UNCHANGED <<encoded, commit_queue, batch, data_files>>
    BY <1>2 DEF Sigterm, Drained, CloseChannel, Halted, vars, Client, FlushNow, Connect, Hangup,
                Disconnect, Message, Ingest, AppendStart, IngestTask, IngestAppend, AppendFail,
                AppendCount, AppendReturn, Reply, AppendForget, storeVars, diskVars, flushVars,
                pipeVars, commitVars
  <2>2. QED
    BY <2>1, CoveredKept DEF Snapshotted, SafeInv
<1>3. ASSUME NEW s \in Streams, IngestTaskWrite(s) PROVE CoveredAt(c)'
  BY <1>3, TasksUp, CoveredWrite
<1>4. CASE EmergencyFlush \/ Timer \/ Notified \/ Shutdown \/ Flush
  <2>1. rows' = rows /\ UNCHANGED <<encoded, commit_queue, batch, data_files>>
    BY <1>4 DEF EmergencyFlush, Timer, Notified, WakeUp, StartFlush, TakeOrphanedCfs, Shutdown,
                StopLoop, Flush, FlushRotate, RotateCreate, FlushSwitch, RotateSwitch, FlushFail,
                FlushSpawn, NextRound, storeVars, diskVars, pipeVars, commitVars
  <2>2. QED
    BY <2>1, CoveredKept DEF Snapshotted, SafeInv
<1>5. CASE \E d \in CfName : Acquire(d) \/ Pipeline(d)
  BY <1>5, CoveredPipeline DEF Acquire, Pipeline
<1>6. CASE Committer \/ CommitterEnds
  BY <1>6, CoveredCommitter DEF Committer, CommitterEnds
<1>7. QED
  BY <1>1, <1>2, <1>3, <1>4, <1>5, <1>6 DEF Next

(* A commit that succeeds puts every record of the batch into the table.    *)
LEMMA CommitAdds ==
  ASSUME TypeOK, NEW c \in CfName, batch[c] > 0, NEW r \in data_files[c]
  PROVE  WithFiles(batch)[r] > 0
<1> DEFINE sources == {d \in CfName : batch[d] > 0 /\ r \in data_files[d]}
<1>1. r \in Records /\ table[r] \in Nat
  BY DEF TypeOK, FlushTypeOK
<1>2. WithFiles(batch)[r] = table[r] + Cardinality(sources)
  BY <1>1 DEF WithFiles
<1>3. sources \in SUBSET CfName /\ sources # {}
  OBVIOUS
<1> HIDE DEF sources
<1>4. Cardinality(sources) \in Nat /\ Cardinality(sources) # 0
  BY <1>3, CfNameFinite, FS_EmptySet
<1>5. QED
  BY <1>1, <1>2, <1>4

LEMMA BatchNext ==
  ASSUME TypeOK, TypeOK', CustodyInv, SafeInv, [Next]_vars
  PROVE  BatchInTable'
<1> SUFFICES ASSUME committer' = "drop", NEW c \in CfName, batch'[c] > 0, NEW r \in data_files'[c]
             PROVE  table'[r] > 0
  BY DEF BatchInTable
<1>1. CASE RecvBatch
  BY <1>1 DEF RecvBatch, BatchRecords, pipeVars
<1>2. CASE CommitOk
  BY <1>2, CommitAdds DEF CommitOk, pipeVars
<1>3. CASE \E d \in CfName : DropOne(d)
  BY <1>3 DEF DropOne, Remove, SafeInv, BatchInTable, TypeOK, FlushTypeOK
<1>4. CASE CommitRetry \/ CommitFail \/ CommitterExit \/ Start \/ Exit \/ Crash
  BY <1>4 DEF CommitRetry, CommitFail, EndBatch, CommitterExit, Start, Exit, Crash, ResetFlush
<1>5. CASE UNCHANGED <<data_files, commitVars>>
  BY <1>5 DEF SafeInv, BatchInTable, commitVars
<1>6. ASSUME NEW d \in CfName, AcquirePermit(d) \/ Compile(d) \/ SendCommit(d) \/ PipelineFail(d)
      PROVE  table'[r] > 0
  <2>1. UNCHANGED commitVars
    BY <1>6 DEF AcquirePermit, Compile, SendCommit, PipelineFail
  <2>2. CASE AcquirePermit(d) \/ SendCommit(d)
    BY <1>5, <2>1, <2>2 DEF AcquirePermit, SendCommit
  <2>3. CASE Compile(d)
    <3>1. c # d
      BY <2>1, <2>3, SoleHolder DEF Compile, commitVars
    <3>2. QED
      BY <2>1, <2>3, <3>1 DEF Compile, SafeInv, BatchInTable, commitVars, TypeOK, FlushTypeOK
  <2>4. CASE PipelineFail(d)
    BY <2>1, <2>4 DEF PipelineFail, CompileAborts, SafeInv, BatchInTable, commitVars, TypeOK,
                      FlushTypeOK
  <2>5. QED
    BY <1>6, <2>2, <2>3, <2>4
<1>7. CASE \/ Sigterm \/ Drained \/ CloseChannel \/ Halted \/ UNCHANGED vars \/ Client
           \/ \E s \in Streams : Hangup(s) \/ Message(s) \/ IngestTask(s) \/ IngestTaskWrite(s)
           \/ EmergencyFlush \/ Timer \/ Notified \/ Shutdown \/ Flush
  <2>1. UNCHANGED <<data_files, commitVars>>
    BY <1>7 DEF Sigterm, Drained, CloseChannel, Halted, vars, Client, Hangup, Message, IngestTask,
                IngestTaskWrite, EmergencyFlush, Timer, Notified, WakeUp, StartFlush, Shutdown,
                StopLoop, Flush, FlushRotate, FlushSwitch, FlushFail, FlushSpawn, NextRound,
                flushVars, pipeVars
  <2>2. QED
    BY <1>5, <2>1
<1>8. QED
  BY <1>1, <1>2, <1>3, <1>4, <1>6, <1>7 DEF Next, Acquire, Pipeline, Committer, CommitterEnds

(* No acknowledged record that parses and was not written behind a snapshot *)
(* is ever lost, for any number of records, streams, CFs, retries, faults   *)
(* and restarts, unless an iterator fails where RocksStore::new or          *)
(* compile_cf_pipeline does not look, or an unsynced write is lost with the *)
(* machine.                                                                 *)
THEOREM AckedSafeCorrect ==
  ASSUME Reliable
  PROVE  Spec => []AckedSafe
<1> DEFINE Inv == TypeOK /\ ValuesOK /\ CustodyInv /\ KeysInv /\ SafeInv
<1>1. Init => Inv
  BY InitTypes, CustodyInit, KeysInit, SafeInit
<1>2. Inv /\ [Next]_vars => Inv'
  <2> SUFFICES ASSUME Inv, [Next]_vars PROVE Inv'
    OBVIOUS
  <2>0. Noticed
    BY ReliableNoticed
  <2>1. TypeOK' /\ ValuesOK' /\ CustodyInv' /\ KeysInv'
    BY <2>0, NextTypes, CustodyNext, KeysNext
  <2>2. SafeInv'
    BY <2>0, <2>1, AckedNext, PendingNext, CoveredNext, BatchNext DEF SafeInv
  <2>3. QED
    BY <2>1, <2>2
<1>3. Inv => AckedSafe
  BY DEF SafeInv
<1>4. QED
  BY <1>1, <1>2, <1>3, PTL DEF Spec
==============================================================================
