---------------------------- MODULE CustodyProofs ----------------------------
(***************************************************************************)
(* Custody of the frozen column families, for every value of the constants.*)
(***************************************************************************)
EXTENDS EngineProofs

(* Custody is inductive together with where the names may be at all: the    *)
(* local list of do_flush and the batch of the committer are in use only    *)
(* while these run, a rotation under way has made a CF that nobody holds,   *)
(* and a process that is not up holds nothing.                              *)
ListsInUse ==
  /\ flush_pc \in {"idle", "returned"} => cfs_to_flush = None
  /\ committer \in {"recv", "exited"} => batch = None

RotationOK ==
  /\ rotating # NoCf <=> flush_pc = "switch"
  /\ rotating # NoCf => rotating \in cfs /\ rotating # active_cf

ProcessOK ==
  /\ Up => active_cf \in cfs
  /\ ~Up => /\ loop_pc = "stopped" /\ flush_pc = "idle" /\ committer = "recv"
            /\ \A c \in CfName : Held(c) = 0

CustodyInv == Custody /\ ListsInUse /\ RotationOK /\ ProcessOK

(* What CustodyInv speaks about.                                            *)
custodyVars == <<cfs, active_cf, rotating, orphaned_cfs, cfs_to_flush, waiting, compiling, encoded,
                 commit_queue, batch, loop_pc, flush_pc, committer>>

LEMMA CustodyInit == Init => CustodyInv
<1> SUFFICES ASSUME Init PROVE CustodyInv
  OBVIOUS
<1>1. \A c \in CfName : Held(c) = 0
  BY DEF Init, StoreInit, FlushInit, Held, None
<1>2. QED
  BY <1>1 DEF Init, StoreInit, FlushInit, CustodyInv, Custody, ListsInUse, RotationOK,
              ProcessOK, Up, NoCf

LEMMA CustodyUnchanged ==
  ASSUME CustodyInv, UNCHANGED custodyVars, Up' = Up
  PROVE  CustodyInv'
BY DEF CustodyInv, Custody, ListsInUse, RotationOK, ProcessOK, Held, custodyVars

(* The names in each place are counted by natural numbers.                  *)
LEMMA HeldType ==
  ASSUME TypeOK, NEW c \in CfName
  PROVE  /\ orphaned_cfs[c] \in Nat /\ cfs_to_flush[c] \in Nat /\ waiting[c] \in Nat
         /\ compiling[c] \in Nat /\ encoded[c] \in Nat /\ commit_queue[c] \in Nat
         /\ batch[c] \in Nat /\ Held(c) \in Nat
BY DEF TypeOK, StoreTypeOK, FlushTypeOK, Held

LEMMA HeldTypeNext ==
  ASSUME TypeOK', NEW c \in CfName
  PROVE  /\ orphaned_cfs'[c] \in Nat /\ cfs_to_flush'[c] \in Nat /\ waiting'[c] \in Nat
         /\ compiling'[c] \in Nat /\ encoded'[c] \in Nat /\ commit_queue'[c] \in Nat
         /\ batch'[c] \in Nat /\ Held(c)' \in Nat
BY DEF TypeOK, StoreTypeOK, FlushTypeOK, Held

(* A step that moves names about without adding any, and touches neither    *)
(* the CFs nor the active one, preserves custody.                           *)
LEMMA CustodyMoves ==
  ASSUME TypeOK, TypeOK', CustodyInv, Up, Up',
         UNCHANGED <<cfs, active_cf, rotating>>,
         \A c \in CfName : Held(c)' <= Held(c),
         ListsInUse',
         flush_pc' = "switch" <=> flush_pc = "switch"
  PROVE  CustodyInv'
<1>1. Custody'
  <2> SUFFICES ASSUME NEW c \in CfName
               PROVE  /\ Held(c)' <= 1
                      /\ Held(c)' = 1 => c \in cfs' /\ c # active_cf' /\ c # rotating'
    BY DEF Custody
  <2>1. Held(c) \in Nat /\ Held(c)' \in Nat
    BY HeldType, HeldTypeNext
  <2>2. QED
    BY <2>1 DEF CustodyInv, Custody
<1>2. QED
  BY <1>1 DEF CustodyInv, RotationOK, ProcessOK

----------------------------------------------------------------------------
(* Steps of do_flush and of the loop that runs it.                          *)
LEMMA CustodyFlush ==
  ASSUME TypeOK, TypeOK', CustodyInv, Up, Up',
         \/ StartFlush \/ StopLoop \/ FlushRotate \/ FlushSwitch \/ FlushFail
         \/ FlushSpawn \/ NextRound
  PROVE  CustodyInv'
<1>1. CASE StartFlush
  <2>1. \A c \in CfName : Held(c)' <= Held(c)
    <3> TAKE c \in CfName
    <3>1. cfs_to_flush[c] = 0
      BY <1>1 DEF StartFlush, CustodyInv, ListsInUse, None
    <3>2. QED
      BY <1>1, <3>1, HeldType DEF StartFlush, TakeOrphanedCfs, Held, None, pipeVars, commitVars
  <2>2. QED
    BY <1>1, <2>1, CustodyMoves
       DEF StartFlush, TakeOrphanedCfs, CustodyInv, ListsInUse, diskVars, commitVars
<1>2. CASE StopLoop
  <2>1. \A c \in CfName : Held(c)' <= Held(c)
    BY <1>2, HeldType DEF StopLoop, Held, storeVars, pipeVars, commitVars
  <2>2. QED
    BY <1>2, <2>1, CustodyMoves
       DEF StopLoop, CustodyInv, ListsInUse, storeVars, diskVars, commitVars
<1>3. CASE FlushRotate
  <2>1. PICK n \in CfName : RotateCreate(n)
    BY <1>3 DEF FlushRotate
  <2>2. n \notin cfs /\ n \in Nat
    BY <2>1 DEF RotateCreate, NewName, Fresh, CfName
  <2>3. \A c \in CfName : Held(c)' = Held(c)
    BY <1>3, <2>1 DEF FlushRotate, RotateCreate, Held, pipeVars, commitVars
  <2>4. Custody'
    BY <2>1, <2>2, <2>3 DEF RotateCreate, CustodyInv, Custody
  <2>5. RotationOK' /\ ProcessOK'
    BY <1>3, <2>1, <2>2 DEF FlushRotate, RotateCreate, CustodyInv, RotationOK, ProcessOK, NoCf
  <2>6. QED
    BY <1>3, <2>4, <2>5 DEF FlushRotate, CustodyInv, ListsInUse, commitVars
<1>4. CASE FlushSwitch
  <2>0. active_cf \in CfName /\ active_cf \in cfs /\ rotating \in cfs /\ rotating # active_cf
        /\ rotating \in CfName
    BY <1>4 DEF FlushSwitch, RotateSwitch, CustodyInv, RotationOK, ProcessOK, TypeOK, StoreTypeOK
  <2>1. ASSUME NEW c \in CfName
        PROVE  Held(c)' = IF c = active_cf THEN Held(c) + 1 ELSE Held(c)
    BY <1>4, <2>0, HeldType DEF FlushSwitch, RotateSwitch, Add, Held, pipeVars, commitVars,
                                TypeOK, FlushTypeOK
  <2>2. Held(active_cf) = 0 /\ Held(rotating) = 0
    BY <2>0, HeldType DEF CustodyInv, Custody
  <2>3. Custody'
    BY <1>4, <2>0, <2>1, <2>2, HeldType
       DEF FlushSwitch, RotateSwitch, CustodyInv, Custody, diskVars, NoCf, CfName
  <2>4. RotationOK' /\ ProcessOK'
    BY <1>4, <2>0 DEF FlushSwitch, RotateSwitch, RotationOK, ProcessOK, diskVars
  <2>5. QED
    BY <1>4, <2>3, <2>4 DEF FlushSwitch, CustodyInv, ListsInUse, commitVars
<1>5. CASE FlushFail
  <2>1. \A c \in CfName : Held(c)' <= Held(c)
    BY <1>5, HeldType DEF FlushFail, Held, None, storeVars, pipeVars, commitVars
  <2>2. QED
    BY <1>5, <2>1, CustodyMoves
       DEF FlushFail, CustodyInv, ListsInUse, storeVars, diskVars, commitVars
<1>6. CASE FlushSpawn
  <2>1. \A c \in CfName : Held(c)' <= Held(c)
    BY <1>6, HeldType DEF FlushSpawn, Held, None, Join, storeVars, commitVars
  <2>2. QED
    BY <1>6, <2>1, CustodyMoves
       DEF FlushSpawn, CustodyInv, ListsInUse, storeVars, diskVars, commitVars
<1>7. CASE NextRound
  <2>1. \A c \in CfName : Held(c)' <= Held(c)
    BY <1>7, HeldType DEF NextRound, Held, storeVars, pipeVars, commitVars
  <2>2. QED
    BY <1>7, <2>1, CustodyMoves
       DEF NextRound, CustodyInv, ListsInUse, storeVars, diskVars, commitVars
<1>8. QED
  BY <1>1, <1>2, <1>3, <1>4, <1>5, <1>6, <1>7

(* Steps of a pipeline hand the name on, give it back or lose it.           *)
LEMMA CustodyPipeline ==
  ASSUME TypeOK, TypeOK', CustodyInv, Up, Up', NEW c \in CfName,
         AcquirePermit(c) \/ Compile(c) \/ SendCommit(c) \/ PipelineFail(c)
  PROVE  CustodyInv'
<1>1. \A d \in CfName : Held(d)' <= Held(d)
  <2> TAKE d \in CfName
  <2>0. FlushTypeOK /\ StoreTypeOK
    BY DEF TypeOK
  <2>1. CASE AcquirePermit(c)
    BY <2>0, <2>1, HeldType DEF AcquirePermit, Add, Remove, Held, FlushTypeOK, storeVars, loopVars,
                                commitVars
  <2>2. CASE Compile(c)
    BY <2>0, <2>2, HeldType DEF Compile, Add, Remove, Held, FlushTypeOK, storeVars, loopVars,
                                commitVars
  <2>3. CASE SendCommit(c)
    BY <2>0, <2>3, HeldType DEF SendCommit, Add, Remove, Held, FlushTypeOK, storeVars, loopVars,
                                commitVars
  <2>4. CASE PipelineFail(c)
    <3>1. orphaned_cfs'[d] <= orphaned_cfs[d] + (IF d = c THEN 1 ELSE 0)
      BY <2>4, HeldType DEF PipelineFail, RetainOnError, RetainFrozenCfs, Join, Of, storeVars
    <3>2. compiling'[d] + encoded'[d] = compiling[d] + encoded[d] - (IF d = c THEN 1 ELSE 0)
      BY <2>0, <2>4, HeldType DEF PipelineFail, CompileAborts, Remove, FlushTypeOK
    <3>3. QED
      BY <2>4, <3>1, <3>2, HeldType, HeldTypeNext DEF PipelineFail, Held, loopVars, commitVars
  <2>5. QED
    BY <2>1, <2>2, <2>3, <2>4
<1>2. UNCHANGED <<cfs, active_cf, rotating, flush_pc, cfs_to_flush, committer, batch>>
  BY DEF AcquirePermit, Compile, SendCommit, PipelineFail, RetainOnError, RetainFrozenCfs,
         storeVars, diskVars, loopVars, commitVars
<1>3. QED
  BY <1>1, <1>2, CustodyMoves DEF CustodyInv, ListsInUse

(* Steps of the committer: a batch is retained, or dropped CF by CF.        *)
LEMMA CustodyCommitter ==
  ASSUME TypeOK, TypeOK', CustodyInv, Up, Up',
         \/ RecvBatch \/ CommitOk \/ CommitRetry \/ CommitFail \/ CommitterExit
         \/ \E c \in CfName : DropOne(c)
  PROVE  CustodyInv'
<1>1. CASE RecvBatch
  <2>1. \A c \in CfName : Held(c)' <= Held(c)
    <3> TAKE c \in CfName
    <3>1. batch[c] = 0
      BY <1>1 DEF RecvBatch, CustodyInv, ListsInUse, None
    <3>2. QED
      BY <1>1, <3>1, HeldType DEF RecvBatch, Held, None, storeVars, loopVars, pipeVars
  <2>2. QED
    BY <1>1, <2>1, CustodyMoves
       DEF RecvBatch, CustodyInv, ListsInUse, storeVars, diskVars, loopVars
<1>2. CASE CommitOk \/ CommitRetry \/ CommitterExit
  <2>1. \A c \in CfName : Held(c)' <= Held(c)
    BY <1>2, HeldType DEF CommitOk, CommitRetry, CommitterExit, Held, storeVars, loopVars, pipeVars
  <2>2. QED
    BY <1>2, <2>1, CustodyMoves DEF CommitOk, CommitRetry, CommitterExit, CustodyInv, ListsInUse,
                                    storeVars, diskVars, loopVars, pipeVars
<1>3. CASE CommitFail
  <2>1. \A c \in CfName : Held(c)' <= Held(c)
    BY <1>3, HeldType DEF CommitFail, EndBatch, RetainFrozenCfs, Join, None, Held, loopVars
  <2>2. QED
    BY <1>3, <2>1, CustodyMoves DEF CommitFail, EndBatch, RetainFrozenCfs, CustodyInv, ListsInUse,
                                    diskVars, loopVars
<1>4. CASE \E c \in CfName : DropOne(c)
  <2>1. PICK c \in CfName : DropOne(c)
    BY <1>4
  <2>2. \A d \in CfName : Held(d)' = IF d = c THEN Held(d) - 1 ELSE Held(d)
    BY <2>1, HeldType DEF DropOne, DropFrozenCf, Remove, Held, TypeOK, FlushTypeOK, storeVars,
                          loopVars
  <2>3. Held(c) = 1 /\ Held(c)' = 0 /\ c # active_cf /\ c # rotating
    BY <2>1, <2>2, HeldType DEF DropOne, CustodyInv, Custody, Held
  <2>4. UNCHANGED <<active_cf, rotating, flush_pc, cfs_to_flush>> /\ cfs' \in {cfs, cfs \ {c}}
    BY <2>1 DEF DropOne, DropFrozenCf, storeVars, diskVars, loopVars
  <2>5. Custody'
    BY <2>2, <2>3, <2>4 DEF CustodyInv, Custody
  <2>6. RotationOK' /\ ProcessOK'
    BY <2>3, <2>4 DEF CustodyInv, RotationOK, ProcessOK
  <2>7. ListsInUse'
    BY <2>1, <2>4 DEF DropOne, CustodyInv, ListsInUse
  <2>8. QED
    BY <2>5, <2>6, <2>7 DEF CustodyInv
<1>5. QED
  BY <1>1, <1>2, <1>3, <1>4

(* A process that starts holds the CFs it found except the newest; one that *)
(* ends holds none.                                                         *)
LEMMA CustodyStart ==
  ASSUME TypeOK, TypeOK', CustodyInv, Start
  PROVE  CustodyInv'
<1>1. PICK n \in ListCf : \E k \in {0} \cup {row[1] : row \in rows[n]} : Open(n, k)
  BY DEF Start
<1>2. PICK k \in {0} \cup {row[1] : row \in rows[n]} : Open(n, k)
  BY <1>1
<1>3. \A c \in CfName : Held(c)' = IF c \in ListCf \ {n} THEN 1 ELSE 0
  BY <1>2 DEF Start, Open, Orphans, ResetFlush, Held, Of, None
<1>4. rotating = NoCf
  BY DEF Start, CustodyInv, ProcessOK, RotationOK
<1>5. UNCHANGED rotating /\ cfs' = ListCf /\ active_cf' = n
  BY <1>2 DEF Open
<1>6. Custody'
  BY <1>3, <1>4, <1>5 DEF Custody, NoCf, CfName
<1>7. QED
  BY <1>1, <1>4, <1>5, <1>6
     DEF Start, ResetFlush, CustodyInv, ListsInUse, RotationOK, ProcessOK, Up

LEMMA CustodyEnd ==
  ASSUME Exit \/ Crash
  PROVE  CustodyInv'
<1>1. \A c \in CfName : Held(c)' = 0
  BY DEF Exit, Crash, ForgetStore, ResetFlush, Held, None
<1>2. QED
  BY <1>1 DEF Exit, Crash, ForgetStore, ResetFlush, CustodyInv, Custody, ListsInUse, RotationOK,
              ProcessOK, Up

LEMMA CustodyNext == TypeOK /\ TypeOK' /\ CustodyInv /\ [Next]_vars => CustodyInv'
<1> SUFFICES ASSUME TypeOK, TypeOK', CustodyInv, [Next]_vars PROVE CustodyInv'
  OBVIOUS
<1>1. CASE Start
  BY <1>1, CustodyStart
<1>2. CASE Exit \/ Crash
  BY <1>2, CustodyEnd
<1>3. CASE Sigterm \/ Drained
  BY <1>3, CustodyUnchanged
     DEF Sigterm, Drained, Up, custodyVars, storeVars, diskVars, flushVars, loopVars, pipeVars,
         commitVars
<1>4. CASE EmergencyFlush
  BY <1>4, CustodyFlush DEF EmergencyFlush, Up
<1>5. CASE CloseChannel
  <2>1. \A c \in CfName : Held(c)' <= Held(c)
    BY <1>5, HeldType DEF CloseChannel, Held, storeVars, pipeVars, commitVars
  <2>2. QED
    BY <1>5, <2>1, CustodyMoves
       DEF CloseChannel, Up, CustodyInv, ListsInUse, storeVars, diskVars, commitVars
<1>6. CASE Client \/ \E s \in Streams : Hangup(s)
  <2>1. UNCHANGED <<storeVars, flushVars, main_pc>>
    BY <1>6 DEF Client, FlushNow, Connect, Hangup, Disconnect
  <2>2. QED
    BY <2>1, CustodyUnchanged
       DEF Up, custodyVars, storeVars, diskVars, flushVars, loopVars, pipeVars, commitVars
<1>7. ASSUME NEW s \in Streams, Message(s) \/ IngestTask(s) \/ IngestTaskWrite(s)
      PROVE  CustodyInv'
  <2>1. UNCHANGED <<flushVars, main_pc>>
    BY <1>7 DEF Message, IngestTask, IngestTaskWrite
  <2>2. UNCHANGED <<cfs, active_cf, rotating, orphaned_cfs>>
    BY <1>7 DEF Message, Ingest, AppendStart, IngestTask, IngestAppend, AppendFail, AppendCount,
                AppendReturn, Reply, AppendForget, IngestTaskWrite, IngestWrite, AppendWrite,
                diskVars
  <2>3. QED
    BY <2>1, <2>2, CustodyUnchanged
       DEF Up, custodyVars, flushVars, loopVars, pipeVars, commitVars
<1>8. CASE Timer \/ Notified \/ Shutdown \/ Flush
  <2>1. Up
    BY <1>8 DEF Timer, Notified, WakeUp, Shutdown, ShuttingDown, Flush, FlushRotate, FlushSwitch,
                FlushFail, FlushSpawn, NextRound, CustodyInv, ProcessOK
  <2>2. Up'
    BY <1>8, <2>1 DEF Timer, Notified, Shutdown, Flush, Up
  <2>3. QED
    BY <1>8, <2>1, <2>2, CustodyFlush DEF Timer, Notified, WakeUp, Shutdown, Flush
<1>9. ASSUME NEW c \in CfName, Acquire(c) \/ Pipeline(c)
      PROVE  CustodyInv'
  <2>1. Held(c) # 0
    BY <1>9, HeldType DEF Acquire, AcquirePermit, Pipeline, Compile, SendCommit, PipelineFail,
                          CompileAborts, Held
  <2>2. Up /\ Up'
    BY <1>9, <2>1 DEF CustodyInv, ProcessOK, Acquire, Pipeline, Up
  <2>3. QED
    BY <1>9, <2>2, CustodyPipeline DEF Acquire, Pipeline
<1>10. CASE Committer \/ CommitterEnds
  <2>1. ASSUME RecvBatch PROVE \E c \in CfName : Held(c) # 0
    <3>1. commit_queue = [c \in CfName |-> commit_queue[c]]
      BY DEF TypeOK, FlushTypeOK
    <3>2. commit_queue # None
      BY <2>1 DEF RecvBatch
    <3>3. PICK c \in CfName : commit_queue[c] # 0
      <4>1. SUFFICES ASSUME \A c \in CfName : commit_queue[c] = 0 PROVE FALSE
        OBVIOUS
      <4>2. [c \in CfName |-> commit_queue[c]] = [c \in CfName |-> 0]
        BY <4>1
      <4>3. QED
        BY <3>1, <3>2, <4>2 DEF None
    <3>4. Held(c) # 0
      BY <3>3, HeldType, SMT DEF Held
    <3>5. QED
      BY <3>4
  <2>2. Up /\ Up'
    BY <1>10, <2>1 DEF Committer, CommitterEnds, CommitOk, CommitRetry, CommitFail, DropOne,
                       CustodyInv, ProcessOK, Up
  <2>3. QED
    BY <1>10, <2>2, CustodyCommitter DEF Committer, CommitterEnds
<1>11. CASE Halted \/ UNCHANGED vars
  BY <1>11, CustodyUnchanged
     DEF Halted, vars, Up, custodyVars, storeVars, diskVars, flushVars, loopVars, pipeVars,
         commitVars
<1>12. QED
  BY <1>1, <1>2, <1>3, <1>4, <1>5, <1>6, <1>7, <1>8, <1>9, <1>10, <1>11 DEF Next

(* In every behaviour a frozen CF is in the hands of one flush at most, and *)
(* neither missing nor active while it is: whatever fails, and however      *)
(* flush cycles, pipelines and the committer overlap.                       *)
THEOREM CustodyCorrect == Spec => []Custody
<1>1. TypeOK /\ ValuesOK /\ CustodyInv /\ [Next]_vars
        => (TypeOK /\ ValuesOK /\ CustodyInv)'
  BY NextTypes, CustodyNext
<1>2. Spec => [](TypeOK /\ ValuesOK /\ CustodyInv)
  BY <1>1, InitTypes, CustodyInit, PTL DEF Spec
<1>3. CustodyInv => Custody
  BY DEF CustodyInv
<1>4. QED
  BY <1>2, <1>3, PTL
==============================================================================
