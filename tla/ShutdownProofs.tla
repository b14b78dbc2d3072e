--------------------------- MODULE ShutdownProofs ----------------------------
(***************************************************************************)
(* No frozen column family is forgotten while the engine runs, nobody      *)
(* sends to a committer that has gone, and an orderly exit leaves nothing  *)
(* acknowledged behind, for every value of the constants.                  *)
(***************************************************************************)
EXTENDS BufferProofs

(* What main has waited for at each point of the shutdown.                  *)
Joined ==
  /\ main_pc \in {"join", "emergency", "close"} => conn = {}
  /\ main_pc \in {"emergency", "close"} => loop_pc = "stopped"
  /\ main_pc = "close" => flush_pc = "idle"

(* Once the committer has exited no CF is on its way to it.                 *)
NobodyLeft ==
  committer = "exited" =>
    /\ main_pc = "close"
    /\ \A c \in CfName : Pipelines(c) = 0 /\ cfs_to_flush[c] = 0 /\ commit_queue[c] = 0

ShutdownInv == Joined /\ NobodyLeft

LEMMA ShutdownInit == Init => ShutdownInv
BY DEF Init, FlushInit, ShutdownInv, Joined, NobodyLeft

(* The pipelines of a CF are counted by natural numbers.                    *)
LEMMA NoPipeline ==
  ASSUME TypeOK, NEW c \in CfName, Pipelines(c) = 0
  PROVE  waiting[c] = 0 /\ compiling[c] = 0 /\ encoded[c] = 0
BY HeldType DEF Pipelines

LEMMA JoinedNext ==
  ASSUME ShutdownInv, [Next]_vars
  PROVE  Joined'
<1>1. CASE Start \/ Exit \/ Crash \/ Sigterm \/ Drained \/ EmergencyFlush \/ CloseChannel
  BY <1>1 DEF Start, Exit, Crash, Sigterm, Drained, EmergencyFlush, StartFlush, CloseChannel,
              ShutdownInv, Joined, storeVars, grpcVars, flushVars, loopVars
<1>2. CASE Client \/ Halted \/ UNCHANGED vars
  BY <1>2 DEF Client, Halted, vars, ShutdownInv, Joined, grpcVars, flushVars, loopVars
<1>3. ASSUME NEW s \in Streams, Hangup(s) \/ Message(s) \/ IngestTask(s) \/ IngestTaskWrite(s)
      PROVE  Joined'
  <2>1. UNCHANGED <<main_pc, loop_pc, flush_pc>> /\ conn' \subseteq conn
    BY <1>3 DEF Hangup, Disconnect, Message, Ingest, IngestTask, IngestAppend, Reply,
                IngestTaskWrite, IngestWrite, grpcVars, flushVars, loopVars
  <2> QED
    BY <2>1 DEF ShutdownInv, Joined
<1>4. CASE Timer \/ Notified \/ Shutdown
  BY <1>4 DEF Timer, Notified, WakeUp, Shutdown, StopLoop, ShutdownInv, Joined, grpcVars
<1>5. CASE Flush
  BY <1>5 DEF Flush, FlushRotate, FlushSwitch, FlushFail, FlushSpawn, NextRound, ShutdownInv,
              Joined, grpcVars
<1>6. CASE (\E c \in CfName : Acquire(c) \/ Pipeline(c)) \/ Committer \/ CommitterEnds
  <2>1. UNCHANGED <<main_pc, loop_pc, flush_pc, conn>>
    BY <1>6 DEF Acquire, AcquirePermit, Pipeline, Compile, SendCommit, PipelineFail, Committer,
                RecvBatch, CommitOk, CommitRetry, CommitFail, DropOne, CommitterEnds,
                CommitterExit, grpcVars, loopVars
  <2> QED
    BY <2>1 DEF ShutdownInv, Joined
<1> QED
  BY <1>1, <1>2, <1>3, <1>4, <1>5, <1>6 DEF Next

LEMMA NobodyLeftNext ==
  ASSUME TypeOK, CustodyInv, ShutdownInv, [Next]_vars
  PROVE  NobodyLeft'
<1> SUFFICES ASSUME committer' = "exited" PROVE NobodyLeft'
  BY DEF NobodyLeft
<1>1. CASE CommitterEnds
  <2>1. main_pc' = "close" /\ cfs_to_flush = None /\ commit_queue = None
    BY <1>1 DEF CommitterEnds, CommitterExit, ShutdownInv, Joined, CustodyInv, ListsInUse
  <2>2. UNCHANGED <<cfs_to_flush, commit_queue, waiting, compiling, encoded>>
    BY <1>1 DEF CommitterEnds, CommitterExit, loopVars, pipeVars
  <2>3. \A c \in CfName : Pipelines(c)' = 0
    BY <1>1, <2>2 DEF CommitterEnds, CommitterExit, SendersGone, Pipelines
  <2> QED
    BY <2>1, <2>2, <2>3 DEF NobodyLeft, None
<1>2. CASE ~CommitterEnds
  <2>1. committer = "exited"
    BY <1>2 DEF Next, vars, Start, Sigterm, Drained, EmergencyFlush, CloseChannel, Exit, Crash,
                ResetFlush, Client, Hangup, Message, IngestTask, IngestTaskWrite, Timer, Notified,
                WakeUp, StartFlush, Shutdown, StopLoop, Flush, FlushRotate, FlushSwitch, FlushFail,
                FlushSpawn, NextRound, Acquire, AcquirePermit, Pipeline, Compile, SendCommit,
                PipelineFail, Committer, RecvBatch, CommitOk, CommitRetry, CommitFail, EndBatch,
                DropOne, Halted, flushVars, commitVars
  <2>2. /\ main_pc = "close" /\ loop_pc = "stopped" /\ flush_pc = "idle"
        /\ \A c \in CfName : Pipelines(c) = 0 /\ cfs_to_flush[c] = 0 /\ commit_queue[c] = 0
    BY <2>1 DEF ShutdownInv, Joined, NobodyLeft
  <2>3. \A c \in CfName : waiting[c] = 0 /\ compiling[c] = 0 /\ encoded[c] = 0
    BY <2>2, NoPipeline
  <2>4. UNCHANGED <<main_pc, cfs_to_flush, commit_queue, waiting, compiling, encoded>>
    BY <1>2, <2>1, <2>2, <2>3
       DEF Next, vars, Start, Up, Sigterm, Drained, EmergencyFlush, CloseChannel, Exit, Crash,
           ResetFlush, Client, Hangup, Message, IngestTask, IngestTaskWrite, Timer, Notified,
           WakeUp, Shutdown, StopLoop, Flush, FlushRotate, FlushSwitch, FlushFail, FlushSpawn,
           NextRound, Acquire, AcquirePermit, Pipeline, Compile, SendCommit, PipelineFail,
           CompileAborts, Committer, RecvBatch, CommitOk, CommitRetry, CommitFail, DropOne, Halted,
           flushVars, loopVars, pipeVars
  <2> QED
    BY <2>2, <2>4 DEF NobodyLeft, Pipelines
<1> QED
  BY <1>1, <1>2

LEMMA ShutdownNext ==
  TypeOK /\ CustodyInv /\ ShutdownInv /\ [Next]_vars => ShutdownInv'
BY JoinedNext, NobodyLeftNext DEF ShutdownInv

(* No pipeline sends to a committer that has exited, and no do_flush is     *)
(* about to start one, whatever fails: main joins the flush loop and the    *)
(* pipelines of the emergency flush before it drops its sender, and the     *)
(* committer counts the senders of the others.                              *)
THEOREM SendNeverFailsCorrect == Spec => []SendNeverFails
<1> DEFINE Inv == TypeOK /\ ValuesOK /\ CustodyInv /\ ShutdownInv
<1>1. Init => Inv
  BY InitTypes, CustodyInit, ShutdownInit
<1>2. Inv /\ [Next]_vars => Inv'
  BY NextTypes, CustodyNext, ShutdownNext
<1>3. Inv => SendNeverFails
  BY DEF ShutdownInv, NobodyLeft, SendNeverFails
<1> QED
  BY <1>1, <1>2, <1>3, PTL DEF Spec

----------------------------------------------------------------------------
(* The failures that make do_flush, a pipeline or the committer lose a CF:  *)
(* their error paths do not retain it.                                      *)
Forgetting == {"rotate", "catalog", "panic", "drop"}

(* A step that hands every name on.                                         *)
LEMMA HandsOn ==
  ASSUME TypeOK, TypeOK', NoCfForgotten, Up, UNCHANGED <<cfs, active_cf, rotating>>,
         \A c \in CfName : Held(c)' >= Held(c)
  PROVE  NoCfForgotten'
<1> SUFFICES ASSUME NEW c \in cfs \ {active_cf, rotating} PROVE Held(c)' > 0
  BY DEF NoCfForgotten
<1>1. c \in CfName /\ Held(c) > 0
  BY DEF NoCfForgotten, TypeOK, StoreTypeOK
<1> QED
  BY <1>1, HeldType, HeldTypeNext

LEMMA ForgottenFlush ==
  ASSUME TypeOK, TypeOK', CustodyInv, NoCfForgotten, Up,
         StartFlush \/ StopLoop \/ FlushRotate \/ FlushSwitch \/ FlushSpawn \/ NextRound
  PROVE  NoCfForgotten'
<1>1. CASE StartFlush
  <2>1. \A c \in CfName : cfs_to_flush[c] = 0
    BY <1>1 DEF StartFlush, CustodyInv, ListsInUse, None
  <2>2. \A c \in CfName : Held(c)' >= Held(c)
    BY <1>1, <2>1, HeldType DEF StartFlush, TakeOrphanedCfs, Held, None, pipeVars, commitVars
  <2> QED
    BY <1>1, <2>2, HandsOn DEF StartFlush, TakeOrphanedCfs, diskVars
<1>2. CASE StopLoop \/ NextRound
  <2>1. \A c \in CfName : Held(c)' >= Held(c)
    BY <1>2, HeldType DEF StopLoop, NextRound, Held, storeVars, pipeVars, commitVars
  <2> QED
    BY <1>2, <2>1, HandsOn DEF StopLoop, NextRound, storeVars, diskVars
<1>3. CASE FlushSpawn
  <2>1. \A c \in CfName : Held(c)' >= Held(c)
    BY <1>3, HeldType DEF FlushSpawn, Held, None, Join, storeVars, commitVars
  <2> QED
    BY <1>3, <2>1, HandsOn DEF FlushSpawn, storeVars, diskVars
<1>4. CASE FlushRotate
  <2>1. PICK n \in CfName : RotateCreate(n)
    BY <1>4 DEF FlushRotate
  <2>2. \A c \in CfName : Held(c)' = Held(c)
    BY <1>4, <2>1 DEF FlushRotate, RotateCreate, Held, pipeVars, commitVars
  <2>3. cfs' \ {active_cf', rotating'} \subseteq cfs \ {active_cf, rotating}
    BY <2>1, StoreAssumption DEF RotateCreate, NoCf, CfName, TypeOK, StoreTypeOK
  <2> QED
    BY <2>2, <2>3 DEF NoCfForgotten, TypeOK, StoreTypeOK
<1>5. CASE FlushSwitch
  <2>1. ASSUME NEW c \in CfName
        PROVE  Held(c)' = IF c = active_cf THEN Held(c) + 1 ELSE Held(c)
    BY <1>5, HeldType DEF FlushSwitch, RotateSwitch, Add, Held, pipeVars, commitVars, TypeOK,
                          StoreTypeOK, FlushTypeOK
  <2>2. cfs' = cfs /\ active_cf' = rotating
    BY <1>5 DEF FlushSwitch, RotateSwitch, diskVars
  <2> QED
    BY <2>1, <2>2, HeldType DEF NoCfForgotten, TypeOK, StoreTypeOK
<1> QED
  BY <1>1, <1>2, <1>3, <1>4, <1>5

LEMMA ForgottenPipeline ==
  ASSUME TypeOK, TypeOK', NoCfForgotten, Up, NEW c \in CfName, ~Fault("panic"),
         AcquirePermit(c) \/ Compile(c) \/ SendCommit(c) \/ PipelineFail(c)
  PROVE  NoCfForgotten'
<1>0. FlushTypeOK /\ StoreTypeOK
  BY DEF TypeOK
<1>1. UNCHANGED <<cfs, active_cf, rotating>>
  BY StoreQuiet DEF diskVars
<1>2. ASSUME NEW d \in CfName PROVE Held(d)' >= Held(d)
  <2>1. CASE AcquirePermit(c)
    BY <1>0, <2>1, HeldType DEF AcquirePermit, Add, Remove, Held, FlushTypeOK, storeVars, loopVars,
                                commitVars
  <2>2. CASE Compile(c)
    BY <1>0, <2>2, HeldType DEF Compile, Add, Remove, Held, FlushTypeOK, storeVars, loopVars,
                                commitVars
  <2>3. CASE SendCommit(c)
    BY <1>0, <2>3, HeldType DEF SendCommit, Add, Remove, Held, FlushTypeOK, storeVars, loopVars,
                                commitVars
  <2>4. CASE PipelineFail(c)
    <3>1. orphaned_cfs'[d] = orphaned_cfs[d] + (IF d = c THEN 1 ELSE 0)
      BY <2>4, HeldType DEF PipelineFail, RetainOnError, RetainFrozenCfs, Join, Of
    <3>2. compiling'[d] + encoded'[d] = compiling[d] + encoded[d] - (IF d = c THEN 1 ELSE 0)
      BY <1>0, <2>4, HeldType DEF PipelineFail, CompileAborts, Remove, FlushTypeOK
    <3> QED
      BY <2>4, <3>1, <3>2, HeldType, HeldTypeNext DEF PipelineFail, Held, loopVars, commitVars
  <2> QED
    BY <2>1, <2>2, <2>3, <2>4
<1> QED
  BY <1>1, <1>2, HandsOn

LEMMA ForgottenCommitter ==
  ASSUME TypeOK, TypeOK', CustodyInv, NoCfForgotten, Up, ~Fault("drop"),
         \/ RecvBatch \/ CommitOk \/ CommitRetry \/ CommitFail \/ CommitterExit
         \/ \E c \in CfName : DropOne(c)
  PROVE  NoCfForgotten'
<1>1. CASE RecvBatch
  <2>1. \A c \in CfName : batch[c] = 0
    BY <1>1 DEF RecvBatch, CustodyInv, ListsInUse, None
  <2>2. \A c \in CfName : Held(c)' >= Held(c)
    BY <1>1, <2>1, HeldType DEF RecvBatch, Held, None, storeVars, loopVars, pipeVars
  <2> QED
    BY <1>1, <2>2, StoreQuiet, HandsOn DEF diskVars
<1>2. CASE CommitOk \/ CommitRetry \/ CommitterExit
  <2>1. \A c \in CfName : Held(c)' >= Held(c)
    BY <1>2, HeldType DEF CommitOk, CommitRetry, CommitterExit, Held, storeVars, loopVars, pipeVars
  <2> QED
    BY <1>2, <2>1, StoreQuiet, HandsOn DEF diskVars
<1>3. CASE CommitFail
  <2>1. \A c \in CfName : Held(c)' >= Held(c)
    BY <1>3, HeldType DEF CommitFail, EndBatch, RetainFrozenCfs, Join, None, Held, loopVars
  <2> QED
    BY <1>3, <2>1, StoreQuiet, HandsOn DEF diskVars
<1>4. ASSUME NEW c \in CfName, DropOne(c) PROVE NoCfForgotten'
  <2>1. \A d \in CfName : d # c => Held(d)' = Held(d)
    BY <1>4, HeldType DEF DropOne, DropFrozenCf, Remove, Held, TypeOK, FlushTypeOK, storeVars,
                          loopVars
  <2>2. c \notin cfs' /\ UNCHANGED <<active_cf, rotating>> /\ cfs' \subseteq cfs
    BY <1>4 DEF DropOne, DropFrozenCf, storeVars, diskVars
  <2> QED
    BY <2>1, <2>2 DEF NoCfForgotten, TypeOK, StoreTypeOK
<1> QED
  BY <1>1, <1>2, <1>3, <1>4

(* A step without one of these failures forgets no CF.                      *)
LEMMA ForgottenNext ==
  ASSUME TypeOK, TypeOK', CustodyInv, NoCfForgotten, [Next]_vars,
         \A kind \in Forgetting : ~Fault(kind)
  PROVE  NoCfForgotten'
<1> SUFFICES ASSUME Up' PROVE NoCfForgotten'
  BY DEF NoCfForgotten
<1>0. ~Fault("rotate") /\ ~Fault("catalog") /\ ~Fault("panic") /\ ~Fault("drop")
  BY DEF Forgetting
<1>1. CASE Start
  <2>1. PICK n \in ListCf : \E k \in {0} \cup {row[1] : row \in rows[n]} : Open(n, k)
    BY <1>1 DEF Start
  <2>2. PICK k \in {0} \cup {row[1] : row \in rows[n]} : Open(n, k)
    BY <2>1
  <2>3. \A c \in CfName : Held(c)' = IF c \in ListCf \ {n} THEN 1 ELSE 0
    BY <1>1, <2>2 DEF Start, Open, Orphans, ResetFlush, Held, Of, None
  <2>4. cfs' = ListCf /\ active_cf' = n /\ cfs' \subseteq CfName
    BY <2>2 DEF Open, TypeOK, StoreTypeOK
  <2> QED
    BY <2>3, <2>4 DEF NoCfForgotten
<1>2. CASE Exit \/ Crash
  BY <1>2 DEF Exit, Crash, Up
<1>4. CASE \/ Sigterm \/ Drained \/ Client \/ Halted \/ UNCHANGED vars \/ CloseChannel
           \/ \E s \in Streams : Hangup(s) \/ Message(s) \/ IngestTask(s) \/ IngestTaskWrite(s)
  <2>1. Up' = Up /\ UNCHANGED <<cfs, active_cf, rotating, orphaned_cfs, cfs_to_flush, pipeVars,
                                commit_queue, commitVars>>
    BY <1>4 DEF Sigterm, Drained, Client, FlushNow, Connect, Halted, vars, CloseChannel, Hangup,
                Disconnect, Message, Ingest, AppendStart, IngestTask, IngestAppend, AppendFail,
                AppendCount, AppendReturn, Reply, AppendForget, IngestTaskWrite, IngestWrite,
                AppendWrite, Up, storeVars, diskVars, flushVars, loopVars
  <2> QED
    BY <2>1 DEF NoCfForgotten, Held, pipeVars, commitVars
<1>5. CASE EmergencyFlush \/ Timer \/ Notified \/ Shutdown \/ Flush
  <2>1. Up
    BY <1>5 DEF EmergencyFlush, Timer, Notified, Shutdown, Flush, Up
  <2> QED
    BY <1>0, <1>5, <2>1, ForgottenFlush DEF EmergencyFlush, Timer, Notified, WakeUp, Shutdown,
                                            Flush, FlushFail
<1>6. ASSUME NEW c \in CfName, Acquire(c) \/ Pipeline(c) PROVE NoCfForgotten'
  BY <1>0, <1>6, ForgottenPipeline DEF Acquire, Pipeline, Up
<1>7. CASE Committer \/ CommitterEnds
  BY <1>0, <1>7, ForgottenCommitter DEF Committer, CommitterEnds, Up
<1> QED
  BY <1>1, <1>2, <1>4, <1>5, <1>6, <1>7 DEF Next

(* While the engine runs every frozen CF is retained or being flushed,      *)
(* through failed compilations and commits, crashes and restarts, as long   *)
(* as create_cf, the catalog and drop_cf answer and no compile task panics: *)
(* those are the error paths that retain nothing.                           *)
THEOREM NoCfForgottenCorrect ==
  ASSUME Forgetting \cap FaultKinds = {}
  PROVE  Spec => []NoCfForgotten
<1> DEFINE Inv == TypeOK /\ ValuesOK /\ CustodyInv /\ NoCfForgotten
<1>1. Init => Inv
  BY InitTypes, CustodyInit DEF Init, NoCfForgotten, Up
<1>2. Inv /\ [Next]_vars => Inv'
  <2>1. \A kind \in Forgetting : ~Fault(kind)
    BY DEF Fault
  <2> QED
    BY <2>1, NextTypes, CustodyNext, ForgottenNext
<1> QED
  BY <1>1, <1>2, PTL DEF Spec

----------------------------------------------------------------------------
(* What an append works on is not acknowledged yet.                         *)
Unacked ==
  /\ acked \subseteq sent
  /\ \A s \in Streams : append_pc[s] # "idle" => value[s] \notin acked

(* The CF that takes the place of the last one that was acknowledged to.    *)
LastCf ==
  /\ main_pc = "emergency" /\ flush_pc = "switch" => RecordsIn(rotating) \cap acked = {}
  /\ (main_pc = "emergency" /\ flush_pc \in {"spawn", "returned"}) \/ main_pc = "close"
       => RecordsIn(active_cf) \cap acked = {}

(* While nothing fails every CF but that one is on its way to the table.    *)
NothingLeft ==
  faults = 0 =>
    /\ NoCfForgotten
    /\ main_pc \in {"emergency", "close"} => orphaned_cfs = None
    /\ LastCf
    /\ main_pc = "exited" => \A r \in acked : r \notin OnDisk

ExitInv == Unacked /\ NothingLeft

LEMMA ExitInit == Init => ExitInv
<1> SUFFICES ASSUME Init PROVE ExitInv
  OBVIOUS
<1>1. Unacked
  BY DEF Init, GrpcInit, StoreInit, Unacked
<1>2. NothingLeft
  BY DEF Init, NothingLeft, NoCfForgotten, Up, LastCf
<1> QED
  BY <1>1, <1>2 DEF ExitInv

LEMMA UnackedNext ==
  ASSUME TypeOK, SlotsOK, Unacked, [Next]_vars
  PROVE  Unacked'
<1>1. CASE Start \/ Exit \/ Crash
  BY <1>1 DEF Start, Open, Exit, Crash, ForgetStore, ForgetGrpc, Unacked, appendVars, grpcVars
<1>2. ASSUME NEW s \in Streams, Message(s) PROVE Unacked'
  <2>1. PICK r \in Records : Ingest(s, r)
    BY <1>2 DEF Message
  <2> QED
    BY <2>1 DEF Ingest, AppendStart, Unacked, TypeOK, StoreTypeOK
<1>3. ASSUME NEW s \in Streams, IngestAppend(s) \/ IngestWrite(s) PROVE Unacked'
  BY <1>3 DEF IngestAppend, AppendFail, AppendCount, AppendReturn, IngestWrite, AppendWrite, Unacked,
              TypeOK, StoreTypeOK, grpcVars
<1>4. ASSUME NEW s \in Streams, Reply(s) PROVE Unacked'
  <2>1. value[s] \in sent /\ \A t \in Streams : t # s /\ append_pc[t] # "idle" => value[t] # value[s]
    BY <1>4 DEF Reply, AppendForget, SlotsOK
  <2> QED
    BY <1>4, <2>1 DEF Reply, AppendForget, Unacked, TypeOK, StoreTypeOK
<1>5. CASE UNCHANGED <<appendVars, sent, acked>>
  BY <1>5 DEF Unacked, appendVars
<1>6. CASE \/ Sigterm \/ Drained \/ CloseChannel \/ Client \/ Halted \/ UNCHANGED vars
           \/ \E s \in Streams : Hangup(s)
  BY <1>5, <1>6 DEF Sigterm, Drained, CloseChannel, Client, FlushNow, Connect, Hangup, Disconnect,
                    Halted, vars, storeVars, grpcVars
<1>7. CASE EmergencyFlush \/ Timer \/ Notified \/ Shutdown \/ Flush
  BY <1>5, <1>7 DEF EmergencyFlush, Timer, Notified, WakeUp, StartFlush, TakeOrphanedCfs, Shutdown,
                    StopLoop, Flush, FlushRotate, RotateCreate, FlushSwitch, RotateSwitch,
                    FlushFail, FlushSpawn, NextRound, storeVars, grpcVars
<1>8. CASE (\E c \in CfName : Acquire(c) \/ Pipeline(c)) \/ Committer \/ CommitterEnds
  <2>1. UNCHANGED <<sent, acked>>
    BY <1>8 DEF Acquire, Pipeline, Committer, CommitterEnds, grpcVars
  <2>2. UNCHANGED appendVars
    BY <1>8, StoreQuiet DEF Acquire, Pipeline, Committer, CommitterEnds, DropOne, DropFrozenCf,
                            storeVars
  <2> QED
    BY <1>5, <2>1, <2>2
<1> QED
  BY <1>1, <1>2, <1>3, <1>4, <1>6, <1>7, <1>8 DEF Next, IngestTask, IngestTaskWrite

(* Only a task that has written its record and still has its connection     *)
(* acknowledges one.                                                        *)
LEMMA AckedStep ==
  ASSUME [Next]_vars
  PROVE  acked' = acked \/ \E s \in conn : append_pc[s] \in Pending
BY DEF Next, vars, Start, Sigterm, Drained, EmergencyFlush, CloseChannel, Exit, Crash, ForgetGrpc,
       Client, FlushNow, Connect, Hangup, Disconnect, Message, Ingest, IngestTask, IngestAppend,
       Reply, Acknowledges, Pending, IngestTaskWrite, IngestWrite, Timer, Notified, Shutdown,
       Flush, Acquire, Pipeline, Committer, CommitterEnds, Halted, grpcVars

(* An acknowledged record is new in no CF.                                  *)
LEMMA AckedNotNew ==
  ASSUME Noticed, TypeOK, CustodyInv, KeysInv, Unacked, [Next]_vars, acked' = acked,
         NEW c \in CfName
  PROVE  RecordsIn(c)' \cap acked \subseteq RecordsIn(c)
<1>1. CASE rows' = rows
  BY <1>1 DEF RecordsIn
<1>2. ASSUME NEW s \in Streams, IngestTaskWrite(s), Up
      PROVE  RecordsIn(c)' \cap acked \subseteq RecordsIn(c)
  <2>1. AppendWrite(s) /\ value[s] \notin acked
    BY <1>2 DEF IngestTaskWrite, IngestWrite, AppendWrite, Unacked
  <2>2. rows'[c] \subseteq rows[c] \cup {<<counter, value[s]>>}
    BY <1>2, <2>1, WriteGrows
  <2> QED
    BY <2>1, <2>2 DEF RecordsIn
<1>3. ASSUME NEW d \in CfName, DropFrozenCf(d)
      PROVE  RecordsIn(c)' \cap acked \subseteq RecordsIn(c)
  <2>1. rows'[c] \subseteq rows[c]
    BY <1>3 DEF DropFrozenCf, TypeOK, StoreTypeOK
  <2> QED
    BY <2>1 DEF RecordsIn
<1> QED
  BY <1>1, <1>2, <1>3, RowsStep

LEMMA LastCfNext ==
  ASSUME Noticed, TypeOK, TypeOK', CustodyInv, KeysInv, ShutdownInv, Unacked, LastCf, [Next]_vars,
         faults' = faults
  PROVE  LastCf'
<1> SUFFICES ASSUME main_pc' \in {"emergency", "close"} PROVE LastCf'
  BY DEF LastCf
<1>1. CASE EmergencyFlush
  BY <1>1 DEF EmergencyFlush, StartFlush, LastCf
<1>2. CASE ~EmergencyFlush
  <2>1. main_pc \in {"emergency", "close"}
    BY <1>2 DEF Next, vars, Start, Sigterm, Drained, CloseChannel, Exit, Crash, Client, Hangup,
                Message, IngestTask, IngestTaskWrite, Timer, Notified, Shutdown, Flush, Acquire,
                Pipeline, Committer, CommitterEnds, Halted
  <2>2. conn = {} /\ loop_pc = "stopped" /\ acked' = acked
    BY <2>1, AckedStep DEF ShutdownInv, Joined
  <2>3. \A c \in CfName : RecordsIn(c)' \cap acked \subseteq RecordsIn(c)
    BY <2>2, AckedNotNew
  <2>4. CASE UNCHANGED <<main_pc, flush_pc, active_cf, rotating>>
    <3>1. active_cf \in CfName
      BY DEF TypeOK, StoreTypeOK
    <3>2. flush_pc = "switch" => rotating \in CfName
      BY DEF CustodyInv, RotationOK, TypeOK, StoreTypeOK
    <3> QED
      BY <2>2, <2>3, <2>4, <3>1, <3>2 DEF LastCf
  <2>5. CASE CloseChannel
    <3>1. UNCHANGED <<rows, active_cf>>
      BY <2>5 DEF CloseChannel, storeVars, diskVars
    <3>2. RecordsIn(active_cf)' = RecordsIn(active_cf)
      BY <3>1 DEF RecordsIn
    <3>3. RecordsIn(active_cf) \cap acked = {} /\ main_pc' = "close"
      BY <2>5 DEF CloseChannel, LastCf
    <3> QED
      BY <2>2, <3>2, <3>3 DEF LastCf
  <2>6. CASE FlushRotate /\ UNCHANGED main_pc
    <3>1. PICK n \in CfName : RotateCreate(n)
      BY <2>6 DEF FlushRotate
    <3>2. rows'[n] = {} /\ rotating' = n
      BY <3>1 DEF RotateCreate, NewName, Fresh, KeysInv, AbsentEmpty
    <3>3. flush_pc = "rotate" /\ flush_pc' = "switch" /\ main_pc' # "close"
      BY <2>6, <2>1 DEF FlushRotate, ShutdownInv, Joined
    <3> QED
      BY <3>2, <3>3 DEF LastCf, RecordsIn
  <2>7. CASE FlushSwitch /\ UNCHANGED main_pc
    BY <2>1, <2>2, <2>7 DEF FlushSwitch, RotateSwitch, LastCf, RecordsIn, ShutdownInv, Joined,
                            diskVars
  <2>8. CASE FlushSpawn /\ UNCHANGED main_pc
    BY <2>2, <2>8 DEF FlushSpawn, LastCf, RecordsIn, storeVars, diskVars
  <2>9. CASE Start \/ Exit \/ Crash \/ Sigterm \/ Drained
    BY <2>1, <2>9 DEF Start, Exit, Crash, Sigterm, Drained, Up
  <2>10. CASE Timer \/ Notified \/ Shutdown \/ FlushFail \/ NextRound
    BY <2>2, <2>10 DEF Timer, Notified, WakeUp, Shutdown, StopLoop, FlushFail, Fault, NextRound,
                       TypeOK
  <2>11. CASE \/ Client \/ Halted \/ UNCHANGED vars
              \/ \E s \in Streams : Hangup(s) \/ Message(s) \/ IngestTask(s) \/ IngestTaskWrite(s)
    <3>1. UNCHANGED <<main_pc, flush_pc, active_cf, rotating>>
      BY <2>11 DEF Client, FlushNow, Connect, Halted, vars, Hangup, Disconnect, Message, Ingest,
                   AppendStart, IngestTask, IngestAppend, AppendFail, AppendCount, AppendReturn,
                   Reply, AppendForget, IngestTaskWrite, IngestWrite, AppendWrite, storeVars,
                   flushVars, loopVars
    <3> QED
      BY <2>4, <3>1
  <2>12. CASE (\E c \in CfName : Acquire(c) \/ Pipeline(c)) \/ Committer \/ CommitterEnds
    <3>1. UNCHANGED <<main_pc, flush_pc>>
      BY <2>12 DEF Acquire, AcquirePermit, Pipeline, Compile, SendCommit, PipelineFail, Committer,
                   RecvBatch, CommitOk, CommitRetry, CommitFail, DropOne, CommitterEnds,
                   CommitterExit, loopVars
    <3>2. UNCHANGED <<active_cf, rotating>>
      BY <2>12, StoreQuiet DEF Acquire, Pipeline, Committer, CommitterEnds, DropOne, DropFrozenCf,
                               storeVars
    <3> QED
      BY <2>4, <3>1, <3>2
  <2> QED
    BY <1>2, <2>5, <2>6, <2>7, <2>8, <2>9, <2>10, <2>11, <2>12 DEF Next, Flush
<1> QED
  BY <1>1, <1>2

LEMMA NothingLeftNext ==
  ASSUME Noticed, TypeOK, TypeOK', CustodyInv, KeysInv, ShutdownInv, ExitInv, [Next]_vars
  PROVE  NothingLeft'
<1> SUFFICES ASSUME faults' = 0
             PROVE  /\ NoCfForgotten'
                    /\ main_pc' \in {"emergency", "close"} => orphaned_cfs' = None
                    /\ LastCf'
                    /\ main_pc' = "exited" => \A r \in acked' : r \notin OnDisk'
  BY DEF NothingLeft
<1>1. faults' = faults /\ faults = 0 /\ \A kind : ~Fault(kind)
  BY FaultStep DEF Fault, TypeOK
<1>2. NothingLeft /\ Unacked
  BY DEF ExitInv
<1>3. NoCfForgotten'
  BY <1>1, <1>2, ForgottenNext DEF NothingLeft
<1>4. LastCf'
  BY <1>1, <1>2, LastCfNext DEF NothingLeft
<1>5. ASSUME main_pc' \in {"emergency", "close"} PROVE orphaned_cfs' = None
  <2>1. CASE EmergencyFlush
    BY <2>1 DEF EmergencyFlush, StartFlush, TakeOrphanedCfs
  <2>2. CASE ~EmergencyFlush
    <3>1. main_pc \in {"emergency", "close"}
      BY <1>5, <2>2
         DEF Next, vars, Start, Sigterm, Drained, CloseChannel, Exit, Crash, Client, Hangup,
             Message, IngestTask, IngestTaskWrite, Timer, Notified, Shutdown, Flush, Acquire,
             Pipeline, Committer, CommitterEnds, Halted
    <3>2. orphaned_cfs = None
      BY <1>1, <1>2, <3>1 DEF NothingLeft
    <3>3. CASE Start \/ Exit \/ Crash \/ Sigterm \/ Drained
      BY <1>5, <3>1, <3>3 DEF Start, Exit, Crash, Sigterm, Drained, Up
    <3>4. CASE \/ Client \/ Halted \/ UNCHANGED vars \/ CloseChannel
               \/ \E s \in Streams : Hangup(s) \/ Message(s) \/ IngestTask(s) \/ IngestTaskWrite(s)
      BY <3>2, <3>4 DEF Client, FlushNow, Connect, Halted, vars, CloseChannel, Hangup, Disconnect,
                        Message, Ingest, AppendStart, IngestTask, IngestAppend, AppendFail,
                        AppendCount, AppendReturn, Reply, AppendForget, IngestTaskWrite,
                        IngestWrite, AppendWrite, storeVars
    <3>5. CASE Timer \/ Notified \/ Shutdown \/ Flush
      BY <3>2, <3>5 DEF Timer, Notified, WakeUp, StartFlush, TakeOrphanedCfs, Shutdown, StopLoop,
                        Flush, FlushRotate, RotateCreate, FlushSwitch, RotateSwitch, FlushFail,
                        FlushSpawn, NextRound, storeVars
    <3>6. CASE \E c \in CfName : Acquire(c) \/ Pipeline(c)
      BY <1>1, <3>2, <3>6 DEF Acquire, AcquirePermit, Pipeline, Compile, SendCommit, PipelineFail,
                              storeVars
    <3>7. CASE Committer \/ CommitterEnds
      BY <1>1, <3>2, <3>7 DEF Committer, RecvBatch, CommitOk, CommitRetry, CommitFail,
                              AttemptFails, DropOne, DropFrozenCf, CommitterEnds, CommitterExit,
                              storeVars
    <3> QED
      BY <2>2, <3>3, <3>4, <3>5, <3>6, <3>7 DEF Next
  <2> QED
    BY <2>1, <2>2
<1>6. ASSUME main_pc' = "exited" PROVE \A r \in acked' : r \notin OnDisk'
  <2>1. CASE Exit
    <3>1. main_pc = "close" /\ committer = "exited" /\ UNCHANGED <<cfs, rows, acked>>
      BY <2>1 DEF Exit, ForgetGrpc, diskVars
    <3>2. Up /\ flush_pc = "idle" /\ rotating = NoCf /\ batch = None /\ orphaned_cfs = None
      BY <1>1, <1>2, <3>1 DEF Up, ShutdownInv, Joined, CustodyInv, RotationOK, ListsInUse,
                              NothingLeft
    <3>3. \A c \in CfName : Held(c) = 0
      <4> TAKE c \in CfName
      <4>1. Pipelines(c) = 0 /\ cfs_to_flush[c] = 0 /\ commit_queue[c] = 0
        BY <3>1 DEF ShutdownInv, NobodyLeft
      <4>2. batch[c] = 0 /\ orphaned_cfs[c] = 0
        BY <3>2 DEF None
      <4> QED
        BY <4>1, <4>2, NoPipeline DEF Held
    <3>4. \A c \in cfs : c = active_cf
      BY <1>1, <1>2, <3>2, <3>3 DEF NothingLeft, NoCfForgotten, TypeOK, StoreTypeOK, NoCf, CfName
    <3>5. RecordsIn(active_cf) \cap acked = {}
      BY <1>1, <1>2, <3>1 DEF NothingLeft, LastCf
    <3>6. OnDisk' = OnDisk
      BY <3>1 DEF OnDisk, RecordsIn
    <3> QED
      BY <3>1, <3>4, <3>5, <3>6 DEF OnDisk
  <2>2. CASE ~Exit
    <3>1. main_pc = "exited" /\ ~Up
      BY <1>6, <2>2
         DEF Next, vars, Start, Sigterm, Drained, EmergencyFlush, CloseChannel, Crash, Client,
             Hangup, Message, IngestTask, IngestTaskWrite, Timer, Notified, Shutdown, Flush,
             Acquire, Pipeline, Committer, CommitterEnds, Halted, Up
    <3>2. acked' = acked
      BY <3>1, AckedStep DEF KeysInv, DownIdle
    <3>3. ~\E c \in CfName : DropOne(c)
      BY <3>1 DEF DropOne, CustodyInv, ProcessOK
    <3>4. OnDisk' = OnDisk
      BY <3>1, <3>3, RowsStep, DiskKept
    <3> QED
      BY <1>1, <1>2, <3>1, <3>2, <3>4 DEF NothingLeft
  <2> QED
    BY <2>1, <2>2
<1> QED
  BY <1>3, <1>4, <1>5, <1>6

(* An orderly shutdown without a fault leaves no acknowledged record on the *)
(* local disk and each deliverable one in the table exactly once, however   *)
(* many flushes, streams and appends are under way when it begins.  No      *)
(* fault is excluded: until the first one happens the keys and the safety   *)
(* of records are as if none could.                                         *)
THEOREM CleanExitCorrect == Spec => []CleanExit
<1> DEFINE Intact == faults = 0 => KeysInv /\ SafeInv /\ ExitInv
           Inv == TypeOK /\ ValuesOK /\ CustodyInv /\ CopiesInv /\ ShutdownInv /\ Intact
<1>1. Init => Inv
  BY InitTypes, CustodyInit, KeysInit, SafeInit, CopiesInit, ShutdownInit, ExitInit
<1>2. Inv /\ [Next]_vars => Inv'
  <2> SUFFICES ASSUME Inv, [Next]_vars PROVE Inv'
    OBVIOUS
  <2>1. TypeOK' /\ ValuesOK' /\ CustodyInv'
    BY NextTypes, CustodyNext
  <2>2. CopiesInv' /\ ShutdownInv'
    BY <2>1, CopiesNext, ShutdownNext
  <2>3. ASSUME faults' = 0 PROVE KeysInv' /\ SafeInv' /\ ExitInv'
    <3>1. faults = 0 /\ \A kind : ~Fault(kind)
      BY <2>3, FaultStep DEF Fault, TypeOK
    <3>2. Noticed /\ KeysInv /\ SafeInv /\ ExitInv
      BY <3>1 DEF Noticed
    <3>3. KeysInv'
      BY <3>2, KeysNext
    <3>4. SafeInv'
      BY <2>1, <3>2, AckedNext, PendingNext, CoveredNext, BatchNext DEF SafeInv
    <3>5. ExitInv'
      BY <2>1, <3>2, UnackedNext, NothingLeftNext DEF ExitInv, CopiesInv
    <3> QED
      BY <3>3, <3>4, <3>5
  <2> QED
    BY <2>1, <2>2, <2>3
<1>3. Inv => CleanExit
  <2> SUFFICES ASSUME Inv, main_pc = "exited", faults = 0, NEW r \in acked, Deliverable(r)
               PROVE  table[r] = 1 /\ r \notin OnDisk
    BY DEF CleanExit
  <2>1. r \notin OnDisk
    BY DEF ExitInv, NothingLeft
  <2>2. r \in Records /\ table[r] \in Nat
    BY DEF TypeOK, GrpcTypeOK, FlushTypeOK
  <2>3. table[r] > 0
    BY <2>1 DEF SafeInv, AckedSafe
  <2>4. table[r] <= 1 + faults
    BY <2>2 DEF CopiesInv, CopiesBelow
  <2> QED
    BY <2>1, <2>2, <2>3, <2>4
<1> QED
  BY <1>1, <1>2, <1>3, PTL DEF Spec
==============================================================================
