----------------------------- MODULE GrpcServer ------------------------------
(***************************************************************************)
(* The gRPC front end, grpc_server.rs: the ingest streams and FlushNow.    *)
(*                                                                         *)
(* A stream has a connection and a task of its own.  The task outlives a   *)
(* broken connection until it has finished the append it is in.  A record  *)
(* is sent once: a client that repeats one is modelled as sending another. *)
(***************************************************************************)
EXTENDS RocksStore

CONSTANT EnableManualFlush

ASSUME GrpcAssumption == EnableManualFlush \in BOOLEAN

VARIABLES
  conn,            \* the streams whose connection is open
  sent,            \* the records the clients have sent
  acked,           \* the records whose Ack { ok: true } reached the client
  flush_trigger    \* the permit of the Notify that wakes the flush loop

grpcVars == <<conn, sent, acked, flush_trigger>>

(* Notify::notify_one stores at most one permit.                            *)
NotifyOne == flush_trigger' = TRUE

(* A client opens or closes an ingest stream.                               *)
Connect(s) ==
  /\ s \notin conn
  /\ append_pc[s] = "idle"
  /\ conn' = conn \cup {s}
  /\ UNCHANGED <<sent, acked, flush_trigger, storeVars, faults>>

Disconnect(s) ==
  /\ s \in conn
  /\ conn' = conn \ {s}
  /\ UNCHANGED <<sent, acked, flush_trigger, storeVars, faults>>

(* The task takes a message from its stream and calls append_batch.         *)
Ingest(s, r) ==
  /\ s \in conn
  /\ r \in Records \ sent
  /\ AppendStart(s, r)
  /\ sent' = sent \cup {r}
  /\ NoFault
  /\ UNCHANGED <<conn, acked, flush_trigger>>

(* The steps of append_batch.                                               *)
IngestAppend(s) ==
  /\ \/ AppendFail(s)
     \/ NoFault /\ AppendCount(s)
     \/ NoFault /\ AppendReturn(s)
  /\ UNCHANGED grpcVars

IngestWrite(s) ==
  /\ AppendWrite(s)
  /\ NoFault
  /\ UNCHANGED grpcVars

(* The task answers: a full CF wakes the flush loop, then the Ack is sent.  *)
Notifies(s) == append_pc[s] = "full"

Acknowledges(s) == append_pc[s] \in {"done", "full"} /\ s \in conn

Reply(s) ==
  /\ AppendForget(s)
  /\ IF Notifies(s) THEN NotifyOne ELSE UNCHANGED flush_trigger
  /\ acked' = IF Acknowledges(s) THEN acked \cup {value[s]} ELSE acked
  /\ NoFault
  /\ UNCHANGED <<conn, sent>>

FlushNow ==
  /\ EnableManualFlush
  /\ NotifyOne
  /\ NoFault
  /\ UNCHANGED <<conn, sent, acked, storeVars>>

(* The process ends: the connections break.                                 *)
ForgetGrpc ==
  /\ conn' = {}
  /\ flush_trigger' = FALSE
  /\ UNCHANGED <<sent, acked>>

GrpcInit == conn = {} /\ sent = {} /\ acked = {} /\ flush_trigger = FALSE

GrpcTypeOK ==
  /\ conn \subseteq Streams
  /\ sent \subseteq Records /\ acked \subseteq Records
  /\ flush_trigger \in BOOLEAN
==============================================================================
