----------------------------- MODULE FleetProofs -----------------------------
(***************************************************************************)
(* The engines of a fleet and their table, for any number of engines,      *)
(* batches, deployments and clients.                                       *)
(***************************************************************************)
EXTENDS Fleet, TLAPS

Absent == {NoCf("unsent"), NoCf("committed"), NoCf("dropped")}

Present == [stage : {"buffered"} \cup InMemory, files : BOOLEAN, client : DOMAIN Clients,
            origin : DOMAIN Deployments]

RetryState == [attempt : 0 .. MaxAttempts, moved : BOOLEAN, against : Nat]

WriterTypes ==
  /\ namespace \in BOOLEAN /\ faults \in Nat
  /\ known_namespaces \in [Engines -> BOOLEAN] /\ known_tables \in [Engines -> BOOLEAN]
  /\ call \in [Engines -> [Callers -> Places]]
  /\ retry \in [Engines -> RetryState]
  /\ races \in [Engines -> Nat]

FleetTypes ==
  /\ WriterTypes
  /\ deployed \in [Engines -> DOMAIN Deployments \cup {"down"}] /\ loop \in [Engines -> BOOLEAN]
  /\ cf \in [Batches -> Absent \cup Present]

(* The CFs keep their types.                                                *)
LEMMA PresentStage ==
  ASSUME FleetTypes, NEW b \in Batches, cf[b].stage \in {"buffered"} \cup InMemory
  PROVE  cf[b] \in Present
BY DEF FleetTypes, Absent, NoCf, InMemory

LEMMA MoveType ==
  ASSUME FleetTypes, NEW e, NEW stages \in SUBSET ({"buffered"} \cup InMemory),
         NEW to \in {"buffered"} \cup InMemory, Move(Of(e, stages), to)
  PROVE  cf' \in [Batches -> Absent \cup Present]
<1>1. \A b \in Of(e, stages) : b \in Batches /\ [cf[b] EXCEPT !.stage = to] \in Present
  BY PresentStage DEF Of, Present
<1> QED
  BY <1>1 DEF Move, FleetTypes

LEMMA RetainType ==
  ASSUME FleetTypes, NEW bs \in SUBSET Batches, Retain(bs),
         \A b \in bs : cf[b].stage \in {"buffered"} \cup InMemory
  PROVE  cf' \in [Batches -> Absent \cup Present]
<1>1. \A b \in bs : [cf[b] EXCEPT !.stage = "buffered", !.files = FALSE] \in Present
  BY PresentStage DEF Present
<1> QED
  BY <1>1 DEF Retain, FleetTypes

LEMMA DropTypes ==
  ASSUME FleetTypes, NEW bs, Drop(bs)
  PROVE  cf' \in [Batches -> Absent \cup Present]
BY DEF Drop, FleetTypes, Absent

(* The operations of the writer keep its types.                             *)
LEMMA GotoType ==
  ASSUME WriterTypes, NEW e \in Engines, NEW w \in Callers, NEW p \in Places, Goto(e, w, p)
  PROVE  call' \in [Engines -> [Callers -> Places]]
BY DEF WriterTypes, Goto

LEMMA RetryTypes ==
  ASSUME NEW r \in RetryState
  PROVE  /\ NoRetry \in RetryState /\ Moved(r) \in RetryState
         /\ [r EXCEPT !.attempt = 1] \in RetryState
         /\ [r EXCEPT !.moved = FALSE] \in RetryState
         /\ [r EXCEPT !.against = @ + 1] \in RetryState
         /\ r.attempt < MaxAttempts => [r EXCEPT !.attempt = @ + 1] \in RetryState
<1>1. 0 \in 0 .. MaxAttempts /\ 1 \in 0 .. MaxAttempts
  BY WriterAssumption
<1>2. r.attempt < MaxAttempts => r.attempt + 1 \in 0 .. MaxAttempts
  BY WriterAssumption DEF RetryState
<1>3. r.against + 1 \in Nat
  BY DEF RetryState
<1>4. NoRetry \in RetryState
  BY <1>1 DEF NoRetry, RetryState
<1>5. Moved(r) \in RetryState /\ [r EXCEPT !.against = @ + 1] \in RetryState
  BY <1>3 DEF Moved, RetryState
<1>6. [r EXCEPT !.attempt = 1] \in RetryState /\ [r EXCEPT !.moved = FALSE] \in RetryState
  BY <1>1 DEF RetryState
<1>7. r.attempt < MaxAttempts => [r EXCEPT !.attempt = @ + 1] \in RetryState
  BY <1>2 DEF RetryState
<1> QED
  BY <1>4, <1>5, <1>6, <1>7

LEMMA LookUpTypes ==
  ASSUME WriterTypes, NEW e \in Engines, NEW w \in Callers,
         GetOrCreateTable(e, w) \/ NamespaceExists(e, w) \/ CreateNamespace(e, w) \/ TableExists(e, w)
  PROVE  WriterTypes'
<1>1. call' \in [Engines -> [Callers -> Places]]
  BY GotoType DEF GetOrCreateTable, NamespaceExists, CreateNamespace, TableExists, LookUpTable,
                  Places
<1>2. retry' \in [Engines -> RetryState]
  <2>1. retry \in [Engines -> RetryState] /\ [retry[e] EXCEPT !.attempt = 1] \in RetryState
    BY RetryTypes DEF WriterTypes
  <2>2. CASE retry' = retry
    BY <2>1, <2>2
  <2>3. CASE retry' = [retry EXCEPT ![e] = [retry[e] EXCEPT !.attempt = 1]]
    BY <2>1, <2>3
  <2> QED
    BY <2>2, <2>3 DEF GetOrCreateTable, NamespaceExists, CreateNamespace, TableExists
<1> QED
  BY <1>1, <1>2 DEF GetOrCreateTable, NamespaceExists, CreateNamespace, TableExists, Cached, NoFault,
                    WriterTypes, catalogVars, cacheVars

LEMMA TableTypes ==
  ASSUME WriterTypes, NEW e \in Engines, NEW w \in Callers, NEW schema,
         CreateTable(e, w, schema) \/ LoadTable(e, w) \/ CallFails(e, w, schema)
  PROVE  WriterTypes'
<1>1. call' \in [Engines -> [Callers -> Places]]
  BY GotoType DEF CreateTable, LoadTable, CallFails, HasTable, Places
<1>2. retry' \in [Engines -> RetryState]
  <2>1. /\ retry \in [Engines -> RetryState]
        /\ [retry[e] EXCEPT !.moved = FALSE] \in RetryState
        /\ [retry[e] EXCEPT !.against = @ + 1] \in RetryState
    BY RetryTypes DEF WriterTypes
  <2>2. CASE retry' = retry
    BY <2>1, <2>2
  <2>3. CASE retry' = [retry EXCEPT ![e] = [retry[e] EXCEPT !.moved = FALSE]]
    BY <2>1, <2>3
  <2>4. CASE retry' = [retry EXCEPT ![e] = [retry[e] EXCEPT !.against = @ + 1]]
    BY <2>1, <2>4
  <2> QED
    BY <2>2, <2>3, <2>4 DEF CreateTable, LoadTable, CallFails
<1>3. faults' \in Nat
  BY DEF CreateTable, LoadTable, CallFails, NoFault, Fault, WriterTypes
<1>4. races' \in [Engines -> Nat]
  BY DEF CreateTable, LoadTable, CallFails, WriterTypes
<1>5. namespace' \in BOOLEAN
  BY Zenon DEF CreateTable, LoadTable, CallFails, WriterTypes, catalogVars
<1> QED
  BY <1>1, <1>2, <1>3, <1>4, <1>5 DEF CreateTable, LoadTable, CallFails, Cached, WriterTypes, cacheVars

LEMMA CommitTypes ==
  ASSUME WriterTypes, NEW e \in Engines,
         \/ CommitOk(e) \/ AttemptFails(e) \/ EndCommit(e)
         \/ CommitRetry(e) /\ retry[e].attempt < MaxAttempts
  PROVE  WriterTypes'
<1>1. call' \in [Engines -> [Callers -> Places]]
  BY GotoType DEF CommitOk, AttemptFails, EndCommit, CommitRetry, Places, Callers
<1>2. retry' \in [Engines -> RetryState]
  <2>1. \A f \in Engines : retry[f] \in RetryState
    BY DEF WriterTypes
  <2> QED
    BY <2>1, RetryTypes DEF CommitOk, AttemptFails, EndCommit, CommitRetry, WriterTypes
<1>3. faults' \in Nat
  BY DEF CommitOk, AttemptFails, EndCommit, CommitRetry, NoFault, Fault, WriterTypes
<1> QED
  BY <1>1, <1>2, <1>3 DEF CommitOk, AttemptFails, EndCommit, CommitRetry, WriterTypes, catalogVars,
                          cacheVars

LEMMA ForgetTypes ==
  ASSUME WriterTypes, NEW e \in Engines, ForgetWriter(e), faults' \in Nat
  PROVE  WriterTypes'
<1>1. NoRetry \in RetryState
  BY WriterAssumption DEF NoRetry, RetryState
<1> QED
  BY <1>1 DEF ForgetWriter, WriterTypes, Places, catalogVars

(* What is known or looked for exists; a call past the namespace knows it.  *)
CatalogInv ==
  /\ table # NoTable => namespace
  /\ \A e \in Engines :
       /\ known_namespaces[e] => namespace
       /\ known_tables[e] => table # NoTable
       /\ \A w \in Callers :
            /\ call[e][w] \in {"table_exists", "create_table", "load_table"} => known_namespaces[e]
            /\ call[e][w] = "load_table" => table # NoTable

(* A CF with a pipeline, and a call of the committer, come after do_flush   *)
(* has filled the caches.                                                   *)
Piped == {"compile", "queued", "commit"}

CommitterInv ==
  /\ CommitterOnlyLoads
  /\ \A e \in Engines : call[e]["commit"] # "idle" => known_namespaces[e] /\ known_tables[e]
  /\ \A b \in Batches : cf[b].stage \in Piped
                          => known_namespaces[Owner(b)] /\ known_tables[Owner(b)]

(* Each attempt but the one under way is owed to something that happened.   *)
RetryOwed(r, place) ==
  /\ IF place = "idle" THEN r = NoRetry ELSE r.attempt > 0
  /\ r.attempt <= r.against + 1
  /\ place = "delay" => r.attempt < MaxAttempts
  /\ place \in {"delay", "failed"} \/ (place = "loaded" /\ r.moved) => r.attempt <= r.against

RetryInv == \A e \in Engines : RetryOwed(retry[e], call[e]["commit"])

(* What an engine may still find to exist when it wants to create it.       *)
Chance(possible) == IF possible THEN 1 ELSE 0

RacesInv ==
  \A e \in Engines :
    races[e] + Chance(~namespace \/ call[e]["flush"] = "create_namespace")
             + Chance(table = NoTable \/ call[e]["flush"] = "create_table") <= 2

(* An engine that runs, and one that took a batch, had a configuration.     *)
ConfigInv == \A e \in Engines : Up(e) => Config(e) # Refused

OriginInv ==
  \A b \in Batches : cf[b].stage \in {"buffered"} \cup InMemory
                       => FromEnv(Deployments[cf[b].origin].env) # Refused

(* A CF on its way to the committer without a file is one of an engine that *)
(* runs and whose struct its records do not decode to.                      *)
LeftOut(b) ==
  /\ cf[b].stage \in InMemory => Up(Owner(b))
  /\ cf[b].stage \in {"queued", "commit"} /\ ~cf[b].files
       => ~Decodes(Struct(Owner(b)), Clients[cf[b].client].fields)

LeftOutInv == \A b \in Batches : LeftOut(b)

FleetInv ==
  CatalogInv /\ CommitterInv /\ RetryInv /\ RacesInv /\ ConfigInv /\ OriginInv /\ LeftOutInv

----------------------------------------------------------------------------
LEMMA FleetInitInv == Init => FleetTypes /\ FleetInv
<1> SUFFICES ASSUME Init PROVE FleetTypes /\ FleetInv
  OBVIOUS
<1>1. WriterTypes
  <2>1. NoRetry \in RetryState
    BY WriterAssumption DEF NoRetry, RetryState
  <2>2. faults \in Nat /\ races \in [Engines -> Nat]
    BY DEF Init, WriterInit
  <2> QED
    BY <2>1, <2>2 DEF Init, WriterInit, WriterTypes, Places
<1>2. FleetTypes
  BY <1>1 DEF Init, FleetTypes, Absent
<1>3. CatalogInv
  BY DEF Init, WriterInit, CatalogInv
<1>4. CommitterInv
  BY DEF Init, WriterInit, CommitterInv, CommitterOnlyLoads, Callers, NoCf, Piped
<1>5. RetryInv
  BY WriterAssumption DEF Init, WriterInit, RetryInv, RetryOwed, NoRetry, Callers
<1>6. RacesInv
  BY DEF Init, WriterInit, RacesInv, Chance, Callers
<1>7. ConfigInv
  BY DEF Init, ConfigInv, Up
<1>8. OriginInv
  BY DEF Init, OriginInv, NoCf, InMemory
<1>9. LeftOutInv
  BY DEF Init, LeftOutInv, LeftOut, NoCf, InMemory
<1> QED
  BY <1>2, <1>3, <1>4, <1>5, <1>6, <1>7, <1>8, <1>9 DEF FleetInv

LEMMA DownTypes ==
  ASSUME FleetTypes, NEW e \in Engines, Down(e), faults' \in Nat
  PROVE  FleetTypes'
<1>1. WriterTypes'
  BY ForgetTypes DEF Down, FleetTypes
<1>2. cf' \in [Batches -> Absent \cup Present]
  BY RetainType DEF Down, Of
<1> QED
  BY <1>1, <1>2 DEF Down, FleetTypes

LEMMA FleetTypesNext == FleetTypes /\ FleetInv /\ [Next]_vars => FleetTypes'
<1> SUFFICES ASSUME FleetTypes, FleetInv, [Next]_vars PROVE FleetTypes'
  OBVIOUS
<1>0. WriterTypes
  BY DEF FleetTypes
<1>1. CASE UNCHANGED vars
  BY <1>1 DEF vars, writerVars, catalogVars, cacheVars, FleetTypes, WriterTypes
<1>2. ASSUME Next PROVE FleetTypes'
  <2>0. PICK e \in Engines :
          \/ \E d \in DOMAIN Deployments : Start(e, d)
          \/ StartLoop(e) \/ Exit(e) \/ Crash(e)
          \/ \E c \in DOMAIN Clients, b \in Batches : Ingest(e, c, b)
          \/ Flush(e) \/ Commit(e)
          \/ \E b \in Of(e, {"compile"}) : Compile(b)
    BY <1>2 DEF Next
  <2>1. ASSUME UNCHANGED writerVars, faults' \in Nat PROVE WriterTypes'
    BY <1>0, <2>1 DEF writerVars, catalogVars, cacheVars, WriterTypes
  <2>2. ASSUME NEW d \in DOMAIN Deployments, Start(e, d) PROVE FleetTypes'
    BY <1>0, <2>1, <2>2 DEF Start, NoFault, FleetTypes, WriterTypes
  <2>3. CASE StartLoop(e) \/ Exit(e) \/ Crash(e)
    <3>1. faults' \in Nat
      BY <1>0, <2>3 DEF StartLoop, Exit, Crash, Fault, NoFault, WriterTypes
    <3>2. CASE Down(e)
      BY <3>1, <3>2, DownTypes
    <3>3. CASE loop' = [loop EXCEPT ![e] = TRUE] /\ UNCHANGED <<writerVars, deployed, cf>>
      BY <2>1, <3>1, <3>3 DEF FleetTypes
    <3> QED
      BY <2>3, <3>2, <3>3 DEF StartLoop, Exit, Crash
  <2>4. ASSUME NEW c \in DOMAIN Clients, NEW b \in Batches, Ingest(e, c, b) PROVE FleetTypes'
    <3>1. WriterTypes'
      BY <1>0, <2>1, <2>4 DEF Ingest, NoFault, WriterTypes
    <3>2. deployed[e] \in DOMAIN Deployments
      BY <2>4 DEF Ingest, Up, FleetTypes
    <3>3. [stage |-> "buffered", files |-> FALSE, client |-> c, origin |-> deployed[e]] \in Present
      BY <3>2 DEF Present
    <3> QED
      BY <2>4, <3>1, <3>3 DEF Ingest, FleetTypes
  <2>5. CASE FlushStart(e)
    BY <1>0, <2>5, LookUpTypes, MoveType DEF FlushStart, FleetTypes, InMemory, Callers
  <2>6. CASE LookUp(e)
    BY <1>0, <2>6, LookUpTypes DEF LookUp, FleetTypes
  <2>7. CASE TableOk(e) \/ TableFails(e)
    <3>1. PICK w \in Callers, to \in {"compile", "stranded"} :
            /\ LoadTable(e, w) \/ CreateTable(e, w, Schema(e)) \/ CallFails(e, w, Schema(e))
            /\ Move(Taken(e, w), to)
      BY <2>7 DEF TableOk, TableFails
    <3>2. WriterTypes'
      BY <1>0, <3>1, TableTypes
    <3>3. to \in {"buffered"} \cup InMemory
      BY DEF InMemory
    <3>4. Taken(e, w) = Of(e, {"taken"}) \/ Taken(e, w) = Of(e, {})
      BY DEF Taken, Of
    <3>5. cf' \in [Batches -> Absent \cup Present]
      BY <3>1, <3>3, <3>4, MoveType DEF InMemory
    <3> QED
      BY <2>7, <3>2, <3>5 DEF TableOk, TableFails, FleetTypes
  <2>8. CASE CommitStart(e)
    <3>1. CASE Move(Of(e, {"queued"}), "commit") /\ GetOrCreateTable(e, "commit")
      BY <1>0, <2>8, <3>1, LookUpTypes, MoveType DEF CommitStart, FleetTypes, InMemory, Callers
    <3>2. CASE Drop(Of(e, {"queued"})) /\ NoFault /\ UNCHANGED writerVars
      BY <1>0, <2>1, <2>8, <3>2, DropTypes DEF CommitStart, NoFault, FleetTypes, WriterTypes
    <3> QED
      BY <2>8, <3>1, <3>2 DEF CommitStart
  <2>9. CASE CommitDone(e)
    BY <1>0, <2>9, CommitTypes, DropTypes DEF CommitDone, FleetTypes
  <2>10. CASE Attempt(e)
    <3>1. CommitRetry(e) => retry[e].attempt < MaxAttempts
      BY DEF CommitRetry, FleetInv, RetryInv, RetryOwed
    <3> QED
      BY <1>0, <2>10, <3>1, CommitTypes DEF Attempt, FleetTypes
  <2>11. CASE CommitGivenUp(e)
    BY <1>0, <2>11, CommitTypes, RetainType DEF CommitGivenUp, FleetTypes, Of, InMemory
  <2>12. ASSUME NEW b \in Of(e, {"compile"}), Compile(b) PROVE FleetTypes'
    <3>1. b \in Batches /\ cf[b].stage = "compile" /\ cf[b] \in Present
      BY PresentStage DEF Of, InMemory
    <3>2. WriterTypes'
      <4>1. faults' \in Nat
        BY <1>0, <2>12 DEF Compile, NoFault, Fault, WriterTypes
      <4> QED
        BY <2>1, <2>12, <4>1 DEF Compile
    <3>3. cf' \in [Batches -> Absent \cup Present]
      <4>1. CASE Retain({b})
        BY <3>1, <4>1, RetainType DEF InMemory
      <4>2. CASE Move({b}, "queued")
        <5>1. [cf[b] EXCEPT !.stage = "queued"] \in Present
          BY <3>1 DEF Present, InMemory
        <5> QED
          BY <4>2, <5>1 DEF Move, FleetTypes
      <4>3. CASE cf' = [cf EXCEPT ![b].stage = "queued", ![b].files = TRUE]
        <5>1. [cf[b] EXCEPT !.stage = "queued", !.files = TRUE] \in Present
          BY <3>1 DEF Present, InMemory
        <5>2. cf' = [cf EXCEPT ![b] = [cf[b] EXCEPT !.stage = "queued", !.files = TRUE]]
          BY <3>1, <4>3 DEF FleetTypes
        <5> QED
          BY <3>1, <5>1, <5>2 DEF FleetTypes
      <4> QED
        BY <2>12, <4>1, <4>2, <4>3 DEF Compile
    <3> QED
      BY <2>12, <3>2, <3>3 DEF Compile, FleetTypes
  <2> QED
    BY <2>0, <2>2, <2>3, <2>4, <2>5, <2>6, <2>7, <2>8, <2>9, <2>10, <2>11, <2>12 DEF Flush, Commit
<1> QED
  BY <1>1, <1>2

----------------------------------------------------------------------------
(* What a step does to the catalog, the caches and the calls.               *)
WriterStep(e) ==
  \/ \E w \in Callers : \/ GetOrCreateTable(e, w) \/ NamespaceExists(e, w) \/ CreateNamespace(e, w)
                        \/ TableExists(e, w) \/ LoadTable(e, w) \/ CreateTable(e, w, Schema(e))
                        \/ CallFails(e, w, Schema(e))
  \/ CommitOk(e) \/ AttemptFails(e) \/ CommitRetry(e) \/ EndCommit(e) \/ ForgetWriter(e)

LEMMA WriterSteps ==
  ASSUME [Next]_vars
  PROVE  UNCHANGED writerVars \/ \E e \in Engines : WriterStep(e)
<1>1. CASE UNCHANGED vars
  BY <1>1 DEF vars
<1>2. ASSUME Next PROVE UNCHANGED writerVars \/ \E e \in Engines : WriterStep(e)
  <2>1. PICK e \in Engines :
          \/ \E d \in DOMAIN Deployments : Start(e, d)
          \/ StartLoop(e) \/ Exit(e) \/ Crash(e)
          \/ \E c \in DOMAIN Clients, b \in Batches : Ingest(e, c, b)
          \/ Flush(e) \/ Commit(e)
          \/ \E b \in Of(e, {"compile"}) : Compile(b)
    BY <1>2 DEF Next
  <2>2. CASE \/ \E d \in DOMAIN Deployments : Start(e, d)
             \/ \E c \in DOMAIN Clients, b \in Batches : Ingest(e, c, b)
             \/ \E b \in Of(e, {"compile"}) : Compile(b)
    BY <2>2 DEF Start, Ingest, Compile
  <2>3. CASE StartLoop(e) \/ Exit(e) \/ Crash(e)
    BY <2>3 DEF StartLoop, Exit, Crash, Down, WriterStep
  <2>4. CASE Flush(e)
    BY <2>4 DEF Flush, FlushStart, LookUp, TableOk, TableFails, WriterStep, Callers
  <2>5. CASE Commit(e)
    BY <2>5 DEF Commit, CommitStart, CommitDone, Attempt, CommitGivenUp, WriterStep, Callers
  <2> QED
    BY <2>1, <2>2, <2>3, <2>4, <2>5
<1> QED
  BY <1>1, <1>2

LEMMA GotoStep ==
  ASSUME WriterTypes, NEW e \in Engines, NEW w \in Callers, NEW p, Goto(e, w, p),
         NEW f \in Engines, NEW v \in Callers
  PROVE  call'[f][v] = IF f = e /\ v = w THEN p ELSE call[f][v]
BY DEF Goto, WriterTypes

(* No file makes a schema that is no table.                                 *)
LEMMA SchemaIsTable == ASSUME NEW defs PROVE BuildIcebergSchema(defs) # NoTable
<1> SUFFICES ASSUME BuildIcebergSchema(defs) = NoTable PROVE FALSE
  OBVIOUS
<1> DEFINE column(f) == [type |-> ToIceberg(FromStrOrString(defs[f].type)),
                         required |-> defs[f].required]
<1>1. [f \in DOMAIN defs |-> column(f)] = [none |-> [absent |-> TRUE]]
  BY DEF BuildIcebergSchema, NoTable
<1>2. \A f : DOMAIN column(f) = {"type", "required"}
  OBVIOUS
<1>3. DOMAIN [none |-> [absent |-> TRUE]] = {"none"}
  OBVIOUS
<1> HIDE DEF column
<1>4. "none" \in DOMAIN defs /\ column("none") = [absent |-> TRUE]
  BY <1>1, <1>3
<1>5. DOMAIN [absent |-> TRUE] = {"absent"}
  OBVIOUS
<1> QED
  BY <1>2, <1>4, <1>5

(* A table that exists goes on existing; so does the namespace.             *)
LEMMA CatalogGrows ==
  ASSUME FleetTypes, [Next]_vars
  PROVE  /\ namespace => namespace'
         /\ table # NoTable => table' = table
         /\ table' # table => table' # NoTable
<1>1. CASE UNCHANGED writerVars
  BY <1>1 DEF writerVars, catalogVars
<1>2. ASSUME NEW e \in Engines, WriterStep(e)
      PROVE  /\ namespace => namespace'
             /\ table # NoTable => table' = table
             /\ table' # table => table' # NoTable
  <2>1. Schema(e) # NoTable
    BY SchemaIsTable DEF Schema
  <2> QED
    BY <1>2, <2>1
       DEF WriterStep, GetOrCreateTable, NamespaceExists, CreateNamespace, TableExists, LoadTable,
           CreateTable, CallFails, CommitOk, AttemptFails, CommitRetry, EndCommit, ForgetWriter,
           catalogVars
<1> QED
  BY <1>1, <1>2, WriterSteps

LEMMA CatalogNext ==
  ASSUME FleetTypes, FleetInv, [Next]_vars
  PROVE  CatalogInv'
<1>0. WriterTypes /\ CatalogInv
  BY DEF FleetTypes, FleetInv
<1>1. CASE UNCHANGED writerVars
  BY <1>0, <1>1 DEF writerVars, catalogVars, cacheVars, CatalogInv
<1>2. ASSUME NEW e \in Engines, WriterStep(e) PROVE CatalogInv'
  <2>0. Schema(e) # NoTable
    BY SchemaIsTable DEF Schema
  <2>1. ASSUME NEW w \in Callers, GetOrCreateTable(e, w) PROVE CatalogInv'
    BY <1>0, <2>1, GotoStep DEF GetOrCreateTable, LookUpTable, CatalogInv, catalogVars, cacheVars
  <2>2. ASSUME NEW w \in Callers, NamespaceExists(e, w) PROVE CatalogInv'
    BY <1>0, <2>2, GotoStep DEF NamespaceExists, LookUpTable, Cached, CatalogInv, WriterTypes,
                                catalogVars
  <2>3. ASSUME NEW w \in Callers, CreateNamespace(e, w) PROVE CatalogInv'
    BY <1>0, <2>3, GotoStep DEF CreateNamespace, LookUpTable, Cached, CatalogInv, WriterTypes
  <2>4. ASSUME NEW w \in Callers, TableExists(e, w) PROVE CatalogInv'
    BY <1>0, <2>4, GotoStep DEF TableExists, CatalogInv, catalogVars, cacheVars
  <2>5. ASSUME NEW w \in Callers, LoadTable(e, w) PROVE CatalogInv'
    BY <1>0, <2>5, GotoStep DEF LoadTable, HasTable, Cached, CatalogInv, WriterTypes, catalogVars
  <2>6. ASSUME NEW w \in Callers, CreateTable(e, w, Schema(e)) PROVE CatalogInv'
    BY <1>0, <2>0, <2>6, GotoStep DEF CreateTable, HasTable, Cached, CatalogInv, WriterTypes
  <2>7. ASSUME NEW w \in Callers, CallFails(e, w, Schema(e)) PROVE CatalogInv'
    BY <1>0, <2>0, <2>7, GotoStep DEF CallFails, CatalogInv, catalogVars, cacheVars
  <2>8. CASE CommitOk(e) \/ AttemptFails(e) \/ EndCommit(e)
    BY <1>0, <2>8, GotoStep DEF CommitOk, AttemptFails, EndCommit, CatalogInv, Callers, catalogVars,
                                cacheVars
  <2>9. CASE CommitRetry(e)
    <3>1. known_namespaces[e] /\ known_tables[e]
      BY <2>9 DEF CommitRetry, FleetInv, CommitterInv
    <3> QED
      BY <1>0, <2>9, <3>1, GotoStep DEF CommitRetry, CatalogInv, Callers, catalogVars, cacheVars
  <2>10. CASE ForgetWriter(e)
    BY <1>0, <2>10 DEF ForgetWriter, CatalogInv, WriterTypes, catalogVars
  <2> QED
    BY <1>2, <2>1, <2>2, <2>3, <2>4, <2>5, <2>6, <2>7, <2>8, <2>9, <2>10 DEF WriterStep
<1> QED
  BY <1>1, <1>2, WriterSteps
----------------------------------------------------------------------------
(* The caches of an engine only grow until its process ends, and a call of  *)
(* its committer that is not in the lookup stays out of it.                 *)
LEMMA CommitterKept ==
  ASSUME FleetTypes, CommitterInv, NEW e \in Engines,
         \A f \in Engines : /\ known_namespaces[f] => known_namespaces'[f]
                            /\ known_tables[f] => known_tables'[f],
         NEW w \in Callers, NEW p, Goto(e, w, p),
         w = "commit" => /\ p \in {"idle", "load_table", "loaded", "delay", "failed"}
                         /\ p # "idle" => known_namespaces'[e] /\ known_tables'[e],
         \A b \in Batches : cf'[b].stage \in Piped
           => cf[b].stage \in Piped \/ (known_namespaces'[Owner(b)] /\ known_tables'[Owner(b)])
  PROVE  CommitterInv'
<1>1. \A f \in Engines : call'[f]["commit"] = IF f = e /\ w = "commit" THEN p ELSE call[f]["commit"]
  BY GotoStep DEF FleetTypes, Callers
<1>2. \A b \in Batches : Owner(b) \in Engines
  BY DEF Batches, Owner
<1>3. \A f \in Engines : /\ call'[f]["commit"] \in {"idle", "load_table", "loaded", "delay", "failed"}
                         /\ call'[f]["commit"] # "idle" => known_namespaces'[f] /\ known_tables'[f]
  BY <1>1 DEF CommitterInv, CommitterOnlyLoads
<1>4. \A b \in Batches : cf'[b].stage \in Piped => known_namespaces'[Owner(b)] /\ known_tables'[Owner(b)]
  BY <1>2 DEF CommitterInv
<1> QED
  BY <1>3, <1>4 DEF CommitterInv, CommitterOnlyLoads

(* Moving CFs elsewhere gives none of them a pipeline.                      *)
LEMMA MoveStep ==
  ASSUME FleetTypes, NEW bs, NEW to, Move(bs, to), NEW b \in Batches
  PROVE  cf'[b].stage = IF b \in bs THEN to ELSE cf[b].stage
<1>1. cf[b] \in Absent \cup Present
  BY DEF FleetTypes
<1>2. [cf[b] EXCEPT !.stage = to].stage = to
  BY <1>1 DEF Absent, Present, NoCf
<1> QED
  BY <1>2 DEF Move

LEMMA RetainStep ==
  ASSUME FleetTypes, NEW bs, Retain(bs), NEW b \in Batches
  PROVE  cf'[b].stage = IF b \in bs THEN "buffered" ELSE cf[b].stage
<1>1. cf[b] \in Absent \cup Present
  BY DEF FleetTypes
<1>2. [cf[b] EXCEPT !.stage = "buffered", !.files = FALSE].stage = "buffered"
  BY <1>1 DEF Absent, Present, NoCf
<1> QED
  BY <1>2 DEF Retain

LEMMA DropStep ==
  ASSUME NEW bs, Drop(bs), NEW b \in Batches
  PROVE  IF b \in bs THEN cf'[b].stage \in {"committed", "dropped"} ELSE cf'[b] = cf[b]
BY DEF Drop, NoCf

LEMMA CommitterDown ==
  ASSUME FleetTypes, CommitterInv, NEW e \in Engines, Down(e)
  PROVE  CommitterInv'
<1>1. \A f \in Engines :
        IF f = e THEN call'[f]["commit"] = "idle"
        ELSE /\ call'[f] = call[f] /\ known_namespaces'[f] = known_namespaces[f]
             /\ known_tables'[f] = known_tables[f]
  BY DEF Down, ForgetWriter, FleetTypes, WriterTypes, Callers
<1>2. \A b \in Batches : cf'[b].stage \in Piped => Owner(b) # e /\ cf[b].stage \in Piped
  BY RetainStep DEF Down, Of, Piped, InMemory
<1>3. \A b \in Batches : Owner(b) \in Engines
  BY DEF Batches, Owner
<1>4. CommitterOnlyLoads'
  BY <1>1 DEF CommitterInv, CommitterOnlyLoads
<1> QED
  BY <1>1, <1>2, <1>3, <1>4 DEF CommitterInv

LEMMA CommitterNext ==
  ASSUME FleetTypes, FleetInv, [Next]_vars
  PROVE  CommitterInv'
<1>0. WriterTypes /\ CatalogInv /\ CommitterInv
  BY DEF FleetTypes, FleetInv
<1>1. CASE UNCHANGED vars
  BY <1>0, <1>1 DEF vars, writerVars, cacheVars, CommitterInv, CommitterOnlyLoads
<1>2. ASSUME Next PROVE CommitterInv'
  <2>0. PICK e \in Engines :
          \/ \E d \in DOMAIN Deployments : Start(e, d)
          \/ StartLoop(e) \/ Exit(e) \/ Crash(e)
          \/ \E c \in DOMAIN Clients, b \in Batches : Ingest(e, c, b)
          \/ Flush(e) \/ Commit(e)
          \/ \E b \in Of(e, {"compile"}) : Compile(b)
    BY <1>2 DEF Next
  <2>1. ASSUME UNCHANGED writerVars, \A b \in Batches : cf'[b].stage \in Piped => cf[b].stage \in Piped
        PROVE  CommitterInv'
    BY <1>0, <2>1 DEF writerVars, cacheVars, CommitterInv, CommitterOnlyLoads
  <2>2. ASSUME NEW d \in DOMAIN Deployments, Start(e, d) PROVE CommitterInv'
    BY <2>1, <2>2 DEF Start
  <2>3. CASE StartLoop(e) \/ Exit(e) \/ Crash(e)
    BY <1>0, <2>1, <2>3, CommitterDown DEF StartLoop, Exit, Crash
  <2>4. ASSUME NEW c \in DOMAIN Clients, NEW b \in Batches, Ingest(e, c, b) PROVE CommitterInv'
    <3>1. \A x \in Batches : cf'[x].stage \in Piped => cf[x].stage \in Piped
      BY <2>4 DEF Ingest, FleetTypes, Piped
    <3> QED
      BY <2>1, <2>4, <3>1 DEF Ingest
  <2>5. CASE FlushStart(e)
    <3>1. \A b \in Batches : cf'[b].stage \in Piped => cf[b].stage \in Piped
      BY <2>5, MoveStep DEF FlushStart, Piped
    <3>2. PICK p : Goto(e, "flush", p)
      BY <2>5 DEF FlushStart, GetOrCreateTable
    <3> QED
      BY <1>0, <2>5, <3>1, <3>2, CommitterKept DEF FlushStart, GetOrCreateTable, cacheVars, Callers
  <2>6. CASE LookUp(e)
    <3>1. PICK w \in Callers : NamespaceExists(e, w) \/ CreateNamespace(e, w) \/ TableExists(e, w)
      BY <2>6 DEF LookUp
    <3>2. w = "flush"
      BY <1>0, <3>1 DEF NamespaceExists, CreateNamespace, TableExists, CommitterInv,
                        CommitterOnlyLoads, Callers
    <3>3. PICK p : Goto(e, "flush", p)
      BY <3>1, <3>2 DEF NamespaceExists, CreateNamespace, TableExists
    <3>4. \A f \in Engines : /\ known_namespaces[f] => known_namespaces'[f]
                             /\ known_tables[f] => known_tables'[f]
      BY <1>0, <3>1 DEF NamespaceExists, CreateNamespace, TableExists, Cached, cacheVars, WriterTypes
    <3> QED
      BY <1>0, <2>6, <3>3, <3>4, CommitterKept DEF LookUp, Callers
  <2>7. CASE TableOk(e)
    <3>1. PICK w \in Callers : /\ LoadTable(e, w) \/ CreateTable(e, w, Schema(e))
                               /\ Move(Taken(e, w), "compile")
      BY <2>7 DEF TableOk
    <3>2. /\ known_namespaces' = known_namespaces /\ known_namespaces[e]
          /\ known_tables' = Cached(known_tables, e)
      BY <1>0, <3>1 DEF LoadTable, CreateTable, CatalogInv
    <3>3. \A f \in Engines : known_tables[f] => known_tables'[f]
      BY <1>0, <3>2 DEF Cached, WriterTypes
    <3>4. known_tables'[e]
      BY <1>0, <3>2 DEF Cached, WriterTypes
    <3>5. \A b \in Batches : cf'[b].stage \in Piped => cf[b].stage \in Piped \/ Owner(b) = e
      BY <3>1, MoveStep DEF Taken, Of
    <3>6. PICK p \in {"idle", "loaded"} : Goto(e, w, p)
      BY <3>1 DEF LoadTable, CreateTable, HasTable
    <3> QED
      BY <1>0, <3>2, <3>3, <3>4, <3>5, <3>6, CommitterKept
  <2>8. CASE TableFails(e)
    <3>1. PICK w \in Callers : CallFails(e, w, Schema(e)) /\ Move(Taken(e, w), "stranded")
      BY <2>8 DEF TableFails
    <3>2. \A b \in Batches : cf'[b].stage \in Piped => cf[b].stage \in Piped
      BY <3>1, MoveStep DEF Piped
    <3>3. UNCHANGED cacheVars
      BY <3>1 DEF CallFails
    <3>4. call[e][w] # "idle"
      BY <3>1 DEF CallFails, Exists
    <3>5. PICK p : Goto(e, w, p) /\ (w = "commit" => p = "failed")
      BY <3>1 DEF CallFails
    <3>6. w = "commit" => known_namespaces[e] /\ known_tables[e]
      BY <1>0, <3>4 DEF CommitterInv
    <3> QED
      BY <1>0, <3>2, <3>3, <3>5, <3>6, CommitterKept DEF cacheVars
  <2>9. CASE CommitStart(e)
    <3>1. CASE Move(Of(e, {"queued"}), "commit") /\ GetOrCreateTable(e, "commit")
      <4>1. PICK b \in Batches : Owner(b) = e /\ cf[b].stage = "queued"
        BY <2>9 DEF CommitStart, Of
      <4>2. known_namespaces[e] /\ known_tables[e]
        BY <1>0, <4>1 DEF CommitterInv, Piped
      <4>3. Goto(e, "commit", "load_table") /\ UNCHANGED cacheVars
        BY <3>1, <4>2 DEF GetOrCreateTable, LookUpTable
      <4>4. \A x \in Batches : cf'[x].stage \in Piped => cf[x].stage \in Piped
        BY <3>1, MoveStep DEF Piped, Of
      <4> QED
        BY <1>0, <4>2, <4>3, <4>4, CommitterKept DEF cacheVars, Callers
    <3>2. CASE Drop(Of(e, {"queued"})) /\ NoFault /\ UNCHANGED writerVars
      <4>1. \A b \in Batches : cf'[b].stage \in Piped => cf[b].stage \in Piped
        BY <3>2, DropStep DEF Piped
      <4> QED
        BY <2>1, <3>2, <4>1
    <3> QED
      BY <2>9, <3>1, <3>2 DEF CommitStart
  <2>10. CASE CommitDone(e) \/ Attempt(e) \/ CommitGivenUp(e)
    <3>1. \A b \in Batches : cf'[b].stage \in Piped => cf[b].stage \in Piped
      BY <2>10, DropStep, RetainStep DEF CommitDone, Attempt, CommitGivenUp, Piped
    <3>2. UNCHANGED cacheVars /\ call[e]["commit"] # "idle"
      BY <2>10 DEF CommitDone, Attempt, CommitGivenUp, CommitOk, AttemptFails, CommitRetry, EndCommit
    <3>3. PICK p \in {"idle", "delay", "failed", "load_table"} : Goto(e, "commit", p)
      BY <2>10 DEF CommitDone, Attempt, CommitGivenUp, CommitOk, AttemptFails, CommitRetry, EndCommit
    <3>4. known_namespaces[e] /\ known_tables[e]
      BY <1>0, <3>2 DEF CommitterInv
    <3> QED
      BY <1>0, <3>1, <3>2, <3>3, <3>4, CommitterKept DEF cacheVars, Callers
  <2>11. ASSUME NEW b \in Of(e, {"compile"}), Compile(b) PROVE CommitterInv'
    <3>1. b \in Batches /\ cf[b].stage \in Piped
      BY DEF Of, Piped
    <3>2. \A x \in Batches : cf'[x].stage \in Piped => cf[x].stage \in Piped
      <4>1. CASE Retain({b})
        BY <4>1, RetainStep DEF Piped
      <4>2. CASE Move({b}, "queued")
        BY <3>1, <4>2, MoveStep
      <4>3. CASE cf' = [cf EXCEPT ![b].stage = "queued", ![b].files = TRUE]
        <5>1. \A x \in Batches : x # b => cf'[x] = cf[x]
          BY <4>3 DEF FleetTypes
        <5> QED
          BY <3>1, <5>1
      <4> QED
        BY <2>11, <4>1, <4>2, <4>3 DEF Compile
    <3> QED
      BY <2>1, <2>11, <3>2 DEF Compile
  <2> QED
    BY <2>0, <2>2, <2>3, <2>4, <2>5, <2>6, <2>7, <2>8, <2>9, <2>10, <2>11 DEF Flush, Commit
<1> QED
  BY <1>1, <1>2
----------------------------------------------------------------------------
(* What the events of commit_with_retry do to its debt.                     *)
LEMMA RetrySteps ==
  ASSUME NEW r \in RetryState, NEW p \in Places, RetryOwed(r, p)
  PROVE  /\ RetryOwed(NoRetry, "idle")
         /\ RetryOwed(Moved(r), p)
         /\ p = "idle" => \A q \in {"load_table", "table_exists", "namespace_exists"} :
                             RetryOwed([r EXCEPT !.attempt = 1], q)
         /\ p # "idle" => RetryOwed([r EXCEPT !.moved = FALSE], "loaded")
         /\ p # "idle" => RetryOwed([r EXCEPT !.against = @ + 1], "failed")
         /\ p = "delay" => RetryOwed([r EXCEPT !.attempt = @ + 1], "load_table")
         /\ \A s \in {r, Moved(r), [r EXCEPT !.against = @ + 1]} :
              p = "loaded" /\ (s = r => r.moved)
                => RetryOwed(s, IF r.attempt < MaxAttempts THEN "delay" ELSE "failed")
<1>0. r.attempt \in Nat /\ r.against \in Nat
  BY WriterAssumption DEF RetryState
<1>1. RetryOwed(NoRetry, "idle")
  BY DEF RetryOwed, NoRetry
<1>2. p # "idle" => r # NoRetry
  BY DEF RetryOwed, NoRetry
<1>3. p # "idle" => Moved(r) = [r EXCEPT !.moved = TRUE, !.against = @ + 1]
  BY <1>2 DEF Moved
<1>4. RetryOwed(Moved(r), p)
  <2>1. CASE p = "idle"
    BY <2>1 DEF RetryOwed, Moved
  <2>2. CASE p # "idle"
    <3>1. /\ Moved(r).attempt = r.attempt /\ Moved(r).against = r.against + 1
      BY <1>3, <2>2 DEF RetryState
    <3> QED
      BY <1>0, <2>2, <3>1 DEF RetryOwed
  <2> QED
    BY <2>1, <2>2
<1>5. ASSUME p = "idle", NEW q \in {"load_table", "table_exists", "namespace_exists"}
      PROVE  RetryOwed([r EXCEPT !.attempt = 1], q)
  <2>1. r = NoRetry
    BY <1>5 DEF RetryOwed
  <2> QED
    BY <2>1 DEF RetryOwed, NoRetry
<1>6. p # "idle" => RetryOwed([r EXCEPT !.moved = FALSE], "loaded")
  <2>1. /\ [r EXCEPT !.moved = FALSE].attempt = r.attempt
        /\ [r EXCEPT !.moved = FALSE].against = r.against /\ [r EXCEPT !.moved = FALSE].moved = FALSE
    BY DEF RetryState
  <2> QED
    BY <2>1 DEF RetryOwed
<1>7. /\ [r EXCEPT !.against = @ + 1].attempt = r.attempt
      /\ [r EXCEPT !.against = @ + 1].against = r.against + 1
  BY DEF RetryState
<1>8. p # "idle" => RetryOwed([r EXCEPT !.against = @ + 1], "failed")
  BY <1>0, <1>7 DEF RetryOwed
<1>9. p = "delay" => RetryOwed([r EXCEPT !.attempt = @ + 1], "load_table")
  <2>1. /\ [r EXCEPT !.attempt = @ + 1].attempt = r.attempt + 1
        /\ [r EXCEPT !.attempt = @ + 1].against = r.against
    BY DEF RetryState
  <2> QED
    BY <1>0, <2>1 DEF RetryOwed
<1>10. ASSUME NEW s \in {r, Moved(r), [r EXCEPT !.against = @ + 1]}, p = "loaded", s = r => r.moved
       PROVE  RetryOwed(s, IF r.attempt < MaxAttempts THEN "delay" ELSE "failed")
  <2>1. /\ s.attempt = r.attempt /\ r.attempt > 0
        /\ IF s = r THEN s.attempt <= s.against ELSE s.against = r.against + 1
    <3>1. s # r => s.attempt = r.attempt /\ s.against = r.against + 1
      BY <1>3, <1>7, <1>10 DEF RetryState
    <3> QED
      BY <1>10, <3>1 DEF RetryOwed
  <2>2. s.attempt <= s.against /\ s.against \in Nat
    BY <1>0, <2>1 DEF RetryOwed
  <2> QED
    BY <1>0, <2>1, <2>2 DEF RetryOwed
<1> QED
  BY <1>1, <1>4, <1>5, <1>6, <1>8, <1>9, <1>10

LEMMA RetryNext ==
  ASSUME FleetTypes, FleetInv, [Next]_vars
  PROVE  RetryInv'
<1>0. /\ WriterTypes /\ RetryInv /\ CommitterOnlyLoads
      /\ \A f \in Engines : retry[f] \in RetryState /\ call[f]["commit"] \in Places
                              /\ RetryOwed(retry[f], call[f]["commit"])
  BY DEF FleetTypes, WriterTypes, FleetInv, CommitterInv, RetryInv, Callers
<1>1. CASE UNCHANGED writerVars
  BY <1>0, <1>1 DEF writerVars, RetryInv
<1>2. ASSUME NEW e \in Engines, WriterStep(e) PROVE RetryInv'
  <2>1. ASSUME NEW p, NEW r, Goto(e, "commit", p), retry' = [retry EXCEPT ![e] = r], RetryOwed(r, p)
        PROVE  RetryInv'
    <3>1. \A f \in Engines : call'[f]["commit"] = IF f = e THEN p ELSE call[f]["commit"]
      BY <1>0, <2>1, GotoStep DEF Callers
    <3>2. \A f \in Engines : retry'[f] = IF f = e THEN r ELSE retry[f]
      BY <1>0, <2>1 DEF WriterTypes
    <3>3. \A f \in Engines : RetryOwed(retry'[f], call'[f]["commit"])
      BY <1>0, <2>1, <3>1, <3>2
    <3> QED
      BY <3>3 DEF RetryInv, RetryOwed, NoRetry
  <2>2. ASSUME NEW p, Goto(e, "flush", p), retry' = retry PROVE RetryInv'
    <3>1. \A f \in Engines : call'[f]["commit"] = call[f]["commit"]
      BY <1>0, <2>2, GotoStep DEF Callers
    <3> QED
      BY <1>0, <2>2, <3>1 DEF RetryInv
  <2>3. ASSUME NEW w \in Callers, GetOrCreateTable(e, w) PROVE RetryInv'
    <3>1. CASE w = "flush"
      BY <2>2, <2>3, <3>1 DEF GetOrCreateTable
    <3>2. CASE w = "commit"
      <4>1. PICK q \in {"load_table", "table_exists", "namespace_exists"} : Goto(e, "commit", q)
        BY <2>3, <3>2 DEF GetOrCreateTable, LookUpTable
      <4>2. RetryOwed([retry[e] EXCEPT !.attempt = 1], q)
        BY <1>0, <2>3, <3>2, RetrySteps DEF GetOrCreateTable
      <4>3. retry' = [retry EXCEPT ![e] = [retry[e] EXCEPT !.attempt = 1]]
        BY <2>3, <3>2 DEF GetOrCreateTable
      <4> QED
        BY <2>1, <4>1, <4>2, <4>3
    <3> QED
      BY <3>1, <3>2 DEF Callers
  <2>4. ASSUME NEW w \in Callers, \/ NamespaceExists(e, w) \/ CreateNamespace(e, w) \/ TableExists(e, w)
                                  \/ CreateTable(e, w, Schema(e))
        PROVE  RetryInv'
    <3>1. w = "flush"
      BY <1>0, <2>4 DEF NamespaceExists, CreateNamespace, TableExists, CreateTable, CommitterOnlyLoads,
                        Callers
    <3> QED
      BY <2>2, <2>4, <3>1 DEF NamespaceExists, CreateNamespace, TableExists, CreateTable, HasTable
  <2>5. ASSUME NEW w \in Callers, LoadTable(e, w) PROVE RetryInv'
    <3>1. CASE w = "flush"
      BY <2>2, <2>5, <3>1 DEF LoadTable, HasTable
    <3>2. CASE w = "commit"
      <4>1. Goto(e, "commit", "loaded") /\ retry' = [retry EXCEPT ![e] = [retry[e] EXCEPT !.moved = FALSE]]
        BY <2>5, <3>2 DEF LoadTable, HasTable
      <4>2. RetryOwed([retry[e] EXCEPT !.moved = FALSE], "loaded")
        BY <1>0, <2>5, <3>2, RetrySteps DEF LoadTable
      <4> QED
        BY <2>1, <4>1, <4>2
    <3> QED
      BY <3>1, <3>2 DEF Callers
  <2>6. ASSUME NEW w \in Callers, CallFails(e, w, Schema(e)) PROVE RetryInv'
    <3>1. CASE w = "flush"
      BY <2>2, <2>6, <3>1 DEF CallFails
    <3>2. CASE w = "commit"
      <4>1. /\ Goto(e, "commit", "failed")
            /\ retry' = [retry EXCEPT ![e] = [retry[e] EXCEPT !.against = @ + 1]]
        BY <2>6, <3>2 DEF CallFails
      <4>2. call[e]["commit"] # "idle"
        BY <2>6, <3>2 DEF CallFails, Exists
      <4>3. RetryOwed([retry[e] EXCEPT !.against = @ + 1], "failed")
        BY <1>0, <4>2, RetrySteps
      <4> QED
        BY <2>1, <4>1, <4>3
    <3> QED
      BY <3>1, <3>2 DEF Callers
  <2>7. CASE CommitOk(e)
    <3>1. \A f \in Engines : call'[f]["commit"] = IF f = e THEN "idle" ELSE call[f]["commit"]
      BY <1>0, <2>7, GotoStep DEF CommitOk, Callers
    <3>2. \A f \in Engines : retry'[f] = IF f = e THEN NoRetry ELSE Moved(retry[f])
      BY <2>7 DEF CommitOk
    <3>3. \A f \in Engines : RetryOwed(NoRetry, "idle") /\ RetryOwed(Moved(retry[f]), call[f]["commit"])
      BY <1>0, RetrySteps
    <3>4. \A f \in Engines : RetryOwed(retry'[f], call'[f]["commit"])
      BY <3>1, <3>2, <3>3
    <3> QED
      BY <3>4 DEF RetryInv, RetryOwed, NoRetry
  <2>8. CASE AttemptFails(e)
    <3> DEFINE q == IF retry[e].attempt < MaxAttempts THEN "delay" ELSE "failed"
    <3>1. Goto(e, "commit", q) /\ call[e]["commit"] = "loaded"
      BY <2>8 DEF AttemptFails, MayRetry
    <3>2. CASE retry[e].moved /\ NoFault /\ UNCHANGED retry
      <4>1. RetryOwed(retry[e], q)
        BY <1>0, <3>1, <3>2, RetrySteps
      <4>2. retry' = [retry EXCEPT ![e] = retry[e]]
        BY <1>0, <3>2 DEF WriterTypes
      <4> QED
        BY <2>1, <3>1, <4>1, <4>2
    <3>3. CASE retry' = [retry EXCEPT ![e].against = @ + 1]
      <4>1. retry' = [retry EXCEPT ![e] = [retry[e] EXCEPT !.against = @ + 1]]
        BY <3>3
      <4>2. [retry[e] EXCEPT !.against = @ + 1] # retry[e]
        BY <1>0 DEF RetryState
      <4>3. RetryOwed([retry[e] EXCEPT !.against = @ + 1], q)
        BY <1>0, <3>1, <4>2, RetrySteps
      <4> QED
        BY <2>1, <3>1, <4>1, <4>3
    <3>4. CASE retry' = [f \in Engines |-> Moved(retry[f])]
      <4>1. retry[e] # NoRetry
        BY <1>0, <3>1 DEF RetryOwed, NoRetry
      <4>2. Moved(retry[e]) # retry[e]
        <5>1. retry[e].against \in Nat /\ Moved(retry[e]).against = retry[e].against + 1
          BY <1>0, <4>1 DEF RetryState, Moved
        <5>2. Moved(retry[e]).against # retry[e].against
          BY <5>1
        <5> QED
          BY <5>2
      <4>3. RetryOwed(Moved(retry[e]), q)
        BY <1>0, <3>1, <4>2, RetrySteps
      <4>4. \A f \in Engines : call'[f]["commit"] = IF f = e THEN q ELSE call[f]["commit"]
        BY <1>0, <3>1, GotoStep DEF Callers
      <4>5. \A f \in Engines : RetryOwed(Moved(retry[f]), call[f]["commit"])
        BY <1>0, RetrySteps
      <4> HIDE DEF q
      <4>6. \A f \in Engines : RetryOwed(retry'[f], call'[f]["commit"])
        BY <3>4, <4>3, <4>4, <4>5
      <4> QED
        BY <4>6 DEF RetryInv, RetryOwed, NoRetry
    <3> QED
      BY <2>8, <3>2, <3>3, <3>4 DEF AttemptFails
  <2>9. CASE CommitRetry(e)
    <3>1. /\ Goto(e, "commit", "load_table") /\ call[e]["commit"] = "delay"
          /\ retry' = [retry EXCEPT ![e] = [retry[e] EXCEPT !.attempt = @ + 1]]
      BY <2>9 DEF CommitRetry
    <3>2. RetryOwed([retry[e] EXCEPT !.attempt = @ + 1], "load_table")
      BY <1>0, <3>1, RetrySteps
    <3> QED
      BY <2>1, <3>1, <3>2
  <2>10. RetryOwed(NoRetry, "idle")
    BY <1>0, RetrySteps
  <2>11. CASE EndCommit(e)
    BY <2>1, <2>10, <2>11 DEF EndCommit
  <2>12. CASE ForgetWriter(e)
    <3>1. \A f \in Engines : call'[f]["commit"] = IF f = e THEN "idle" ELSE call[f]["commit"]
      BY <1>0, <2>12 DEF ForgetWriter, WriterTypes, Callers
    <3>2. \A f \in Engines : retry'[f] = IF f = e THEN NoRetry ELSE retry[f]
      BY <1>0, <2>12 DEF ForgetWriter, WriterTypes
    <3>3. \A f \in Engines : RetryOwed(retry'[f], call'[f]["commit"])
      BY <1>0, <2>10, <3>1, <3>2
    <3> QED
      BY <3>3 DEF RetryInv, RetryOwed, NoRetry
  <2> QED
    BY <1>2, <2>3, <2>4, <2>5, <2>6, <2>7, <2>8, <2>9, <2>11, <2>12 DEF WriterStep
<1> QED
  BY <1>1, <1>2, WriterSteps
----------------------------------------------------------------------------
(* An engine can be beaten to the namespace while there is none or it is    *)
(* about to create it, and to the table likewise.                           *)
MayLoseNamespace(e) == ~namespace \/ call[e]["flush"] = "create_namespace"
MayLoseTable(e) == table = NoTable \/ call[e]["flush"] = "create_table"

LEMMA RacesKept ==
  ASSUME FleetTypes, RacesInv, races' = races,
         \A f \in Engines : /\ MayLoseNamespace(f)' => MayLoseNamespace(f)
                            /\ MayLoseTable(f)' => MayLoseTable(f)
  PROVE  RacesInv'
<1> SUFFICES ASSUME NEW f \in Engines
             PROVE  races'[f] + Chance(MayLoseNamespace(f)') + Chance(MayLoseTable(f)') <= 2
  BY DEF RacesInv, Chance, MayLoseNamespace, MayLoseTable
<1>1. races'[f] \in Nat /\ races'[f] + Chance(MayLoseNamespace(f)) + Chance(MayLoseTable(f)) <= 2
  BY DEF RacesInv, MayLoseNamespace, MayLoseTable, FleetTypes, WriterTypes
<1>2. /\ Chance(MayLoseNamespace(f)) \in {0, 1} /\ Chance(MayLoseNamespace(f)') \in {0, 1}
      /\ Chance(MayLoseTable(f)) \in {0, 1} /\ Chance(MayLoseTable(f)') \in {0, 1}
      /\ Chance(MayLoseNamespace(f)') <= Chance(MayLoseNamespace(f))
      /\ Chance(MayLoseTable(f)') <= Chance(MayLoseTable(f))
  BY DEF Chance
<1> QED
  BY <1>1, <1>2

LEMMA RacesLost ==
  ASSUME FleetTypes, RacesInv, NEW e \in Engines, races' = [races EXCEPT ![e] = @ + 1],
         \A f \in Engines : /\ MayLoseNamespace(f)' => MayLoseNamespace(f)
                            /\ MayLoseTable(f)' => MayLoseTable(f),
         \/ MayLoseNamespace(e) /\ ~MayLoseNamespace(e)'
         \/ MayLoseTable(e) /\ ~MayLoseTable(e)'
  PROVE  RacesInv'
<1> SUFFICES ASSUME NEW f \in Engines
             PROVE  races'[f] + Chance(MayLoseNamespace(f)') + Chance(MayLoseTable(f)') <= 2
  BY DEF RacesInv, Chance, MayLoseNamespace, MayLoseTable
<1>1. races[f] \in Nat /\ races[f] + Chance(MayLoseNamespace(f)) + Chance(MayLoseTable(f)) <= 2
  BY DEF RacesInv, MayLoseNamespace, MayLoseTable, FleetTypes, WriterTypes
<1>2. /\ Chance(MayLoseNamespace(f)) \in {0, 1} /\ Chance(MayLoseNamespace(f)') \in {0, 1}
      /\ Chance(MayLoseTable(f)) \in {0, 1} /\ Chance(MayLoseTable(f)') \in {0, 1}
      /\ Chance(MayLoseNamespace(f)') <= Chance(MayLoseNamespace(f))
      /\ Chance(MayLoseTable(f)') <= Chance(MayLoseTable(f))
  BY DEF Chance
<1>3. f = e => \/ Chance(MayLoseNamespace(f)') < Chance(MayLoseNamespace(f))
               \/ Chance(MayLoseTable(f)') < Chance(MayLoseTable(f))
  BY DEF Chance
<1>4. races'[f] = IF f = e THEN races[f] + 1 ELSE races[f]
  BY DEF FleetTypes, WriterTypes
<1> QED
  BY <1>1, <1>2, <1>3, <1>4

LEMMA RacesNext ==
  ASSUME FleetTypes, FleetInv, [Next]_vars
  PROVE  RacesInv'
<1>0. WriterTypes /\ RacesInv /\ CommitterOnlyLoads
  BY DEF FleetTypes, FleetInv, CommitterInv
<1>1. CASE UNCHANGED writerVars
  BY <1>0, <1>1, RacesKept DEF writerVars, catalogVars, MayLoseNamespace, MayLoseTable
<1>2. ASSUME NEW e \in Engines, WriterStep(e) PROVE RacesInv'
  <2>0. Schema(e) # NoTable
    BY SchemaIsTable DEF Schema
  <2>1. ASSUME NEW w \in Callers,
               \/ GetOrCreateTable(e, w) \/ NamespaceExists(e, w) \/ CreateNamespace(e, w)
               \/ TableExists(e, w) \/ LoadTable(e, w) \/ CreateTable(e, w, Schema(e))
        PROVE  RacesInv'
    <3>1. races' = races
      BY <2>1 DEF GetOrCreateTable, NamespaceExists, CreateNamespace, TableExists, LoadTable,
                  CreateTable
    <3>2. /\ namespace => namespace'
          /\ table # NoTable => table' # NoTable
      BY <2>0, <2>1 DEF GetOrCreateTable, NamespaceExists, CreateNamespace, TableExists, LoadTable,
                        CreateTable, catalogVars
    <3>3. PICK p : /\ Goto(e, w, p)
                   /\ p = "create_namespace" => ~namespace
                   /\ p = "create_table" => table = NoTable
      BY <2>1 DEF GetOrCreateTable, NamespaceExists, CreateNamespace, TableExists, LoadTable,
                  CreateTable, HasTable, LookUpTable
    <3>4. \A f \in Engines : call'[f]["flush"] = IF f = e /\ w = "flush" THEN p ELSE call[f]["flush"]
      BY <1>0, <3>3, GotoStep DEF Callers
    <3> QED
      BY <1>0, <3>1, <3>2, <3>3, <3>4, RacesKept DEF MayLoseNamespace, MayLoseTable
  <2>2. ASSUME NEW w \in Callers, CallFails(e, w, Schema(e)) PROVE RacesInv'
    <3>1. /\ namespace => namespace'
          /\ table # NoTable => table' # NoTable
      BY <2>0, <2>2 DEF CallFails, catalogVars
    <3>2. PICK p \in {"idle", "failed"} : Goto(e, w, p)
      BY <2>2 DEF CallFails
    <3>3. \A f \in Engines : call'[f]["flush"] = IF f = e /\ w = "flush" THEN p ELSE call[f]["flush"]
      BY <1>0, <3>2, GotoStep DEF Callers
    <3>4. \A f \in Engines : /\ MayLoseNamespace(f)' => MayLoseNamespace(f)
                             /\ MayLoseTable(f)' => MayLoseTable(f)
      BY <3>1, <3>3 DEF MayLoseNamespace, MayLoseTable
    <3>5. CASE faults' = faults
      <4>1. Exists(e, w) /\ UNCHANGED catalogVars
        <5>1. \A k : ~Fault(k)
          BY <1>0, <3>5 DEF Fault, WriterTypes
        <5> QED
          BY <2>2, <5>1 DEF CallFails
      <4>2. w = "flush"
        BY <1>0, <4>1 DEF Exists, CommitterOnlyLoads, Callers
      <4>3. \/ MayLoseNamespace(e) /\ ~MayLoseNamespace(e)'
            \/ MayLoseTable(e) /\ ~MayLoseTable(e)'
        BY <3>3, <4>1, <4>2 DEF Exists, MayLoseNamespace, MayLoseTable, catalogVars
      <4>4. races' = [races EXCEPT ![e] = @ + 1]
        BY <2>2, <3>5 DEF CallFails
      <4> QED
        BY <1>0, <3>4, <4>3, <4>4, RacesLost
    <3>6. CASE faults' # faults
      BY <1>0, <2>2, <3>4, <3>6, RacesKept DEF CallFails
    <3> QED
      BY <3>5, <3>6
  <2>3. CASE CommitOk(e) \/ AttemptFails(e) \/ CommitRetry(e) \/ EndCommit(e)
    <3>1. PICK p : Goto(e, "commit", p)
      BY <2>3 DEF CommitOk, AttemptFails, CommitRetry, EndCommit
    <3>2. \A f \in Engines : call'[f]["flush"] = call[f]["flush"]
      BY <1>0, <3>1, GotoStep DEF Callers
    <3>3. races' = races /\ UNCHANGED catalogVars
      BY <2>3 DEF CommitOk, AttemptFails, CommitRetry, EndCommit
    <3> QED
      BY <1>0, <3>2, <3>3, RacesKept DEF MayLoseNamespace, MayLoseTable, catalogVars
  <2>4. CASE ForgetWriter(e)
    <3>1. \A f \in Engines : call'[f]["flush"] = IF f = e THEN "idle" ELSE call[f]["flush"]
      BY <1>0, <2>4 DEF ForgetWriter, WriterTypes, Callers
    <3> QED
      BY <1>0, <2>4, <3>1, RacesKept DEF ForgetWriter, MayLoseNamespace, MayLoseTable, catalogVars
  <2> QED
    BY <1>2, <2>1, <2>2, <2>3, <2>4 DEF WriterStep
<1> QED
  BY <1>1, <1>2, WriterSteps

(* Only Start changes what an engine is deployed with, and it looks at it.  *)
LEMMA ConfigNext ==
  ASSUME FleetTypes, ConfigInv, [Next]_vars
  PROVE  ConfigInv'
<1>1. CASE UNCHANGED deployed
  BY <1>1 DEF ConfigInv, Up, Config
<1>2. ASSUME NEW e \in Engines, deployed' = [deployed EXCEPT ![e] = "down"] PROVE ConfigInv'
  BY <1>2 DEF ConfigInv, Up, Config, FleetTypes
<1>3. ASSUME NEW e \in Engines, NEW d \in DOMAIN Deployments, Start(e, d) PROVE ConfigInv'
  BY <1>3 DEF Start, ConfigInv, Up, Config, FleetTypes
<1>4. \/ UNCHANGED deployed
      \/ \E e \in Engines : \/ deployed' = [deployed EXCEPT ![e] = "down"]
                            \/ \E d \in DOMAIN Deployments : Start(e, d)
  BY DEF Next, StartLoop, Exit, Crash, Down, Ingest, Flush, FlushStart, LookUp, TableOk, TableFails,
         Commit, CommitStart, CommitDone, Attempt, CommitGivenUp, Compile, vars
<1> QED
  BY <1>1, <1>2, <1>3, <1>4

(* A batch keeps its origin from Ingest until it is dropped.                *)
LEMMA OriginNext ==
  ASSUME FleetTypes, FleetInv, [Next]_vars
  PROVE  OriginInv'
<1> DEFINE held == {"buffered"} \cup InMemory
<1> SUFFICES ASSUME NEW b \in Batches, cf'[b].stage \in held
             PROVE  FromEnv(Deployments[cf'[b].origin].env) # Refused
  BY DEF OriginInv
<1>0. \A x \in Batches : cf[x] \in Absent \cup Present
  BY DEF FleetTypes
<1>1. \A x \in Batches : \A to :
        /\ [cf[x] EXCEPT !.stage = to].origin = cf[x].origin
        /\ [cf[x] EXCEPT !.stage = "buffered", !.files = FALSE].origin = cf[x].origin
        /\ [cf[x] EXCEPT !.stage = "queued", !.files = TRUE].origin = cf[x].origin
  BY <1>0 DEF Absent, Present, NoCf
<1>2. ASSUME cf[b].stage \in held, cf'[b].origin = cf[b].origin
      PROVE  FromEnv(Deployments[cf'[b].origin].env) # Refused
  BY <1>2 DEF FleetInv, OriginInv
<1>3. ASSUME NEW bs, NEW to, Move(bs, to), \A x \in bs : cf[x].stage \in held
      PROVE  FromEnv(Deployments[cf'[b].origin].env) # Refused
  BY <1>1, <1>2, <1>3, MoveStep DEF Move
<1>4. ASSUME NEW bs, Retain(bs), \A x \in bs : cf[x].stage \in held
      PROVE  FromEnv(Deployments[cf'[b].origin].env) # Refused
  BY <1>1, <1>2, <1>4, RetainStep DEF Retain
<1>5. ASSUME NEW bs, Drop(bs)
      PROVE  FromEnv(Deployments[cf'[b].origin].env) # Refused
  <2>1. b \notin bs
    BY <1>5, DropStep DEF InMemory
  <2> QED
    BY <1>2, <1>5, <2>1 DEF Drop
<1>6. CASE UNCHANGED cf
  BY <1>2, <1>6
<1>7. ASSUME NEW e \in Engines, NEW c \in DOMAIN Clients, NEW x \in Batches, Ingest(e, c, x)
      PROVE  FromEnv(Deployments[cf'[b].origin].env) # Refused
  <2>1. CASE b = x
    <3>1. cf'[b].origin = deployed[e] /\ Config(e) # Refused
      BY <1>7, <2>1 DEF Ingest, FleetInv, ConfigInv, FleetTypes
    <3> QED
      BY <3>1 DEF Config
  <2>2. CASE b # x
    <3>1. cf'[b] = cf[b]
      BY <1>7, <2>2 DEF Ingest, FleetTypes
    <3> QED
      BY <1>2, <3>1
  <2> QED
    BY <2>1, <2>2
<1>8. ASSUME NEW x \in Batches, cf[x].stage = "compile", Compile(x)
      PROVE  FromEnv(Deployments[cf'[b].origin].env) # Refused
  <2>1. CASE Retain({x})
    BY <1>4, <1>8, <2>1 DEF InMemory
  <2>2. CASE Move({x}, "queued")
    BY <1>3, <1>8, <2>2 DEF InMemory
  <2>3. CASE cf' = [cf EXCEPT ![x].stage = "queued", ![x].files = TRUE]
    <3>1. cf' = [cf EXCEPT ![x] = [cf[x] EXCEPT !.stage = "queued", !.files = TRUE]]
      BY <1>8, <2>3 DEF FleetTypes
    <3>2. cf'[b].origin = cf[b].origin
      BY <1>1, <1>8, <3>1 DEF FleetTypes
    <3>3. cf[b].stage \in held
      BY <1>8, <3>1 DEF FleetTypes, InMemory
    <3> QED
      BY <1>2, <3>2, <3>3
  <2> QED
    BY <1>8, <2>1, <2>2, <2>3 DEF Compile
<1>9. CASE UNCHANGED vars
  BY <1>6, <1>9 DEF vars
<1>10. ASSUME Next PROVE FromEnv(Deployments[cf'[b].origin].env) # Refused
  <2>0. PICK e \in Engines :
          \/ \E d \in DOMAIN Deployments : Start(e, d)
          \/ StartLoop(e) \/ Exit(e) \/ Crash(e)
          \/ \E c \in DOMAIN Clients, x \in Batches : Ingest(e, c, x)
          \/ Flush(e) \/ Commit(e)
          \/ \E x \in Of(e, {"compile"}) : Compile(x)
    BY <1>10 DEF Next
  <2>1. \A stages \in SUBSET held : \A x \in Of(e, stages) : cf[x].stage \in held
    BY DEF Of
  <2>2. /\ InMemory \in SUBSET held /\ {"buffered"} \in SUBSET held /\ {"queued"} \in SUBSET held
        /\ {"commit"} \in SUBSET held /\ {"taken"} \in SUBSET held
    BY DEF InMemory
  <2>3. \A w \in Callers : \A x \in Taken(e, w) : cf[x].stage \in held
    BY <2>1, <2>2 DEF Taken
  <2> HIDE DEF held
  <2>4. CASE (\E d \in DOMAIN Deployments : Start(e, d)) \/ StartLoop(e) \/ Exit(e) \/ Crash(e)
    BY <1>4, <1>6, <2>1, <2>2, <2>4 DEF Start, StartLoop, Exit, Crash, Down
  <2>5. CASE Flush(e)
    BY <1>3, <1>6, <2>1, <2>2, <2>3, <2>5 DEF Flush, FlushStart, LookUp, TableOk, TableFails
  <2>6. CASE Commit(e)
    BY <1>3, <1>4, <1>5, <1>6, <2>1, <2>2, <2>6 DEF Commit, CommitStart, CommitDone, Attempt,
                                                   CommitGivenUp
  <2>7. \A x \in Of(e, {"compile"}) : x \in Batches /\ cf[x].stage = "compile"
    BY DEF Of
  <2> QED
    BY <1>7, <1>8, <2>0, <2>4, <2>5, <2>6, <2>7
<1> QED
  BY <1>9, <1>10

(* A CF without a file got so in Compile, by an engine that has run since.  *)
LEMMA LeftOutNext ==
  ASSUME FleetTypes, FleetInv, [Next]_vars
  PROVE  LeftOutInv'
<1> SUFFICES ASSUME NEW b \in Batches PROVE LeftOut(b)'
  BY DEF LeftOutInv
<1> DEFINE o == Owner(b)
           early == {"taken", "stranded", "compile"}
           late == {"queued", "commit"}
<1>0. LeftOut(b) /\ o \in Engines /\ cf[b] \in Absent \cup Present
  BY DEF FleetInv, LeftOutInv, FleetTypes, Batches, Owner
<1>1. ASSUME cf'[b].stage \notin InMemory PROVE LeftOut(b)'
  BY <1>1 DEF LeftOut, InMemory
<1>2. ASSUME cf'[b].stage \in early, deployed'[o] # "down" PROVE LeftOut(b)'
  BY <1>2 DEF LeftOut, Up
<1>3. ASSUME cf'[b].stage \in late, cf[b].stage \in late, cf'[b].files = cf[b].files,
             cf'[b].client = cf[b].client, deployed'[o] = deployed[o]
      PROVE  LeftOut(b)'
  <2>1. Struct(o)' = Struct(o) /\ Up(o)' = Up(o)
    BY <1>3 DEF Struct, Up
  <2> QED
    BY <1>0, <1>3, <2>1 DEF LeftOut, InMemory
<1>4. ASSUME cf'[b] = cf[b], deployed'[o] = deployed[o] PROVE LeftOut(b)'
  <2>1. Struct(o)' = Struct(o) /\ Up(o)' = Up(o)
    BY <1>4 DEF Struct, Up
  <2> QED
    BY <1>0, <1>4, <2>1 DEF LeftOut
<1>5. ASSUME NEW bs, NEW to, Move(bs, to), UNCHANGED deployed,
             b \in bs => \/ to \in early /\ Up(o)
                         \/ to \in late /\ cf[b].stage \in late
      PROVE  LeftOut(b)'
  <2>1. CASE b \notin bs
    BY <1>4, <1>5, <2>1 DEF Move
  <2>2. CASE b \in bs
    <3>1. cf'[b].stage = to /\ cf'[b].files = cf[b].files /\ cf'[b].client = cf[b].client
      BY <1>0, <1>5, <2>2 DEF Move, Absent, Present, NoCf
    <3> QED
      BY <1>2, <1>3, <1>5, <2>2, <3>1 DEF Up
  <2> QED
    BY <2>1, <2>2
<1>6. ASSUME NEW bs, Retain(bs), UNCHANGED deployed PROVE LeftOut(b)'
  <2>1. CASE b \in bs
    BY <1>1, <1>6, <2>1, RetainStep DEF InMemory
  <2>2. CASE b \notin bs
    BY <1>4, <1>6, <2>2 DEF Retain
  <2> QED
    BY <2>1, <2>2
<1>7. ASSUME NEW bs, Drop(bs), UNCHANGED deployed PROVE LeftOut(b)'
  BY <1>1, <1>4, <1>7, DropStep DEF InMemory
<1>8. ASSUME NEW e \in Engines, Down(e) PROVE LeftOut(b)'
  <2>1. CASE o = e
    <3>1. cf[b].stage \in InMemory => b \in Of(e, InMemory)
      BY <2>1 DEF Of
    <3>2. cf'[b].stage \notin InMemory
      BY <1>8, <3>1, RetainStep DEF Down, InMemory
    <3> QED
      BY <1>1, <3>2
  <2>2. CASE o # e
    <3>1. b \notin Of(e, InMemory)
      BY <2>2 DEF Of
    <3>2. cf'[b] = cf[b] /\ deployed'[o] = deployed[o]
      BY <1>0, <1>8, <2>2, <3>1 DEF Down, Retain, FleetTypes
    <3> QED
      BY <1>4, <3>2
  <2> QED
    BY <2>1, <2>2
<1>9. CASE UNCHANGED <<deployed, cf>>
  BY <1>4, <1>9
<1>10. ASSUME NEW e \in Engines, NEW d \in DOMAIN Deployments, Start(e, d) PROVE LeftOut(b)'
  <2>1. CASE o = e
    BY <1>0, <1>1, <1>10, <2>1 DEF Start, LeftOut
  <2>2. CASE o # e
    BY <1>0, <1>4, <1>10, <2>2 DEF Start, FleetTypes
  <2> QED
    BY <2>1, <2>2
<1>11. ASSUME NEW e \in Engines, NEW c \in DOMAIN Clients, NEW x \in Batches, Ingest(e, c, x)
       PROVE  LeftOut(b)'
  <2>1. CASE b = x
    <3>1. cf'[b].stage = "buffered"
      BY <1>11, <2>1 DEF Ingest, FleetTypes
    <3> QED
      BY <1>1, <3>1 DEF InMemory
  <2>2. CASE b # x
    BY <1>4, <1>11, <2>2 DEF Ingest, FleetTypes
  <2> QED
    BY <2>1, <2>2
<1>12. ASSUME NEW x \in Batches, cf[x].stage = "compile", Compile(x) PROVE LeftOut(b)'
  <2>0. UNCHANGED deployed
    BY <1>12 DEF Compile
  <2>1. CASE Retain({x})
    BY <1>6, <2>0, <2>1
  <2>2. CASE Move({x}, "queued") /\ ~Decodes(Struct(Owner(x)), Clients[cf[x].client].fields)
    <3>1. CASE b # x
      BY <1>5, <2>0, <2>2, <3>1
    <3>2. CASE b = x
      <4>1. cf'[b].client = cf[b].client
        BY <1>0, <2>2, <3>2 DEF Move, Absent, Present, NoCf
      <4>2. Struct(o)' = Struct(o) /\ Up(o)'
        BY <1>0, <1>12, <2>0, <3>2 DEF Struct, Up, LeftOut, InMemory
      <4> QED
        BY <2>2, <3>2, <4>1, <4>2 DEF LeftOut
    <3> QED
      BY <3>1, <3>2
  <2>3. CASE cf' = [cf EXCEPT ![x].stage = "queued", ![x].files = TRUE]
    <3>1. CASE b # x
      BY <1>4, <2>0, <2>3, <3>1 DEF FleetTypes
    <3>2. CASE b = x
      <4>1. cf'[b].files
        BY <1>0, <2>3, <3>2 DEF FleetTypes, Absent, Present, NoCf
      <4>2. Up(o)'
        BY <1>0, <1>12, <2>0, <3>2 DEF Up, LeftOut, InMemory
      <4> QED
        BY <4>1, <4>2 DEF LeftOut
    <3> QED
      BY <3>1, <3>2
  <2> QED
    BY <1>12, <2>1, <2>2, <2>3 DEF Compile
<1>13. CASE UNCHANGED vars
  BY <1>9, <1>13 DEF vars
<1>14. ASSUME Next PROVE LeftOut(b)'
  <2>0. PICK e \in Engines :
          \/ \E d \in DOMAIN Deployments : Start(e, d)
          \/ StartLoop(e) \/ Exit(e) \/ Crash(e)
          \/ \E c \in DOMAIN Clients, x \in Batches : Ingest(e, c, x)
          \/ Flush(e) \/ Commit(e)
          \/ \E x \in Of(e, {"compile"}) : Compile(x)
    BY <1>14 DEF Next
  <2>1. \A stages : b \in Of(e, stages) => o = e /\ cf[b].stage \in stages
    BY DEF Of
  <2>2. CASE StartLoop(e) \/ Exit(e) \/ Crash(e)
    BY <1>8, <1>9, <2>2 DEF StartLoop, Exit, Crash
  <2>3. CASE FlushStart(e)
    BY <1>5, <2>1, <2>3 DEF FlushStart
  <2>4. CASE LookUp(e)
    BY <1>9, <2>4 DEF LookUp
  <2>5. CASE TableOk(e) \/ TableFails(e)
    <3>1. PICK w \in Callers, to \in {"compile", "stranded"} : Move(Taken(e, w), to)
      BY <2>5 DEF TableOk, TableFails
    <3>2. b \in Taken(e, w) => cf[b].stage = "taken"
      BY <2>1 DEF Taken
    <3>3. b \in Taken(e, w) => Up(o)
      BY <1>0, <3>2 DEF LeftOut, InMemory
    <3>4. UNCHANGED deployed
      BY <2>5 DEF TableOk, TableFails
    <3> QED
      BY <1>5, <3>1, <3>3, <3>4
  <2>6. CASE CommitStart(e)
    BY <1>5, <1>7, <2>1, <2>6 DEF CommitStart
  <2>7. CASE CommitDone(e) \/ Attempt(e) \/ CommitGivenUp(e)
    BY <1>6, <1>7, <1>9, <2>7 DEF CommitDone, Attempt, CommitGivenUp
  <2>8. \A x \in Of(e, {"compile"}) : x \in Batches /\ cf[x].stage = "compile"
    BY DEF Of
  <2> QED
    BY <1>10, <1>11, <1>12, <2>0, <2>2, <2>3, <2>4, <2>5, <2>6, <2>7, <2>8 DEF Flush, Commit
<1> QED
  BY <1>13, <1>14

LEMMA FleetInvariant == Spec => [](FleetTypes /\ FleetInv)
<1>1. Init => FleetTypes /\ FleetInv
  BY FleetInitInv
<1>2. FleetTypes /\ FleetInv /\ [Next]_vars => (FleetTypes /\ FleetInv)'
  <2> SUFFICES ASSUME FleetTypes, FleetInv, [Next]_vars PROVE FleetTypes' /\ FleetInv'
    OBVIOUS
  <2>1. FleetTypes'
    BY FleetTypesNext
  <2>2. ConfigInv'
    BY ConfigNext DEF FleetInv
  <2> QED
    BY <2>1, <2>2, CatalogNext, CommitterNext, RetryNext, RacesNext, OriginNext, LeftOutNext
       DEF FleetInv
<1> QED
  BY <1>1, <1>2, PTL DEF Spec
----------------------------------------------------------------------------
(* The readings of a type.  DefType is what config.rs takes from a file.    *)
DefType(t) == IF t.form = "string" THEN t ELSE Str("string")

(* Every name from_str knows has an Arrow type, with which those that       *)
(* build.rs knows too agree.                                                *)
LEMMA MappedNames ==
  /\ \A b \in DOMAIN MappedTypes : MappedTypes[b] \in DOMAIN ArrowTypes
  /\ "None" \notin DOMAIN ArrowTypes
  /\ DOMAIN ArrowTypes = DOMAIN IcebergTypes
  /\ "string" \in DOMAIN MappedTypes /\ MappedTypes["string"] = "String"
BY DEF MappedTypes, ArrowTypes, IcebergTypes

LEMMA RustNames ==
  /\ DOMAIN RustTypes \subseteq DOMAIN MappedTypes
  /\ \A b \in DOMAIN RustTypes : /\ RustTypes[b] \in DOMAIN ArrowOfRust
                                 /\ ArrowOfRust[RustTypes[b]] = ArrowTypes[MappedTypes[b]]
  /\ "String" \in DOMAIN ArrowOfRust /\ ArrowOfRust["String"] = "Utf8"
  /\ ArrowTypes["String"] = "Utf8"
BY DEF MappedTypes, ArrowTypes, RustTypes, ArrowOfRust

LEMMA WireNames ==
  /\ \A b \in DOMAIN RustTypes : /\ RustTypes[b] \in DOMAIN RustReads
                                 /\ MappedTypes[b] \in DOMAIN WireValues
                                 /\ RustReads[RustTypes[b]] = WireValues[MappedTypes[b]]
  /\ "String" \in DOMAIN RustReads /\ "String" \in DOMAIN WireValues
  /\ RustReads["String"] = WireValues["String"]
BY DEF MappedTypes, RustTypes, RustReads, WireValues

LEMMA FromStrKnown ==
  ASSUME NEW t
  PROVE  FromStrOrString(t) = IF t.base \in DOMAIN MappedTypes
                              THEN [lists |-> t.lists, of |-> MappedTypes[t.base]]
                              ELSE [lists |-> 0, of |-> "String"]
BY MappedNames DEF FromStrOrString, FromStr, NoType

LEMMA DefTypeRead ==
  ASSUME NEW t
  PROVE  t.form # "string" => FromStrOrString(DefType(t)) = [lists |-> 0, of |-> "String"]
BY FromStrKnown, MappedNames DEF DefType, Str, Type

(* The column of a table and the Arrow column are made of the same type.    *)
LEMMA FileFitsTable ==
  ASSUME NEW defs
  PROVE  FitsTable(FieldDefsToArrowSchema(defs), BuildIcebergSchema(defs))
<1>1. \A t : FromStrOrString(t).of \in DOMAIN ArrowTypes
  BY FromStrKnown, MappedNames DEF ArrowTypes
<1> QED
  BY <1>1 DEF FitsTable, FieldDefsToArrowSchema, BuildIcebergSchema, ToArrow, ToIceberg

(* The struct's type of a field can be encoded as its Arrow type.           *)
FieldEncodes(t) ==
  /\ ParseType(t).of \in DOMAIN ArrowOfRust
  /\ ToArrow(FromStrOrString(DefType(t)))
       = [lists |-> ParseType(t).lists, of |-> ArrowOfRust[ParseType(t).of]]

LEMMA UsableEncodes ==
  ASSUME NEW t, Usable(t)
  PROVE  FieldEncodes(t)
<1>1. CASE t.form = "other"
  BY <1>1, DefTypeRead, RustNames DEF FieldEncodes, ParseType, ToArrow
<1>2. CASE t.form = "string" /\ t.lists = 0 /\ t.base \in DOMAIN RustTypes
  BY <1>2, FromStrKnown, RustNames DEF FieldEncodes, ParseType, ParseName, ToArrow, DefType
<1>3. CASE t.form = "string" /\ t.base \notin DOMAIN MappedTypes
  BY <1>3, FromStrKnown, RustNames DEF FieldEncodes, ParseType, ParseName, ToArrow, DefType
<1> QED
  BY <1>1, <1>2, <1>3 DEF Usable

LEMMA FileEncodes ==
  ASSUME NEW file
  PROVE  Encodes(GenerateStruct(file), FieldDefsToArrowSchema(LoadFieldDefs(file)))
           <=> \A f \in DOMAIN file : FieldEncodes(file[f].type)
BY DEF Encodes, GenerateStruct, FieldDefsToArrowSchema, LoadFieldDefs, FieldEncodes, DefType

(* What a client writes for a type the engine accepted is what the struct   *)
(* reads, if it is a type both know.                                        *)
LEMMA AcceptedReads ==
  ASSUME NEW t, Usable(t), NEW c, c.base \in DOMAIN MappedTypes, FromStr(c) = FromStr(DefType(t))
  PROVE  Reads(ParseType(t), c)
<1>0. FromStr(c) = [lists |-> c.lists, of |-> MappedTypes[c.base]] /\ MappedTypes[c.base] # "None"
  BY MappedNames DEF FromStr
<1>1. CASE t.form = "other"
  <2>1. FromStr(c) = [lists |-> 0, of |-> "String"]
    BY <1>1, MappedNames DEF FromStr, DefType, Str, Type
  <2> QED
    BY <1>1, <2>1, WireNames DEF Reads, ParseType
<1>2. CASE t.form = "string" /\ t.lists = 0 /\ t.base \in DOMAIN RustTypes
  <2>1. FromStr(c) = [lists |-> 0, of |-> MappedTypes[t.base]]
    BY <1>2, RustNames DEF FromStr, DefType
  <2> QED
    BY <1>2, <2>1, WireNames DEF Reads, ParseType, ParseName
<1>3. CASE t.form = "string" /\ t.base \notin DOMAIN MappedTypes
  BY <1>0, <1>3 DEF FromStr, DefType, NoType
<1> QED
  BY <1>1, <1>2, <1>3 DEF Usable

----------------------------------------------------------------------------
(* What an engine reads with a configuration that from_env let pass.        *)
LEMMA ConfigRead ==
  ASSUME NEW env, FromEnv(env) # Refused
  PROVE  FromEnv(env).field_defs = LoadFieldDefs(env.file) /\ CatalogBuilt(FromEnv(env))
BY DEF FromEnv, CatalogBuilt

(* The end of a process that has not started its flush loop is a fault.     *)
LEMMA StartStep ==
  ASSUME FleetTypes, FleetInv, [Next]_vars, NEW e \in Engines, Up(e), ~loop[e], deployed'[e] = "down"
  PROVE  faults' # faults
<1>1. \/ \E f \in Engines : Down(f) /\ (StartLoop(f) \/ Exit(f) \/ Crash(f))
      \/ UNCHANGED deployed
      \/ \E f \in Engines, d \in DOMAIN Deployments : Start(f, d)
  BY DEF Next, StartLoop, Exit, Crash, Ingest, Flush, FlushStart, LookUp, TableOk, TableFails,
         Commit, CommitStart, CommitDone, Attempt, CommitGivenUp, Compile, vars
<1>2. ASSUME NEW f \in Engines, NEW d \in DOMAIN Deployments, Start(f, d) PROVE FALSE
  <2>1. f # e
    BY <1>2 DEF Start
  <2> QED
    BY <1>2, <2>1 DEF Start, Up, FleetTypes
<1>3. ASSUME UNCHANGED deployed PROVE FALSE
  BY <1>3 DEF Up
<1>4. ASSUME NEW f \in Engines, Down(f), StartLoop(f) \/ Exit(f) \/ Crash(f) PROVE faults' # faults
  <2>1. f = e
    BY <1>4 DEF Down, Up, FleetTypes
  <2>2. CatalogBuilt(Config(e))
    BY ConfigRead DEF FleetInv, ConfigInv, Config
  <2>3. \A k : Fault(k) => faults' # faults
    BY DEF Fault, FleetTypes, WriterTypes
  <2>4. \E k : Fault(k)
    <3>1. CASE StartLoop(e)
      <4>1. deployed' # deployed
        BY DEF Up
      <4> QED
        BY <2>2, <3>1, <4>1 DEF StartLoop
    <3>2. CASE Crash(e)
      BY <3>2 DEF Crash
    <3> QED
      BY <1>4, <2>1, <3>1, <3>2 DEF Exit
  <2> QED
    BY <2>3, <2>4
<1> QED
  BY <1>1, <1>2, <1>3, <1>4

(* Without a fault a CF with a pipeline leaves it through Compile only.     *)
LEMMA CompileStep ==
  ASSUME FleetTypes, FleetInv, [Next]_vars, NEW b \in Batches, cf[b].stage = "compile",
         cf'[b] # cf[b], faults' = faults
  PROVE  Compile(b)
<1>0. /\ \A k : ~Fault(k)
      /\ \A x \in Batches : Owner(x) \in Engines
  BY DEF Fault, FleetTypes, WriterTypes, Batches, Owner
<1>1. PICK e \in Engines :
        \/ \E d \in DOMAIN Deployments : Start(e, d)
        \/ StartLoop(e) \/ Exit(e) \/ Crash(e)
        \/ \E c \in DOMAIN Clients, x \in Batches : Ingest(e, c, x)
        \/ Flush(e) \/ Commit(e)
        \/ \E x \in Of(e, {"compile"}) : Compile(x)
  BY DEF Next, vars
<1>2. \A bs, to : Move(bs, to) => b \in bs
  BY DEF Move
<1>3. \A bs : Retain(bs) \/ Drop(bs) => b \in bs
  BY DEF Retain, Drop
<1>4. \A stages : "compile" \notin stages => b \notin Of(e, stages)
  BY DEF Of
<1>5. ~UNCHANGED cf
  OBVIOUS
<1>6. ASSUME (\E d \in DOMAIN Deployments : Start(e, d)) \/ StartLoop(e) \/ Exit(e) \/ Crash(e)
      PROVE  FALSE
  <2>1. CASE Exit(e)
    <3>1. b \in Of(e, InMemory)
      BY <1>3, <2>1 DEF Exit, Down
    <3>2. b \in Of(e, InMemory \ {"stranded"})
      BY <3>1 DEF Of, InMemory
    <3> QED
      BY <2>1, <3>2 DEF Exit
  <2>2. CASE StartLoop(e)
    <3>1. CatalogBuilt(Config(e))
      BY <2>2, ConfigRead DEF StartLoop, FleetInv, ConfigInv, Config
    <3> QED
      BY <1>0, <1>5, <2>2, <3>1 DEF StartLoop
  <2> QED
    BY <1>0, <1>5, <1>6, <2>1, <2>2 DEF Start, Crash
<1>7. ASSUME NEW c \in DOMAIN Clients, NEW x \in Batches, Ingest(e, c, x) PROVE FALSE
  BY <1>7 DEF Ingest, FleetTypes
<1>8. ASSUME Flush(e) PROVE FALSE
  <2>1. \A w \in Callers : b \notin Taken(e, w)
    BY <1>4 DEF Taken
  <2> QED
    BY <1>2, <1>4, <1>5, <1>8, <2>1 DEF Flush, FlushStart, LookUp, TableOk, TableFails
<1>9. ASSUME Commit(e) PROVE FALSE
  BY <1>2, <1>3, <1>4, <1>5, <1>9 DEF Commit, CommitStart, CommitDone, Attempt, CommitGivenUp
<1>10. ASSUME NEW x \in Of(e, {"compile"}), Compile(x) PROVE x = b
  <2>1. CASE cf' = [cf EXCEPT ![x].stage = "queued", ![x].files = TRUE]
    BY <2>1 DEF FleetTypes
  <2>2. CASE Move({x}, "queued") \/ Retain({x})
    BY <1>2, <1>3, <2>2
  <2> QED
    BY <1>10, <2>1, <2>2 DEF Compile
<1> QED
  BY <1>1, <1>6, <1>7, <1>8, <1>9, <1>10

(* The struct reads what a client writes that the engine has promised to.   *)
LEMMA PromisedDecodes ==
  ASSUME FleetTypes, FleetInv, NEW b \in Batches, Promised(b)
  PROVE  Decodes(Struct(Owner(b)), Clients[cf[b].client].fields)
<1> DEFINE e == Owner(b)
           built == Deployments[deployed[e]].built
           origin == Deployments[cf[b].origin].env.file
           fields == Clients[cf[b].client].fields
<1>1. /\ DOMAIN fields \subseteq DOMAIN LoadFieldDefs(origin)
      /\ \A f \in DOMAIN fields :
           LET t == fields[f].type IN
           (IF t.form = "string" THEN FromStr(t) ELSE NoType) = FromStr(LoadFieldDefs(origin)[f].type)
  <2>1. FromEnv(Deployments[cf[b].origin].env).field_defs = LoadFieldDefs(origin)
    BY ConfigRead DEF FleetInv, OriginInv, Promised
  <2> QED
    BY <2>1 DEF Promised, Accepted, ValidateRegisterSchema
<1>2. /\ \A f \in DOMAIN origin : f \in DOMAIN built /\ built[f] = origin[f]
      /\ \A f \in DOMAIN built \ DOMAIN origin : ~built[f].required
      /\ \A f \in DOMAIN origin : origin[f].required => f \in DOMAIN fields
  BY DEF Promised, Extends, Covers
<1>3. /\ DOMAIN Struct(e) = DOMAIN built
      /\ \A f \in DOMAIN built : Struct(e)[f].type = ParseType(built[f].type)
      /\ \A f \in DOMAIN built : Struct(e)[f].option = ~built[f].required
  BY DEF Struct, GenerateStruct
<1>4. ASSUME NEW f \in DOMAIN fields
      PROVE  f \in DOMAIN origin /\ Reads(ParseType(origin[f].type), fields[f].type)
  <2>1. f \in DOMAIN origin /\ LoadFieldDefs(origin)[f].type = DefType(origin[f].type)
    BY <1>1 DEF LoadFieldDefs, DefType
  <2>2. /\ fields[f].type.form = "string" /\ fields[f].type.base \in DOMAIN MappedTypes
        /\ Usable(origin[f].type)
    BY DEF Promised
  <2>3. FromStr(fields[f].type) = FromStr(DefType(origin[f].type))
    BY <1>1, <2>1, <2>2
  <2> QED
    BY <2>1, <2>2, <2>3, AcceptedReads
<1> HIDE DEF e, built, origin, fields
<1>5. \A f \in DOMAIN built : f \in DOMAIN fields => Reads(Struct(e)[f].type, fields[f].type)
  BY <1>2, <1>3, <1>4
<1>6. \A f \in DOMAIN built : f \notin DOMAIN fields => Struct(e)[f].option
  <2>1. \A f \in DOMAIN built : f \notin DOMAIN fields => ~built[f].required
    BY <1>2
  <2> QED
    BY <1>3, <2>1, Zenon
<1>7. Decodes(Struct(e), fields)
  BY <1>3, <1>5, <1>6, Zenon DEF Decodes
<1> QED
  BY <1>7 DEF e, fields

(* What is dropped undelivered was with the committer, without a file.      *)
LEMMA DroppedStep ==
  ASSUME FleetTypes, [Next]_vars, NEW b \in Batches, cf[b].stage # "dropped",
         cf'[b].stage = "dropped"
  PROVE  cf[b].stage \in {"queued", "commit"} /\ ~cf[b].files
<1>1. PICK e \in Engines :
        \/ \E d \in DOMAIN Deployments : Start(e, d)
        \/ StartLoop(e) \/ Exit(e) \/ Crash(e)
        \/ \E c \in DOMAIN Clients, x \in Batches : Ingest(e, c, x)
        \/ Flush(e) \/ Commit(e)
        \/ \E x \in Of(e, {"compile"}) : Compile(x)
  BY DEF Next, vars
<1>2. ~UNCHANGED cf
  OBVIOUS
<1>3. \A bs, to : Move(bs, to) => to = "dropped"
  BY MoveStep
<1>4. \A bs : ~Retain(bs)
  BY RetainStep
<1>5. \A bs : Drop(bs) => b \in bs /\ ~cf[b].files
  BY DEF Drop, NoCf
<1>6. ASSUME NEW c \in DOMAIN Clients, NEW x \in Batches, Ingest(e, c, x) PROVE FALSE
  BY <1>6 DEF Ingest, FleetTypes
<1>7. ASSUME NEW x \in Of(e, {"compile"}), Compile(x) PROVE FALSE
  <2>1. CASE cf' = [cf EXCEPT ![x].stage = "queued", ![x].files = TRUE]
    <3>1. cf[b] \in Absent \cup Present /\ x \in Batches
      BY DEF FleetTypes, Of
    <3>2. cf'[b].stage \in {cf[b].stage, "queued"}
      BY <2>1, <3>1 DEF FleetTypes, Absent, Present, NoCf
    <3> QED
      BY <3>2
  <2> QED
    BY <1>3, <1>4, <1>7, <2>1 DEF Compile
<1>8. ~((\E d \in DOMAIN Deployments : Start(e, d)) \/ StartLoop(e) \/ Exit(e) \/ Crash(e))
  BY <1>2, <1>4 DEF Start, StartLoop, Exit, Crash, Down
<1>9. ~Flush(e)
  BY <1>2, <1>3 DEF Flush, FlushStart, LookUp, TableOk, TableFails
<1>10. ASSUME Commit(e) PROVE cf[b].stage \in {"queued", "commit"} /\ ~cf[b].files
  <2>1. Drop(Of(e, {"queued"})) \/ Drop(Of(e, {"commit"}))
    BY <1>2, <1>3, <1>4, <1>10 DEF Commit, CommitStart, CommitDone, Attempt, CommitGivenUp
  <2> QED
    BY <1>5, <2>1 DEF Of
<1> QED
  BY <1>1, <1>6, <1>7, <1>8, <1>9, <1>10

LEMMA AcceptedStep ==
  ASSUME FleetTypes, FleetInv, [Next]_vars, NEW b \in Batches, Promised(b)
  PROVE  /\ cf'[b].stage # "dropped"
         /\ cf[b].stage = "compile" /\ cf'[b] # cf[b] /\ OneFile(Owner(b)) /\ faults' = faults
              => cf'[b].stage = "queued" /\ cf'[b].files
<1> DEFINE e == Owner(b)
<1>0. e \in Engines /\ cf[b] \in Present /\ Up(e) /\ cf[b].stage # "dropped"
  BY PresentStage DEF Batches, Owner, InMemory, Promised
<1>1. Decodes(Struct(e), Clients[cf[b].client].fields)
  BY PromisedDecodes
<1>2. cf'[b].stage # "dropped"
  BY <1>0, <1>1, DroppedStep DEF FleetInv, LeftOutInv, LeftOut
<1>3. ASSUME cf[b].stage = "compile", cf'[b] # cf[b], OneFile(e), faults' = faults
      PROVE  cf'[b].stage = "queued" /\ cf'[b].files
  <2> DEFINE built == Deployments[deployed[e]].built
  <2>1. Compile(b)
    BY <1>3, CompileStep
  <2>2. Config(e).field_defs = LoadFieldDefs(built)
    <3>1. Config(e) # Refused /\ built = Deployments[deployed[e]].env.file
      BY <1>0, <1>3 DEF OneFile, FleetInv, ConfigInv
    <3> QED
      BY <3>1, ConfigRead DEF Config
  <2>3. Encodes(Struct(e), Arrow(e))
    <3>1. \A f \in DOMAIN built : Usable(built[f].type)
      BY <1>3 DEF OneFile
    <3> QED
      BY <2>2, <3>1, UsableEncodes, FileEncodes DEF Struct, Arrow
  <2>4. FitsTable(Arrow(e), table)
    BY <1>3, FileFitsTable DEF Arrow, Schema, OneFile
  <2>5. \A k : ~Fault(k)
    BY <1>3 DEF Fault, FleetTypes, WriterTypes
  <2>6. cf' = [cf EXCEPT ![b].stage = "queued", ![b].files = TRUE]
    BY <1>1, <2>1, <2>3, <2>4, <2>5 DEF Compile
  <2> QED
    BY <1>0, <2>6 DEF FleetTypes, Present
<1> QED
  BY <1>2, <1>3
----------------------------------------------------------------------------
(* The variables of a fleet keep their types; no commit_with_retry makes    *)
(* more than MaxAttempts attempts.                                          *)
THEOREM FleetTypeCorrect == Spec => []FleetTypeOK
<1>1. FleetTypes => FleetTypeOK
  <2> SUFFICES ASSUME FleetTypes PROVE FleetTypeOK
    OBVIOUS
  <2>1. \A b \in Batches :
          \/ cf[b] \in {NoCf("unsent"), NoCf("committed"), NoCf("dropped")}
          \/ /\ cf[b].stage \in {"buffered"} \cup InMemory
             /\ cf[b].client \in DOMAIN Clients /\ cf[b].origin \in DOMAIN Deployments
    <3>1. \A b \in Batches : cf[b] \in Absent \/ cf[b] \in Present
      BY DEF FleetTypes
    <3> QED
      BY <3>1 DEF Absent, Present
  <2>2. \A e \in Engines : retry[e].attempt \in 0 .. MaxAttempts
    BY DEF FleetTypes, WriterTypes, RetryState
  <2> QED
    BY <2>1, <2>2 DEF FleetTypes, WriterTypes, FleetTypeOK
<1> QED
  BY <1>1, FleetInvariant, PTL

(* The caches of get_or_create_table never claim what the catalog does not  *)
(* have, whichever calls of whichever engines fail, or take effect late.    *)
THEOREM CacheSoundCorrect == Spec => []CacheSound
<1>1. FleetTypes /\ FleetInv => CacheSound
  BY DEF FleetInv, CatalogInv, CacheSound
<1> QED
  BY <1>1, FleetInvariant, PTL

(* The committer of every engine finds the caches filled by do_flush: its   *)
(* get_or_create_table goes straight to load_table.                         *)
THEOREM CommitterOnlyLoadsCorrect == Spec => []CommitterOnlyLoads
<1>1. FleetTypes /\ FleetInv => CommitterOnlyLoads
  BY DEF FleetInv, CommitterInv
<1> QED
  BY <1>1, FleetInvariant, PTL

(* However many engines start together, each is beaten to the namespace and *)
(* to the table at most once: that is how often a flush of it strands its   *)
(* CFs without a fault.                                                     *)
THEOREM RacesBoundedCorrect == Spec => []RacesBounded
<1>1. FleetTypes /\ FleetInv => RacesBounded
  <2> SUFFICES ASSUME FleetTypes, RacesInv, NEW e \in Engines PROVE races[e] <= 2
    BY DEF FleetInv, RacesBounded
  <2>1. races[e] \in Nat /\ races[e] + Chance(MayLoseNamespace(e)) + Chance(MayLoseTable(e)) <= 2
    BY DEF FleetTypes, WriterTypes, RacesInv, MayLoseNamespace, MayLoseTable
  <2>2. Chance(MayLoseNamespace(e)) \in {0, 1} /\ Chance(MayLoseTable(e)) \in {0, 1}
    BY DEF Chance
  <2> QED
    BY <2>1, <2>2
<1> QED
  BY <1>1, FleetInvariant, PTL

(* Every attempt that commit_with_retry has lost is owed to a commit of     *)
(* another engine or a fault during the call, each to one of its own.       *)
THEOREM RetriesAreOwedCorrect == Spec => []RetriesAreOwed
<1>1. FleetTypes /\ FleetInv => RetriesAreOwed
  BY DEF FleetInv, RetryInv, RetryOwed, RetriesAreOwed
<1> QED
  BY <1>1, FleetInvariant, PTL

(* Between the server's first request and the start of the flush loop only  *)
(* a fault ends main: from_env has checked what the catalog is built from.  *)
THEOREM StartSucceedsCorrect == Spec => StartSucceeds
<1>1. FleetTypes /\ FleetInv /\ [Next]_vars
        => [\A e \in Engines : Up(e) /\ ~loop[e] /\ deployed'[e] = "down" => faults' # faults]_vars
  BY StartStep
<1> QED
  BY <1>1, FleetInvariant, PTL DEF Spec, StartSucceeds

(* No record that its engine is able to read, and whose client was accepted *)
(* by it or a version it extends, is ever dropped undelivered, whatever     *)
(* table there is and whatever fails; and an engine over a table of its own *)
(* file makes files of it.  For all deployments, clients and upgrades.      *)
THEOREM AcceptedSurvivesCorrect == Spec => AcceptedSurvives
<1>1. FleetTypes /\ FleetInv /\ [Next]_vars
        => [\A b \in Batches :
              Promised(b) =>
                /\ cf'[b].stage # "dropped"
                /\ cf[b].stage = "compile" /\ cf'[b] # cf[b] /\ OneFile(Owner(b)) /\ faults' = faults
                     => cf'[b].stage = "queued" /\ cf'[b].files]_vars
  BY AcceptedStep
<1> QED
  BY <1>1, FleetInvariant, PTL DEF Spec, AcceptedSurvives
==============================================================================
