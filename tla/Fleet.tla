-------------------------------- MODULE Fleet --------------------------------
(***************************************************************************)
(* Several engines with one table: each is started with a deployment (the  *)
(* schema file it was built with and its environment), takes records of    *)
(* clients that registered their schema, or did not, and flushes them to   *)
(* the shared table, which the first of them creates.                      *)
(*                                                                         *)
(* A batch is the contents of one CF, the records of one client.  What     *)
(* happens to CFs within an engine is the subject of Engine: here a CF     *)
(* that the next flush takes up, active or retained, is "buffered".        *)
(***************************************************************************)
EXTENDS IcebergWriter, FieldType, FiniteSets

CONSTANTS MaxBatches,    \* bound: the batches an engine takes
          Deployments,   \* name -> [built, env]
          Clients        \* name -> [table, registered, fields]

Batches == Engines \X (1 .. MaxBatches)

NessieSettings == {"MINIO_URL", "MINIO_ACCESS_KEY", "MINIO_SECRET_KEY", "NESSIE_URI"}
Refused == [refused |-> TRUE]

(* mutant: the settings of the catalog are not checked *)
FromEnvUnchecked(env) ==
  IF ~({"MICEWRITER_TABLE", "schema file"} \subseteq env.set) \/ env.malformed # {}
  THEN Refused
  ELSE [catalog_type |-> IF env.CATALOG_TYPE = "glue" THEN "Glue" ELSE "Nessie",
        set |-> env.set, micewriter_table |-> env.MICEWRITER_TABLE,
        field_defs |-> LoadFieldDefs(env.file),
        concurrent_cf_flushes |-> env.CONCURRENT_CF_FLUSHES]

(* Config::from_env: "set" are the variables that are set and the schema    *)
(* file if it can be read, "malformed" those whose value does not parse.    *)
FromEnv(env) ==
  LET catalog_type == IF env.CATALOG_TYPE = "glue" THEN "Glue" ELSE "Nessie" IN
  IF \/ catalog_type = "Nessie" /\ ~(NessieSettings \subseteq env.set)
     \/ ~({"MICEWRITER_TABLE", "schema file"} \subseteq env.set)
     \/ env.malformed # {}
  THEN Refused
  ELSE [catalog_type |-> catalog_type, set |-> env.set,
        micewriter_table |-> env.MICEWRITER_TABLE,
        field_defs |-> LoadFieldDefs(env.file),
        concurrent_cf_flushes |-> env.CONCURRENT_CF_FLUSHES]

VARIABLES
  deployed,   \* per engine: its deployment, or "down"
  loop,       \* per engine: whether main has started the flush loop
  cf          \* per batch: its CF, a record of
              \*   stage: "unsent", "buffered", "taken", "stranded", "compile",
              \*          "queued", "commit", "committed" or "dropped"
              \*   files: whether data files were made of it
              \*   client: the client it is from
              \*   origin: history, the deployment of the engine that took it

vars == <<writerVars, faults, deployed, loop, cf>>

Up(e) == deployed[e] # "down"
Config(e) == FromEnv(Deployments[deployed[e]].env)
Struct(e) == GenerateStruct(Deployments[deployed[e]].built)
Schema(e) == BuildIcebergSchema(Config(e).field_defs)

(* A CF that does not exist, yet or any more.                               *)
NoCf(stage) == [stage |-> stage, files |-> FALSE, client |-> "none", origin |-> "none"]

Owner(b) == b[1]

Of(e, stages) == {b \in Batches : Owner(b) = e /\ cf[b].stage \in stages}

Move(bs, to) == cf' = [b \in Batches |-> IF b \in bs THEN [cf[b] EXCEPT !.stage = to] ELSE cf[b]]

(* CFs that the next flush will take up; files made of them are orphans.    *)
Retain(bs) ==
  cf' = [b \in Batches |-> IF b \in bs THEN [cf[b] EXCEPT !.stage = "buffered", !.files = FALSE]
                                       ELSE cf[b]]

(* drop_frozen_cf for some CFs: their records are in the table, or nowhere. *)
Drop(bs) ==
  cf' = [b \in Batches |-> IF b \notin bs THEN cf[b]
                           ELSE NoCf(IF cf[b].files THEN "committed" ELSE "dropped")]

----------------------------------------------------------------------------
(* main starts if its configuration is complete, and the server listens.    *)
Start(e, d) ==
  /\ ~Up(e)
  /\ FromEnv(Deployments[d].env) # Refused
  /\ deployed' = [deployed EXCEPT ![e] = d]
  /\ NoFault
  /\ UNCHANGED <<writerVars, loop, cf>>

(* The process ends.  All CFs that have not been dropped are on its disk    *)
(* and will be found at the next start.                                     *)
InMemory == {"taken", "stranded", "compile", "queued", "commit"}

Down(e) ==
  /\ deployed' = [deployed EXCEPT ![e] = "down"]
  /\ loop' = [loop EXCEPT ![e] = FALSE]
  /\ Retain(Of(e, InMemory))
  /\ ForgetWriter(e)

(* Only then main builds the catalog, without which it ends.  For Nessie    *)
(* that unwraps four settings, a panic if one is missing.                   *)
CatalogBuilt(config) == config.catalog_type = "Nessie" => NessieSettings \subseteq config.set

StartLoop(e) ==
  /\ Up(e) /\ ~loop[e]
  /\ \/ /\ NoFault
        /\ IF CatalogBuilt(Config(e))
           THEN loop' = [loop EXCEPT ![e] = TRUE] /\ UNCHANGED <<writerVars, deployed, cf>>
           ELSE Down(e)
     \/ Fault("catalog") /\ Down(e)

(* An orderly end comes after an emergency flush and the last commit; what  *)
(* a flush left behind stays behind.                                        *)
Exit(e) ==
  /\ Up(e) /\ loop[e]
  /\ Of(e, {"buffered"}) = {} /\ Of(e, InMemory \ {"stranded"}) = {}
  /\ NoFault
  /\ Down(e)

Crash(e) == Up(e) /\ Fault("crash") /\ Down(e)

(* ingest looks at the table's name and at nothing else of a record; that   *)
(* the client has registered is not checked.                                *)
Ingest(e, c, b) ==
  /\ Up(e) /\ Owner(b) = e /\ cf[b].stage = "unsent"
  /\ Clients[c].table = Config(e).micewriter_table
  /\ cf' = [cf EXCEPT ![b] = [stage |-> "buffered", files |-> FALSE, client |-> c,
                              origin |-> deployed[e]]]
  /\ NoFault
  /\ UNCHANGED <<writerVars, deployed, loop>>

----------------------------------------------------------------------------
(* do_flush takes up the CFs, builds a catalog from the settings that main  *)
(* got by with, and looks for the table.  Bound: once the caches are filled *)
(* a flush of nothing is left out.                                          *)
FlushStart(e) ==
  /\ Up(e) /\ loop[e]
  /\ Of(e, {"buffered"}) # {} \/ ~known_tables[e]
  /\ Move(Of(e, {"buffered"}), "taken")
  /\ GetOrCreateTable(e, "flush")
  /\ UNCHANGED <<deployed, loop>>

(* get_or_create_table, for do_flush or the committer.                      *)
LookUp(e) ==
  /\ \E w \in Callers : NamespaceExists(e, w) \/ CreateNamespace(e, w) \/ TableExists(e, w)
  /\ UNCHANGED <<deployed, loop, cf>>

(* With the table do_flush spawns a pipeline per CF; without, it returns    *)
(* and nobody has the names of the CFs any more.                            *)
Taken(e, w) == IF w = "flush" THEN Of(e, {"taken"}) ELSE {}

TableOk(e) ==
  /\ \E w \in Callers : /\ LoadTable(e, w) \/ CreateTable(e, w, Schema(e))
                        /\ Move(Taken(e, w), "compile")
  /\ UNCHANGED <<deployed, loop>>

TableFails(e) ==
  /\ \E w \in Callers : CallFails(e, w, Schema(e)) /\ Move(Taken(e, w), "stranded")
  /\ UNCHANGED <<deployed, loop>>

(* The pipeline: records that do not decode are left out, records that do   *)
(* not encode or do not fit the table's columns are an error that retains   *)
(* the CF.  What does not fit may still pass: that is up to the crates.     *)
Arrow(e) == FieldDefsToArrowSchema(Config(e).field_defs)

Compile(b) ==
  LET e == Owner(b) IN
  /\ cf[b].stage = "compile"
  /\ Config(e).concurrent_cf_flushes > 0
  /\ \/ /\ ~Missing(Struct(e), Clients[cf[b].client].fields)
        /\ NoFault /\ cf' = [cf EXCEPT ![b].stage = "queued", ![b].files = TRUE]
     \/ /\ ~Decodes(Struct(e), Clients[cf[b].client].fields)
        /\ NoFault /\ Move({b}, "queued")
     \/ /\ ~(Encodes(Struct(e), Arrow(e)) /\ FitsTable(Arrow(e), table))
        /\ NoFault /\ Retain({b})
     \/ Fault("compile") /\ Retain({b})
  /\ UNCHANGED <<writerVars, deployed, loop>>

(* The committer batches what is queued; without a data file among it there *)
(* is nothing to commit and the CFs are dropped.                            *)
CommitStart(e) ==
  /\ call[e]["commit"] = "idle"
  /\ Of(e, {"queued"}) # {}
  /\ IF \E b \in Of(e, {"queued"}) : cf[b].files
     THEN Move(Of(e, {"queued"}), "commit") /\ GetOrCreateTable(e, "commit")
     ELSE Drop(Of(e, {"queued"})) /\ NoFault /\ UNCHANGED writerVars
  /\ UNCHANGED <<deployed, loop>>

(* The commit has landed, and all its CFs are dropped.                      *)
CommitDone(e) ==
  /\ CommitOk(e)
  /\ Drop(Of(e, {"commit"}))
  /\ UNCHANGED <<deployed, loop>>

(* The commit is given up: its CFs are retained.                            *)
CommitGivenUp(e) ==
  /\ EndCommit(e)
  /\ Retain(Of(e, {"commit"}))
  /\ UNCHANGED <<deployed, loop>>

Attempt(e) ==
  /\ AttemptFails(e) \/ CommitRetry(e)
  /\ UNCHANGED <<deployed, loop, cf>>

----------------------------------------------------------------------------
Init ==
  /\ WriterInit /\ faults = 0
  /\ deployed = [e \in Engines |-> "down"]
  /\ loop = [e \in Engines |-> FALSE]
  /\ cf = [b \in Batches |-> NoCf("unsent")]

Flush(e) == FlushStart(e) \/ LookUp(e) \/ TableOk(e) \/ TableFails(e)

Commit(e) == CommitStart(e) \/ CommitDone(e) \/ Attempt(e) \/ CommitGivenUp(e)

Next ==
  \E e \in Engines :
    \/ \E d \in DOMAIN Deployments : Start(e, d)
    \/ StartLoop(e) \/ Exit(e) \/ Crash(e)
    \/ \E c \in DOMAIN Clients, b \in Batches : Ingest(e, c, b)
    \/ Flush(e) \/ Commit(e)
    \/ \E b \in Of(e, {"compile"}) : Compile(b)

Spec == Init /\ [][Next]_vars

Places == {"idle", "namespace_exists", "create_namespace", "table_exists", "create_table",
           "load_table", "loaded", "delay", "failed"}

FleetTypeOK ==
  /\ namespace \in BOOLEAN
  /\ known_namespaces \in [Engines -> BOOLEAN] /\ known_tables \in [Engines -> BOOLEAN]
  /\ call \in [Engines -> [Callers -> Places]]
  /\ deployed \in [Engines -> DOMAIN Deployments \cup {"down"}] /\ loop \in [Engines -> BOOLEAN]
  /\ \A b \in Batches :
       \/ cf[b] \in {NoCf("unsent"), NoCf("committed"), NoCf("dropped")}
       \/ /\ cf[b].stage \in {"buffered"} \cup InMemory
          /\ cf[b].client \in DOMAIN Clients /\ cf[b].origin \in DOMAIN Deployments
  /\ \A e \in Engines : retry[e].attempt \in 0 .. MaxAttempts

----------------------------------------------------------------------------
(* What a cache says exists does exist, whoever created it, whichever of    *)
(* the calls that are under way fail or turn out to have had their effect   *)
(* (get_or_create_table); and a table has a namespace.                      *)
CacheSound ==
  \A e \in Engines : /\ known_namespaces[e] => namespace
                     /\ known_tables[e] => namespace /\ table # NoTable

(* The committer never meets a missing table: do_flush has filled the       *)
(* caches before a pipeline can send it a request, so it loads the table    *)
(* and has nothing to create.                                               *)
CommitterOnlyLoads ==
  \A e \in Engines :
    call[e]["commit"] \in {"idle", "load_table", "loaded", "delay", "failed"}

(* A flush that gets no table strands its CFs.  Without a fault only the    *)
(* first start of the fleet can do that: to an engine it happens once for   *)
(* the namespace and once for the table, when another one creates them      *)
(* between its look and its own attempt; never again, and not because the   *)
(* engine was started again with empty caches.                              *)
RacesBounded == \A e \in Engines : races[e] <= 2

(* Every failure of commit_with_retry is owed to a commit of another engine *)
(* or to a fault that happened during the call, each to one of its own: a   *)
(* table that was loaded again is not refused for what was there before.    *)
RetriesAreOwed ==
  \A e \in Engines :
    IF call[e]["commit"] \in {"delay", "failed"}
    THEN retry[e].attempt <= retry[e].against
    ELSE retry[e].attempt <= retry[e].against + 1

(* An engine that takes records comes to flush them: the server listens     *)
(* before main has built the catalog, and without a fault nothing ends main *)
(* in between, as what from_env lets pass is all that build_nessie_catalog  *)
(* unwraps.                                                                 *)
StartSucceeds ==
  [][\A e \in Engines : Up(e) /\ ~loop[e] /\ deployed'[e] = "down" => faults' # faults]_vars

Covers(fields, file) == \A f \in DOMAIN file : file[f].required => f \in DOMAIN fields

(* A later file that keeps the fields and only adds optional ones.          *)
Extends(new, old) ==
  /\ \A f \in DOMAIN old : f \in DOMAIN new /\ new[f] = old[f]
  /\ \A f \in DOMAIN new \ DOMAIN old : ~new[f].required

Accepted(c, d) ==
  LET conf == FromEnv(Deployments[d].env) IN
  ValidateRegisterSchema(Clients[c].registered, conf.micewriter_table, conf.field_defs)
    /\ Clients[c].registered.fields = Clients[c].fields

(* A batch that the engine which has it now is able to read: its client     *)
(* registered the fields it writes, required ones included, with types that *)
(* from_str knows and build.rs reads alike, and the file the engine was     *)
(* built with extends the one that the client was accepted by.  Nothing is  *)
(* asked of the table, which any other version may have made.               *)
Promised(b) ==
  LET built  == Deployments[deployed[Owner(b)]].built
      origin == Deployments[cf[b].origin].env.file
      fields == Clients[cf[b].client].fields
  IN  /\ Up(Owner(b)) /\ cf[b].stage \in {"buffered"} \cup InMemory
      /\ Accepted(cf[b].client, cf[b].origin)
      /\ Covers(fields, origin)
      /\ Extends(built, origin)
      /\ \A f \in DOMAIN fields :
           /\ fields[f].type.form = "string" /\ fields[f].type.base \in DOMAIN MappedTypes
           /\ Usable(origin[f].type)

(* The engine reads the file it was built with, and so does the table.      *)
OneFile(e) ==
  LET built == Deployments[deployed[e]].built IN
  /\ built = Deployments[deployed[e]].env.file
  /\ \A f \in DOMAIN built : Usable(built[f].type)
  /\ table = Schema(e)

(* RegisterSchema's yes is worth something.  The records of an accepted     *)
(* client that wait in a buffer through crashes, failures and upgrades are  *)
(* not left out by compile_cf_pipeline and so never dropped undelivered,    *)
(* even if the engine was upgraded over a table without the new columns;    *)
(* and if the table is the engine's own, files are made of them at once.    *)
AcceptedSurvives ==
  [][\A b \in Batches :
       Promised(b) =>
         /\ cf'[b].stage # "dropped"
         /\ cf[b].stage = "compile" /\ cf'[b] # cf[b] /\ OneFile(Owner(b)) /\ faults' = faults
              => cf'[b].stage = "queued" /\ cf'[b].files]_vars

(* What validate_register_schema says of a client with an older schema,     *)
(* "AOT fields absent from the incoming schema are allowed": its records    *)
(* are not dropped undelivered.  Not so if the new field is required.       *)
AcceptedNeverDropped ==
  [][\A b \in Batches :
       cf[b].stage \in {"buffered"} \cup InMemory /\ Accepted(cf[b].client, cf[b].origin)
         => cf'[b].stage # "dropped"]_vars
==============================================================================
