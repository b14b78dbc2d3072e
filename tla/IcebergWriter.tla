---------------------------- MODULE IcebergWriter ----------------------------
(***************************************************************************)
(* iceberg_writer.rs: get_or_create_table with its caches, and             *)
(* commit_with_retry, in several engines that write to one table.          *)
(*                                                                         *)
(* In each engine do_flush ("flush") and the committer ("commit") may be   *)
(* in get_or_create_table at once; a call stands before the catalog        *)
(* operation that call[e][w] names.  The catalog is external: it refuses   *)
(* to create what exists, and may refuse a commit if the table has changed *)
(* since it was loaded.                                                    *)
(***************************************************************************)
EXTENDS Environment

CONSTANTS Engines, MaxAttempts   \* the attempts of commit_with_retry, 5 in the code

ASSUME WriterAssumption == MaxAttempts \in Nat \ {0}

VARIABLES
  namespace,          \* whether the catalog has the namespace
  table,              \* the table's schema, or NoTable
  known_namespaces,   \* per engine: whether the cache has the namespace
  known_tables,       \* per engine: whether the cache has the table
  call,               \* per engine and caller: where its call stands
  retry,              \* per engine, while its committer is in a call: the
                      \* attempt; whether the table has changed since it was
                      \* loaded; history: changes and faults since the start
  races               \* history, per engine: what it wanted to create and
                      \* found to exist

Callers == {"flush", "commit"}
NoTable == [none |-> [absent |-> TRUE]]   \* no schema: its column has no type
NoRetry == [attempt |-> 0, moved |-> FALSE, against |-> 0]

catalogVars == <<namespace, table>>
cacheVars   == <<known_namespaces, known_tables>>
writerVars  == <<catalogVars, cacheVars, call, retry, races>>

Goto(e, w, place) == call' = [call EXCEPT ![e][w] = place]

(* do_flush goes on at once; the committer starts its first attempt.        *)
HasTable(e, w) == Goto(e, w, IF w = "flush" THEN "idle" ELSE "loaded")

Cached(cache, e) == [cache EXCEPT ![e] = TRUE]

(* After the namespace the cache of tables is looked up.                    *)
LookUpTable(e) == IF known_tables[e] THEN "load_table" ELSE "table_exists"

GetOrCreateTable(e, w) ==
  /\ call[e][w] = "idle"
  /\ Goto(e, w, IF known_namespaces[e] THEN LookUpTable(e) ELSE "namespace_exists")
  /\ retry' = IF w = "commit" THEN [retry EXCEPT ![e].attempt = 1] ELSE retry
  /\ NoFault
  /\ UNCHANGED <<catalogVars, cacheVars, races>>

----------------------------------------------------------------------------
(* mutant: the namespace is created without a look *)
AlwaysCreate(e, w) ==
  /\ call[e][w] = "namespace_exists"
  /\ Goto(e, w, "create_namespace")
  /\ NoFault
  /\ UNCHANGED <<catalogVars, cacheVars, retry, races>>

NamespaceExists(e, w) ==
  /\ call[e][w] = "namespace_exists"
  /\ IF namespace
     THEN /\ known_namespaces' = Cached(known_namespaces, e)
          /\ Goto(e, w, LookUpTable(e))
     ELSE Goto(e, w, "create_namespace") /\ UNCHANGED known_namespaces
  /\ NoFault
  /\ UNCHANGED <<catalogVars, known_tables, retry, races>>

CreateNamespace(e, w) ==
  /\ call[e][w] = "create_namespace"
  /\ ~namespace
  /\ namespace' = TRUE
  /\ known_namespaces' = Cached(known_namespaces, e)
  /\ Goto(e, w, LookUpTable(e))
  /\ NoFault
  /\ UNCHANGED <<table, known_tables, retry, races>>

(* mutant: the cache is filled before the table is created *)
CacheBeforeCreate(e, w) ==
  /\ call[e][w] = "table_exists"
  /\ known_tables' = Cached(known_tables, e)
  /\ Goto(e, w, IF table = NoTable THEN "create_table" ELSE "load_table")
  /\ NoFault
  /\ UNCHANGED <<catalogVars, known_namespaces, retry, races>>

TableExists(e, w) ==
  /\ call[e][w] = "table_exists"
  /\ Goto(e, w, IF table = NoTable THEN "create_table" ELSE "load_table")
  /\ NoFault
  /\ UNCHANGED <<catalogVars, cacheVars, retry, races>>

CreateTable(e, w, schema) ==
  /\ call[e][w] = "create_table"
  /\ table = NoTable
  /\ table' = schema
  /\ known_tables' = Cached(known_tables, e)
  /\ HasTable(e, w)
  /\ NoFault
  /\ UNCHANGED <<namespace, known_namespaces, retry, races>>

(* mutant: a table that was found is not put in the cache *)
LoadUncached(e, w) ==
  /\ call[e][w] = "load_table"
  /\ HasTable(e, w)
  /\ retry' = IF w = "commit" THEN [retry EXCEPT ![e].moved = FALSE] ELSE retry
  /\ NoFault
  /\ UNCHANGED <<catalogVars, cacheVars, races>>

LoadTable(e, w) ==
  /\ call[e][w] = "load_table"
  /\ known_tables' = Cached(known_tables, e)
  /\ HasTable(e, w)
  /\ retry' = IF w = "commit" THEN [retry EXCEPT ![e].moved = FALSE] ELSE retry
  /\ NoFault
  /\ UNCHANGED <<catalogVars, known_namespaces, races>>

(* Any other answer of the catalog is an error that ends the call: what was *)
(* to be created exists by now, or an operation failed, having had its      *)
(* effect or not.                                                           *)
Exists(e, w) == \/ call[e][w] = "create_namespace" /\ namespace
                \/ call[e][w] = "create_table" /\ table # NoTable

CallFails(e, w, schema) ==
  /\ \/ Exists(e, w) /\ NoFault /\ UNCHANGED catalogVars
     \/ /\ call[e][w] \notin {"idle", "loaded", "delay", "failed"}
        /\ Fault("catalog") /\ UNCHANGED catalogVars
     \/ /\ call[e][w] = "create_namespace" /\ ~namespace
        /\ Fault("ambiguous") /\ namespace' = TRUE /\ UNCHANGED table
     \/ /\ call[e][w] = "create_table" /\ table = NoTable
        /\ Fault("ambiguous") /\ table' = schema /\ UNCHANGED namespace
  /\ Goto(e, w, IF w = "flush" THEN "idle" ELSE "failed")
  /\ races' = IF faults' = faults THEN [races EXCEPT ![e] = @ + 1] ELSE races
  /\ retry' = IF w = "commit" THEN [retry EXCEPT ![e].against = @ + 1] ELSE retry
  /\ UNCHANGED cacheVars

----------------------------------------------------------------------------
(* commit_with_retry.                                                       *)

(* What a change of the table means to a committer in a call.               *)
Moved(r) == IF r = NoRetry THEN r ELSE [r EXCEPT !.moved = TRUE, !.against = @ + 1]

CommitOk(e) ==
  /\ call[e]["commit"] = "loaded"
  /\ Goto(e, "commit", "idle")
  /\ retry' = [f \in Engines |-> IF f = e THEN NoRetry ELSE Moved(retry[f])]
  /\ NoFault
  /\ UNCHANGED <<catalogVars, cacheVars, races>>

OneTooMany(e) == retry[e].attempt <= MaxAttempts   \* mutant: an attempt too many

MayRetry(e) == retry[e].attempt < MaxAttempts

(* An attempt is refused, or fails with or without having had its effect;   *)
(* the last one ends the call.                                              *)
AttemptFails(e) ==
  /\ call[e]["commit"] = "loaded"
  /\ \/ retry[e].moved /\ NoFault /\ UNCHANGED retry
     \/ Fault("commit") /\ retry' = [retry EXCEPT ![e].against = @ + 1]
     \/ Fault("ambiguous") /\ retry' = [f \in Engines |-> Moved(retry[f])]
  /\ Goto(e, "commit", IF MayRetry(e) THEN "delay" ELSE "failed")
  /\ UNCHANGED <<catalogVars, cacheVars, races>>

(* mutant: the table is not loaded again *)
RetryStale(e) ==
  /\ call[e]["commit"] = "delay"
  /\ retry' = [retry EXCEPT ![e].attempt = @ + 1]
  /\ Goto(e, "commit", "loaded")
  /\ NoFault
  /\ UNCHANGED <<catalogVars, cacheVars, races>>

(* The next attempt starts by loading the table again.                      *)
CommitRetry(e) ==
  /\ call[e]["commit"] = "delay"
  /\ retry' = [retry EXCEPT ![e].attempt = @ + 1]
  /\ Goto(e, "commit", "load_table")
  /\ NoFault
  /\ UNCHANGED <<catalogVars, cacheVars, races>>

(* The committer gives up.                                                  *)
EndCommit(e) ==
  /\ call[e]["commit"] = "failed"
  /\ Goto(e, "commit", "idle")
  /\ retry' = [retry EXCEPT ![e] = NoRetry]
  /\ NoFault
  /\ UNCHANGED <<catalogVars, cacheVars, races>>

(* A process that ends: the caches and the calls are gone.                  *)
ForgetWriter(e) ==
  /\ known_namespaces' = [known_namespaces EXCEPT ![e] = FALSE]
  /\ known_tables' = [known_tables EXCEPT ![e] = FALSE]
  /\ call' = [call EXCEPT ![e] = [w \in Callers |-> "idle"]]
  /\ retry' = [retry EXCEPT ![e] = NoRetry]
  /\ UNCHANGED <<catalogVars, races>>

WriterInit ==
  /\ namespace = FALSE /\ table = NoTable
  /\ known_namespaces = [e \in Engines |-> FALSE]
  /\ known_tables = [e \in Engines |-> FALSE]
  /\ call = [e \in Engines |-> [w \in Callers |-> "idle"]]
  /\ retry = [e \in Engines |-> NoRetry]
  /\ races = [e \in Engines |-> 0]
==============================================================================
