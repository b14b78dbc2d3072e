------------------------------ MODULE MCFleet --------------------------------
(* An instance of Fleet: two versions of a schema file, the second with a   *)
(* new optional field, and clients of all kinds.                            *)
EXTENDS Fleet, TLC

Field(type, required) == [type |-> type, required |-> required]

File1 == [at |-> Field(Str("long"), TRUE)]
File2 == [at |-> Field(Str("long"), TRUE), source |-> Field(Str("string"), FALSE)]

Env(file) == [CATALOG_TYPE |-> "nessie", set |-> NessieSettings \cup {"MICEWRITER_TABLE", "schema file"},
              malformed |-> {}, MICEWRITER_TABLE |-> "events", file |-> file,
              CONCURRENT_CF_FLUSHES |-> 2]

MCDeployments ==
  [v1 |-> [built |-> File1, env |-> Env(File1)],
   v2 |-> [built |-> File2, env |-> Env(File2)],
   noUri |-> [built |-> File2, env |-> [Env(File2) EXCEPT !.set = @ \ {"NESSIE_URI"}]]]

Client(fields) ==
  [table |-> "events", fields |-> fields,
   registered |-> [parses |-> TRUE, table |-> "events", fields |-> fields]]

MCClients ==
  [alias |-> Client([at |-> Field(Str("int64"), TRUE)]),
   wrong |-> Client([at |-> Field(Str("string"), TRUE)]),
   partial |-> Client([source |-> Field(Str("string"), FALSE)])]

(* An instance for which the new field is required: the engine is deployed  *)
(* before the client, which goes on with the older schema.                  *)
File3 == [File2 EXCEPT !.source.required = TRUE]

EvolutionDeployments ==
  [v1 |-> [built |-> File1, env |-> Env(File1)], v3 |-> [built |-> File3, env |-> Env(File3)]]

EvolutionClients == [older |-> Client(File1)]

EngineSymmetry == Permutations(Engines)
==============================================================================
