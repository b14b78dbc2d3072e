------------------------------ MODULE FieldType ------------------------------
(***************************************************************************)
(* The four readings of a schema file: the struct that build.rs generates  *)
(* from it, the field definitions that config.rs loads, the Arrow schema   *)
(* that flush_engine.rs encodes with and the Iceberg schema of the table;  *)
(* and RegisterSchema's check of what a client declares.                   *)
(*                                                                         *)
(* Fields are a function from names to types.  A type is a JSON string,    *)
(* "base" within "lists" pairs of list( ); an object of type list, nested  *)
(* "lists" deep around a string; a struct; or another value.  Field ids    *)
(* are left out: nothing but their being distinct is used.                 *)
(***************************************************************************)
EXTENDS Naturals

Type(form, lists, base) == [form |-> form, lists |-> lists, base |-> base]

Str(base) == Type("string", 0, base)

(* MappedType::from_str with its aliases.                                   *)
MappedTypes ==
  [string |-> "String", long |-> "Long", int64 |-> "Long", int |-> "Int", int32 |-> "Int",
   double |-> "Double", float64 |-> "Double", float |-> "Float", float32 |-> "Float",
   boolean |-> "Boolean", timestamptz |-> "TimestampTz", timestamp |-> "Timestamp",
   date |-> "Date", binary |-> "Binary", bytes |-> "Binary"]

NoType == [lists |-> 0, of |-> "None"]

FromStr(t) ==
  IF t.base \in DOMAIN MappedTypes THEN [lists |-> t.lists, of |-> MappedTypes[t.base]]
  ELSE NoType

FromStrOrString(t) == IF FromStr(t) = NoType THEN [lists |-> 0, of |-> "String"] ELSE FromStr(t)

ArrowTypes ==
  [String |-> "Utf8", Long |-> "Int64", Int |-> "Int32", Double |-> "Float64",
   Float |-> "Float32", Boolean |-> "Boolean", TimestampTz |-> "Timestamp+00:00",
   Timestamp |-> "Timestamp", Date |-> "Date32", Binary |-> "Binary"]

IcebergTypes ==
  [String |-> "string", Long |-> "long", Int |-> "int", Double |-> "double",
   Float |-> "float", Boolean |-> "boolean", TimestampTz |-> "timestamptz",
   Timestamp |-> "timestamp", Date |-> "date", Binary |-> "binary"]

ToArrow(m)   == [lists |-> m.lists, of |-> ArrowTypes[m.of]]
ToIceberg(m) == [lists |-> m.lists, of |-> IcebergTypes[m.of]]

----------------------------------------------------------------------------
(* What becomes of a file.                                                  *)

(* build.rs: only six names are known, and only as plain strings.           *)
RustTypes == [string |-> "String", long |-> "i64", int |-> "i32", boolean |-> "bool",
              float |-> "f32", double |-> "f64"]

ParseName(base) == IF base \in DOMAIN RustTypes THEN RustTypes[base] ELSE "String"

ParseType(t) ==
  [lists |-> IF t.form = "list" THEN t.lists ELSE 0,
   of    |-> IF t.form = "struct" THEN "Value"
             ELSE IF t.form = "list" \/ (t.form = "string" /\ t.lists = 0)
             THEN ParseName(t.base) ELSE "String"]

(* mutant: an optional field is as plain as a required one *)
StructWithoutOption(file) ==
  [f \in DOMAIN file |-> [type |-> ParseType(file[f].type), option |-> FALSE]]

GenerateStruct(file) ==
  [f \in DOMAIN file |-> [type |-> ParseType(file[f].type), option |-> ~file[f].required]]

(* config.rs: a type that is not a string counts as "string".               *)
LoadFieldDefs(file) ==
  [f \in DOMAIN file |->
     [type |-> IF file[f].type.form = "string" THEN file[f].type ELSE Str("string"),
      required |-> file[f].required]]

FieldDefsToArrowSchema(defs) ==
  [f \in DOMAIN defs |->
     [type |-> ToArrow(FromStrOrString(defs[f].type)), nullable |-> ~defs[f].required]]

BuildIcebergSchema(defs) ==
  [f \in DOMAIN defs |->
     [type |-> ToIceberg(FromStrOrString(defs[f].type)), required |-> defs[f].required]]

----------------------------------------------------------------------------
(* A registration is JSON with an array of fields (parses), for a table or  *)
(* for none; a type that is not a string counts as the unknown type "".     *)
ValidateRegisterSchema(reg, micewriter_table, defs) ==
  /\ reg.parses
  /\ reg.table \in {micewriter_table, "absent"}
  /\ DOMAIN reg.fields \subseteq DOMAIN defs
  /\ \A f \in DOMAIN reg.fields :
       LET t == reg.fields[f].type IN
       (IF t.form = "string" THEN FromStr(t) ELSE NoType) = FromStr(defs[f].type)

----------------------------------------------------------------------------
(* The crates, as far as the documented pairs of types go.                  *)

(* The CBOR values a client writes for a type it declares.                  *)
WireValues == [String |-> "text", Long |-> "integer", Int |-> "integer", Double |-> "float",
               Float |-> "float", Boolean |-> "bool"]

RustReads == [String |-> "text", i64 |-> "integer", i32 |-> "integer", f64 |-> "float",
              f32 |-> "float", bool |-> "bool"]

(* ciborium: the record of a client with these fields makes an event.       *)
Reads(rust, t) ==
  LET m == FromStr(t) IN
  /\ rust.lists = m.lists
  /\ rust.of \in DOMAIN RustReads /\ m.of \in DOMAIN WireValues
  /\ RustReads[rust.of] = WireValues[m.of]

Decodes(struct, fields) ==
  \A f \in DOMAIN struct :
    IF f \in DOMAIN fields THEN Reads(struct[f].type, fields[f].type) ELSE struct[f].option

Missing(struct, fields) == \E f \in DOMAIN struct : ~struct[f].option /\ f \notin DOMAIN fields

(* serde_arrow: an event is sure to fit the Arrow schema.  Whether others   *)
(* do, such as one with a string for a timestamp or a date, is left open.   *)
ArrowOfRust == [String |-> "Utf8", i64 |-> "Int64", i32 |-> "Int32", f64 |-> "Float64",
                f32 |-> "Float32", bool |-> "Boolean"]

Encodes(struct, arrow) ==
  /\ DOMAIN struct = DOMAIN arrow
  /\ \A f \in DOMAIN struct :
       /\ struct[f].type.of \in DOMAIN ArrowOfRust
       /\ arrow[f].type = [lists |-> struct[f].type.lists, of |-> ArrowOfRust[struct[f].type.of]]
       /\ struct[f].option => arrow[f].nullable

(* iceberg: a batch of this Arrow schema has the columns of the table.      *)
FitsTable(arrow, schema) ==
  /\ DOMAIN arrow = DOMAIN schema
  /\ \A f \in DOMAIN arrow :
       /\ \E m \in DOMAIN ArrowTypes : /\ arrow[f].type.of = ArrowTypes[m]
                                       /\ schema[f].type.of = IcebergTypes[m]
       /\ arrow[f].type.lists = schema[f].type.lists
       /\ arrow[f].nullable = ~schema[f].required

----------------------------------------------------------------------------
(* The types that build.rs reads as field_type.rs does: the six plain       *)
(* names, and what both take for a string, not knowing it.                  *)
Usable(t) ==
  \/ t.form = "other"
  \/ t.form = "string" /\ t.lists = 0 /\ t.base \in DOMAIN RustTypes
  \/ t.form = "string" /\ t.base \notin DOMAIN MappedTypes
==============================================================================
