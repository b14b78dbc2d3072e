----------------------------- MODULE RocksStore ------------------------------
(***************************************************************************)
(* The local buffer: RocksStore of rocksdb_store.rs.                       *)
(*                                                                         *)
(* A column family (CF) is named by the timestamp in its name, INITIAL_CF  *)
(* by 0.  A Vec or a channel of CF names is a count per name, because the  *)
(* order of its elements never matters to the code.  A record has size 1.  *)
(* Every operation is one action per step that other threads can observe;  *)
(* an operation constrains all the store's variables and no others.        *)
(***************************************************************************)
EXTENDS Environment, Integers, FiniteSets

CONSTANTS Records,           \* the records a client may send
          NoRecord,          \* the value of an append slot that is not in use
          Streams,           \* the ingest streams, one append in flight in each
          MaxCf,             \* bound: the largest timestamp a CF name may carry
          Tick,              \* bound: a clock that goes forward shows multiples of it
          FlushSizeBytes, FlushSizeJitterBytes,  \* the configured flush size
          MinSizeLimit,      \* the floor of the size limit, 1 MiB in the code
          SyncWrites         \* rocksdb_sync_writes

INITIAL_CF == 0
CfName == 0 .. MaxCf
NoCf == -1

ASSUME StoreAssumption ==
  /\ NoRecord \notin Records
  /\ MaxCf \in Nat /\ Tick \in Nat \ {0}
  /\ FlushSizeBytes \in Nat /\ FlushSizeJitterBytes \in Nat /\ MinSizeLimit \in Nat
  /\ SyncWrites \in BOOLEAN

VARIABLES
  \* on disk
  cfs,        \* the CFs that exist
  rows,       \* the rows of each CF, pairs of a key and a record
  unsynced,   \* the records whose write was not followed by an fsync
  \* in memory
  active_cf,              \* name of the CF that receives appends
  rotating,               \* CF created by a rotate that still holds active_cf's lock
  counter,                \* the next key
  active_cf_bytes, active_cf_size_limit, total_unflushed_bytes,
  frozen_cf_sizes,        \* size of each frozen CF, 0 where the map has no entry
  orphaned_cfs,           \* the retained CFs, a count per name
  \* the calls of append_batch in flight, one per stream
  append_pc, value, cf_name, new_size

diskVars   == <<cfs, rows, unsynced>>
byteVars   == <<active_cf_bytes, active_cf_size_limit, total_unflushed_bytes,
                frozen_cf_sizes>>
appendVars == <<append_pc, value, cf_name, new_size>>
storeVars  == <<diskVars, active_cf, rotating, counter, byteVars, orphaned_cfs,
                appendVars>>

(* Multisets of CF names. *)
None        == [c \in CfName |-> 0]
Add(v, c)   == [v EXCEPT ![c] = @ + 1]
Remove(v, c) == [v EXCEPT ![c] = @ - 1]
Join(v, w)  == [c \in CfName |-> v[c] + w[c]]
Of(set)     == [c \in CfName |-> IF c \in set THEN 1 ELSE 0]

RecordsIn(c) == {row[2] : row \in rows[c]}
OnDisk == UNION {RecordsIn(c) : c \in cfs}

(* Key k now holds r: a put replaces the row that had the key. *)
Put(old, k, r) == {row \in old : row[1] # k} \cup {<<k, r>>}

(* append_batch keeps the read lock of db from before the write until its   *)
(* return; create_cf and drop_cf need the write lock.                       *)
DbNeverHeld == FALSE   \* mutant: the lock is not kept across the accounting

DbReadHeld == \E s \in Streams : append_pc[s] \in {"wrote", "counted"}

----------------------------------------------------------------------------
(* The values reset_size_limit may store.                                   *)
SizeLimits == LET Jittered(j) == IF FlushSizeBytes + j < FlushSizeJitterBytes
                                   THEN 0 ELSE FlushSizeBytes + j - FlushSizeJitterBytes
                  Floor(n) == IF n < MinSizeLimit THEN MinSizeLimit ELSE n
              IN  {Floor(Jittered(j)) : j \in 0 .. 2 * FlushSizeJitterBytes}

ResetSizeLimit == active_cf_size_limit' \in SizeLimits

(* RocksStore::new.  The CFs on disk are opened (INITIAL_CF when there is   *)
(* no database yet), the one with the newest timestamp becomes active, the  *)
(* others are orphans whose size is estimated at FlushSizeBytes.            *)
ListCf == IF cfs = {} THEN {INITIAL_CF} ELSE cfs

(* The last key of the active CF, 0 when the CF is empty.  An iterator that *)
(* answers with an error counts as an empty CF.                             *)
LastKey(newest, k) ==
  LET keys == {row[1] : row \in rows[newest]}
  IN  \/ NoFault /\ k \in keys /\ \A j \in keys : j <= k
      \/ NoFault /\ keys = {} /\ k = 0
      \/ Fault("maxkey") /\ k = 0

NoOrphans(newest) == {}   \* mutant: leftovers of a previous run are not looked for

Orphans(newest) == ListCf \ {newest}

FirstKeyOffByOne(max_id) == max_id   \* mutant: the last key is used again

FirstKey(max_id) == max_id + 1

Open(newest, max_id) ==
  LET orphans == Orphans(newest)
  IN  /\ newest \in ListCf
      /\ \A c \in ListCf : c <= newest
      /\ LastKey(newest, max_id)
      /\ cfs' = ListCf
      /\ active_cf' = newest
      /\ orphaned_cfs' = Of(orphans)
      /\ counter' = FirstKey(max_id)
      /\ active_cf_bytes' = 0
      /\ total_unflushed_bytes' = Cardinality(orphans) * FlushSizeBytes
      /\ frozen_cf_sizes' = [c \in CfName |-> IF c \in orphans THEN FlushSizeBytes ELSE 0]
      /\ ResetSizeLimit
      /\ UNCHANGED <<rows, unsynced, rotating, appendVars>>

----------------------------------------------------------------------------
(* append_batch with one value, called by the task of stream s.             *)
(* It copies the name of the active CF, which waits for a rotate that holds *)
(* the lock.                                                                *)
AppendStart(s, r) ==
  /\ append_pc[s] = "idle"
  /\ rotating = NoCf
  /\ append_pc' = [append_pc EXCEPT ![s] = "named"]
  /\ value' = [value EXCEPT ![s] = r]
  /\ cf_name' = [cf_name EXCEPT ![s] = active_cf]
  /\ UNCHANGED <<diskVars, active_cf, rotating, counter, byteVars, orphaned_cfs, new_size>>

(* mutant: the write options leave sync off *)
AppendWriteUnsynced(s) ==
  /\ append_pc[s] = "named"
  /\ cf_name[s] \in cfs
  /\ counter' = counter + 1
  /\ rows' = [rows EXCEPT ![cf_name[s]] = Put(@, counter, value[s])]
  /\ unsynced' = unsynced \cup {value[s]}
  /\ append_pc' = [append_pc EXCEPT ![s] = "wrote"]
  /\ UNCHANGED <<cfs, active_cf, rotating, byteVars, orphaned_cfs, value, cf_name, new_size>>

(* It takes the read lock of db, a key, and writes the batch.               *)
AppendWrite(s) ==
  /\ append_pc[s] = "named"
  /\ cf_name[s] \in cfs
  /\ counter' = counter + 1
  /\ rows' = [rows EXCEPT ![cf_name[s]] = Put(@, counter, value[s])]
  /\ unsynced' = IF SyncWrites THEN unsynced ELSE unsynced \cup {value[s]}
  /\ append_pc' = [append_pc EXCEPT ![s] = "wrote"]
  /\ UNCHANGED <<cfs, active_cf, rotating, byteVars, orphaned_cfs, value, cf_name, new_size>>

(* The copied name no longer exists, or the write fails.                    *)
AppendFail(s) ==
  /\ append_pc[s] = "named"
  /\ \/ cf_name[s] \notin cfs /\ NoFault /\ UNCHANGED counter
     \/ cf_name[s] \in cfs /\ Fault("write") /\ counter' = counter + 1
  /\ append_pc' = [append_pc EXCEPT ![s] = "failed"]
  /\ UNCHANGED <<diskVars, active_cf, rotating, byteVars, orphaned_cfs, value, cf_name,
                 new_size>>

(* The two fetch_adds, in the order of the code.                            *)
AppendCount(s) ==
  /\ append_pc[s] = "wrote"
  /\ active_cf_bytes' = active_cf_bytes + 1
  /\ new_size' = [new_size EXCEPT ![s] = active_cf_bytes + 1]
  /\ append_pc' = [append_pc EXCEPT ![s] = "counted"]
  /\ UNCHANGED <<diskVars, active_cf, rotating, counter, active_cf_size_limit,
                 total_unflushed_bytes, frozen_cf_sizes, orphaned_cfs, value, cf_name>>

(* The append returns, and with it the read lock: "full" is Ok(true).       *)
LimitReached(size) == size >= active_cf_size_limit

AppendReturn(s) ==
  /\ append_pc[s] = "counted"
  /\ total_unflushed_bytes' = total_unflushed_bytes + 1
  /\ append_pc' = [append_pc EXCEPT ![s] = IF LimitReached(new_size[s]) THEN "full" ELSE "done"]
  /\ UNCHANGED <<diskVars, active_cf, rotating, counter, active_cf_bytes,
                 active_cf_size_limit, frozen_cf_sizes, orphaned_cfs, value, cf_name, new_size>>

(* The caller has used the result.                                          *)
AppendForget(s) ==
  /\ append_pc[s] \in {"done", "full", "failed"}
  /\ append_pc' = [append_pc EXCEPT ![s] = "idle"]
  /\ value' = [value EXCEPT ![s] = NoRecord]
  /\ cf_name' = [cf_name EXCEPT ![s] = NoCf]
  /\ new_size' = [new_size EXCEPT ![s] = 0]
  /\ UNCHANGED <<diskVars, active_cf, rotating, counter, byteVars, orphaned_cfs>>

----------------------------------------------------------------------------
(* rotate: under the write lock of active_cf a CF named by the clock is     *)
(* created, then the name and the counters are switched.  The lock of db is *)
(* released in between, so appends that hold a name go on.  Fresh are the   *)
(* names it has for a rotation.                                             *)
Fresh(floor) == {n \in CfName : n > floor /\ n \notin cfs /\ n % Tick = 0}

(* A clock that has been set back may show any time between.                *)
NewName(n) == \/ NoFault /\ n \in Fresh(active_cf) /\ \A m \in Fresh(active_cf) : n <= m
              \/ Fault("clock") /\ n \in CfName \ cfs /\ INITIAL_CF < n /\ n < active_cf

RotateCreate(n) ==
  /\ rotating = NoCf
  /\ ~DbReadHeld
  /\ NewName(n)
  /\ cfs' = cfs \cup {n}
  /\ rotating' = n
  /\ UNCHANGED <<rows, unsynced, active_cf, counter, byteVars, orphaned_cfs, appendVars>>

RotateSwitch ==
  /\ rotating # NoCf
  /\ active_cf' = rotating
  /\ rotating' = NoCf
  /\ frozen_cf_sizes' = [frozen_cf_sizes EXCEPT ![active_cf] = active_cf_bytes]
  /\ active_cf_bytes' = 0
  /\ ResetSizeLimit
  /\ UNCHANGED <<diskVars, counter, total_unflushed_bytes, orphaned_cfs, appendVars>>

CopyOrphanedCfs == UNCHANGED storeVars   \* mutant: the list is not cleared

(* get_orphaned_cfs clears the list it returns.                             *)
TakeOrphanedCfs ==
  /\ orphaned_cfs' = None
  /\ UNCHANGED <<diskVars, active_cf, rotating, counter, byteVars, appendVars>>

(* retain_frozen_cf, for each of the names in v.                            *)
RetainFrozenCfs(v) ==
  /\ orphaned_cfs' = Join(orphaned_cfs, v)
  /\ UNCHANGED <<diskVars, active_cf, rotating, counter, byteVars, appendVars>>

(* drop_frozen_cf.                                                          *)
DropFrozenCf(c) ==
  /\ ~DbReadHeld
  /\ c \in cfs
  /\ cfs' = cfs \ {c}
  /\ rows' = [rows EXCEPT ![c] = {}]
  /\ unsynced' = unsynced \ RecordsIn(c)
  /\ frozen_cf_sizes' = [frozen_cf_sizes EXCEPT ![c] = 0]
  /\ total_unflushed_bytes' = total_unflushed_bytes - frozen_cf_sizes[c]
  /\ UNCHANGED <<active_cf, rotating, counter, active_cf_bytes, active_cf_size_limit,
                 orphaned_cfs, appendVars>>

----------------------------------------------------------------------------
(* The process ends and its memory with it; a crash of the machine also     *)
(* takes writes that no fsync followed.                                     *)
ForgetStore ==
  /\ active_cf' = INITIAL_CF
  /\ rotating' = NoCf
  /\ counter' = 0
  /\ active_cf_bytes' = 0 /\ active_cf_size_limit' = 0 /\ total_unflushed_bytes' = 0
  /\ frozen_cf_sizes' = None
  /\ orphaned_cfs' = None
  /\ append_pc' = [s \in Streams |-> "idle"]
  /\ value' = [s \in Streams |-> NoRecord]
  /\ cf_name' = [s \in Streams |-> NoCf]
  /\ new_size' = [s \in Streams |-> 0]

LoseUnsynced(lost) ==
  /\ lost \subseteq unsynced
  /\ rows' = [c \in CfName |-> {row \in rows[c] : row[2] \notin lost}]
  /\ unsynced' = {}
  /\ UNCHANGED cfs

StoreInit ==
  /\ cfs = {} /\ rows = [c \in CfName |-> {}] /\ unsynced = {}
  /\ active_cf = INITIAL_CF /\ rotating = NoCf /\ counter = 0
  /\ active_cf_bytes = 0 /\ active_cf_size_limit = 0 /\ total_unflushed_bytes = 0
  /\ frozen_cf_sizes = None /\ orphaned_cfs = None
  /\ append_pc = [s \in Streams |-> "idle"]
  /\ value = [s \in Streams |-> NoRecord]
  /\ cf_name = [s \in Streams |-> NoCf]
  /\ new_size = [s \in Streams |-> 0]

StoreTypeOK ==
  /\ cfs \subseteq CfName
  /\ rows \in [CfName -> SUBSET (Nat \X Records)]
  /\ unsynced \subseteq Records
  /\ active_cf \in CfName /\ rotating \in CfName \cup {NoCf} /\ counter \in Nat
  /\ active_cf_bytes \in Nat /\ active_cf_size_limit \in Nat
  /\ total_unflushed_bytes \in Int /\ frozen_cf_sizes \in [CfName -> Nat]
  /\ orphaned_cfs \in [CfName -> Nat]
  /\ append_pc \in [Streams -> {"idle", "named", "wrote", "counted", "done", "full", "failed"}]
  /\ value \in [Streams -> Records \cup {NoRecord}]
  /\ cf_name \in [Streams -> CfName \cup {NoCf}]
  /\ new_size \in [Streams -> Nat]
==============================================================================
