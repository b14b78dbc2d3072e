---------------------------- MODULE EngineTotals -----------------------------
(***************************************************************************)
(* The properties of Engine that count over all column families.           *)
(***************************************************************************)
EXTENDS Engine

(* The sum of a count or a size over all CFs: the number of its units, each *)
(* of them a pair of a CF and a number.                                     *)
Column(c, n) == {c} \X (1 .. n)
Units(f) == UNION {Column(c, f[c]) : c \in CfName}
Total(f) == Cardinality(Units(f))

(* total_unflushed_bytes is the size of the active CF and of the frozen     *)
(* ones, up to the appends between their two fetch_adds, whatever rotate    *)
(* and drop_frozen_cf do meanwhile; fetch_sub never wraps it.  (Within      *)
(* rotate, between swap and insert, and within drop_frozen_cf, between      *)
(* remove and fetch_sub, the total is for a moment the larger side.)        *)
BytesConserved ==
  /\ total_unflushed_bytes >= 0
  /\ total_unflushed_bytes + Cardinality({s \in Streams : append_pc[s] = "counted"})
       = active_cf_bytes + Total(frozen_cf_sizes)

(* The pipelines between acquire_owned and the end of their compile task    *)
(* are as many as the permits taken, over all flush cycles that overlap and *)
(* however they end.                                                        *)
PermitsConserved ==
  permits + Total(compiling) + Total(encoded) = ConcurrentCfFlushes
==============================================================================
