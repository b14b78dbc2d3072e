----------------------------- MODULE LocksProofs -----------------------------
(***************************************************************************)
(* Proofs about StoreLocks, for any number of streams, CFs, permits and    *)
(* workers.                                                                *)
(***************************************************************************)
EXTENDS StoreLocks, FiniteSetTheorems, TLAPS

(* A CF that moves on to a place without a permit, or from one with a       *)
(* permit, adds none to those that are taken.                               *)
LEMMA PermitsKept ==
  ASSUME LocksTypeOK, Compiling' \subseteq Compiling
  PROVE  Cardinality(Compiling') <= Permits
<1>1. IsFiniteSet(Compiling)
  BY FS_Subset, LocksAssumption DEF Compiling, At
<1>2. /\ IsFiniteSet(Compiling') /\ Cardinality(Compiling') <= Cardinality(Compiling)
  BY <1>1, FS_Subset
<1>3. Cardinality(Compiling) \in Nat /\ Cardinality(Compiling') \in Nat
  BY <1>1, <1>2, FS_CardinalityType
<1> QED
  BY <1>2, <1>3, LocksAssumption DEF LocksTypeOK

(* CompileStart takes a permit that is free.                                *)
LEMMA PermitTaken ==
  ASSUME LocksTypeOK, NEW c \in Cfs, CompileStart(c)
  PROVE  Cardinality(Compiling') <= Permits
<1>1. IsFiniteSet(Compiling)
  BY FS_Subset, LocksAssumption DEF Compiling, At
<1>2. c \notin Compiling
  BY DEF CompileStart, Goto, Compiling, At
<1>3. Compiling' = Compiling \cup {c}
  BY DEF CompileStart, Goto, Compiling, At, LocksTypeOK
<1>4. Cardinality(Compiling') = Cardinality(Compiling) + 1
  BY <1>1, <1>2, <1>3, FS_AddElement
<1>5. Cardinality(Compiling) \in Nat
  BY <1>1, FS_CardinalityType
<1> QED
  BY <1>4, <1>5, LocksAssumption DEF CompileStart

(* Every stream and every CF is at one of the places of the code, and no    *)
(* more CFs are compiled than concurrent_cf_flushes allows: CompileStart    *)
(* waits for a permit that the others give back in CompileClose.            *)
THEOREM LocksTypeCorrect == Spec => []LocksTypeOK
<1>1. Init => LocksTypeOK
  <2> SUFFICES ASSUME Init PROVE LocksTypeOK
    OBVIOUS
  <2>1. Compiling = {}
    BY DEF Init, Compiling, At
  <2> QED
    BY <2>1, FS_EmptySet, LocksAssumption DEF Init, LocksTypeOK
<1>2. LocksTypeOK /\ [Next]_lockVars => LocksTypeOK'
  <2> SUFFICES ASSUME LocksTypeOK, [Next]_lockVars PROVE LocksTypeOK'
    OBVIOUS
  <2>1. ASSUME NEW s \in Streams, AppendCall(s) \/ AppendStep(s) PROVE LocksTypeOK'
    <3>1. Compiling' = Compiling
      BY <2>1 DEF AppendCall, AppendStep, Compiling, At
    <3> QED
      BY <2>1, <3>1, PermitsKept DEF LocksTypeOK, AppendCall, AppendStep
  <2>2. ASSUME NEW c \in Cfs, LoopWakes(c) \/ RotateStep(c) \/ LoopSpawns(c)
        PROVE  LocksTypeOK'
    <3>1. Compiling' \subseteq Compiling
      BY <2>2 DEF LocksTypeOK, LoopWakes, RotateStep, LoopSpawns, Goto, Compiling, At
    <3> QED
      BY <2>2, <3>1, PermitsKept DEF LocksTypeOK, LoopWakes, RotateStep, LoopSpawns, Goto
  <2>3. ASSUME NEW c \in Cfs, CompileStart(c) PROVE LocksTypeOK'
    BY <2>3, PermitTaken DEF LocksTypeOK, CompileStart, Goto
  <2>4. ASSUME NEW c \in Cfs, CompileStep(c) \/ CompileClose(c) PROVE LocksTypeOK'
    <3>1. Compiling' \subseteq Compiling
      BY <2>4 DEF LocksTypeOK, CompileStep, CompileClose, Goto, Compiling, At
    <3> QED
      BY <2>4, <3>1, PermitsKept DEF LocksTypeOK, CompileStep, CompileClose, Goto
  <2>5. ASSUME NEW c \in Cfs, DropStart(c) \/ DropStep(c) PROVE LocksTypeOK'
    <3>1. Compiling' \subseteq Compiling
      BY <2>5 DEF LocksTypeOK, DropStart, DropStep, Goto, Compiling, At
    <3> QED
      BY <2>5, <3>1, PermitsKept DEF LocksTypeOK, DropStart, DropStep, Goto
  <2>6. CASE Commit
    <3>1. Compiling' \subseteq Compiling
      BY <2>6 DEF Commit, Compiling, At
    <3> QED
      BY <2>6, <3>1, PermitsKept DEF LocksTypeOK, Commit
  <2>7. CASE UNCHANGED lockVars
    <3>1. Compiling' = Compiling
      BY <2>7 DEF lockVars, Compiling, At
    <3> QED
      BY <2>7, <3>1 DEF LocksTypeOK, lockVars
  <2> QED
    BY <2>1, <2>2, <2>3, <2>4, <2>5, <2>6, <2>7 DEF Next
<1> QED
  BY <1>1, <1>2, PTL DEF Spec
==============================================================================
