---------------------------- MODULE DurableBuffer ----------------------------
(***************************************************************************)
(* What the engine promises to those who send records to it, without a     *)
(* word on column families, flushes or commits: a record is stored once,   *)
(* acknowledged when it is safe, delivered only while it is stored, and    *)
(* given up locally only when it was delivered.                            *)
(***************************************************************************)
EXTENDS Naturals

CONSTANT Records

VARIABLES
  sent,        \* the records clients have sent
  acked,       \* the records whose acknowledgement reached the client
  stored,      \* the records on the local disk
  delivered,   \* how many copies of each record the table has
  exempt       \* the records that may be given up undelivered: unreadable
               \* ones, and those an append wrote too late to be noticed

bufferVars == <<sent, acked, stored, delivered, exempt>>

Safe(r) == r \in stored \/ delivered[r] > 0 \/ r \in exempt

Init ==
  /\ sent = {} /\ acked = {} /\ stored = {}
  /\ delivered = [r \in Records |-> 0]
  /\ exempt \subseteq Records

Send(r) ==
  /\ r \notin sent
  /\ sent' = sent \cup {r}
  /\ UNCHANGED <<acked, stored, delivered, exempt>>

(* A record is stored once, and it is then that it becomes exempt.          *)
Store(r) ==
  /\ r \in sent \ stored
  /\ delivered[r] = 0
  /\ stored' = stored \cup {r}
  /\ exempt' \in {exempt, exempt \cup {r}}
  /\ UNCHANGED <<sent, acked, delivered>>

Acknowledge(r) ==
  /\ r \in sent
  /\ Safe(r)
  /\ acked' = acked \cup {r}
  /\ UNCHANGED <<sent, stored, delivered, exempt>>

(* Records reach the table together, each while it is still stored.         *)
Deliver(rs) ==
  /\ rs \subseteq stored
  /\ delivered' = [r \in Records |-> IF r \in rs THEN delivered[r] + 1 ELSE delivered[r]]
  /\ UNCHANGED <<sent, acked, stored, exempt>>

(* Stored records are given up together, each delivered or exempt.          *)
Release(rs) ==
  /\ rs \subseteq stored
  /\ \A r \in rs : delivered[r] > 0 \/ r \in exempt
  /\ stored' = stored \ rs
  /\ UNCHANGED <<sent, acked, delivered, exempt>>

Next ==
  \/ \E r \in Records : Send(r) \/ Store(r) \/ Acknowledge(r)
  \/ \E rs \in SUBSET Records : Deliver(rs) \/ Release(rs)

Spec == Init /\ [][Next]_bufferVars
==============================================================================
