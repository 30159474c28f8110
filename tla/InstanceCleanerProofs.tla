------------------------ MODULE InstanceCleanerProofs ------------------------
(***************************************************************************)
(* Machine-checked proofs about the cleaner model InstanceCleaner, for     *)
(* every set of instances and clients, every batch size, timeout, clock    *)
(* bound and error bound allowed by InstanceCleanerAssumption.            *)
(*                                                                         *)
(* RowsConsistent is inductive together with TypeOK: registration writes   *)
(* the instance, its metadata and its health check together, a run's       *)
(* DELETEs remove the metadata and health check of every picked id and the *)
(* instance row only of a picked id, and a failed run changes nothing.     *)
(***************************************************************************)
EXTENDS InstanceCleaner, TLAPS

USE InstanceCleanerAssumption

(* The initial state is well typed. *)
LEMMA InitType == Init => TypeOK
  BY DEF Init, TypeOK, Times, States

(* A batch the SELECT returns is a set of instance ids. *)
LEMMA BatchesType == Batches \subseteq SUBSET Instances
  BY DEF Batches, Expired

(* A batch deleted_clients holds is a set of client ids. *)
LEMMA ClientBatchesType == ClientBatches \subseteq SUBSET Clients
  BY DEF ClientBatches, ExpiredClients

(* A purge run either commits its three DELETEs or changes no row. *)
LEMMA PurgeCases ==
  ASSUME Purge
  PROVE  /\ pc' = "idle" /\ picked' = {}
         /\ UNCHANGED <<now, errs, mtime, client, cmtime, cpc, cpicked>>
         /\ \/ /\ meta' = [i \in Instances |-> meta[i] /\ i \notin picked]
               /\ hc' = [i \in Instances |-> hc[i] /\ i \notin picked]
               /\ inst' = [i \in Instances |->
                             IF i \in picked /\ inst[i] = "deleted"
                             THEN "absent" ELSE inst[i]]
            \/ UNCHANGED <<meta, hc, inst>>
  <1>1. CASE Placeholders(picked) = Cardinality(picked)
    BY <1>1 DEF Purge, clientVars
  <1>2. CASE Placeholders(picked) # Cardinality(picked)
    BY <1>2 DEF Purge, clientVars
  <1>3. QED
    BY <1>1, <1>2

(* Every step keeps TypeOK. *)
LEMMA TypeStep == TypeOK /\ [Next]_vars => TypeOK'
  <1> SUFFICES ASSUME TypeOK, [Next]_vars PROVE TypeOK'
    OBVIOUS
  <1>1. ASSUME NEW i \in Instances, Register(i) \/ Deregister(i) PROVE TypeOK'
    BY <1>1 DEF Register, Deregister, TypeOK, States, Times, clientVars
  <1>2. ASSUME NEW c \in Clients, ClientRegister(c) \/ ClientDeregister(c)
        PROVE TypeOK'
    BY <1>2 DEF ClientRegister, ClientDeregister, TypeOK, States, Times, instVars
  <1>3. CASE Select
    BY <1>3, BatchesType DEF Select, TypeOK, clientVars
  <1>4. CASE Purge
    <2>1. pc' = "idle" /\ picked' = {}
          /\ UNCHANGED <<now, errs, mtime, client, cmtime, cpc, cpicked>>
      BY <1>4, PurgeCases
    <2>2. /\ meta' \in [Instances -> BOOLEAN]
          /\ hc' \in [Instances -> BOOLEAN]
          /\ inst' \in [Instances -> States]
      <3>1. CASE /\ meta' = [i \in Instances |-> meta[i] /\ i \notin picked]
                 /\ hc' = [i \in Instances |-> hc[i] /\ i \notin picked]
                 /\ inst' = [i \in Instances |->
                               IF i \in picked /\ inst[i] = "deleted"
                               THEN "absent" ELSE inst[i]]
        BY <3>1 DEF TypeOK, States
      <3>2. CASE UNCHANGED <<meta, hc, inst>>
        BY <3>2 DEF TypeOK
      <3>3. QED
        BY <1>4, <3>1, <3>2, PurgeCases
    <2>3. QED
      BY <2>1, <2>2 DEF TypeOK
  <1>5. CASE ClientSnapshot
    BY <1>5, ClientBatchesType DEF ClientSnapshot, TypeOK, instVars
  <1>6. CASE ClientDelete
    BY <1>6 DEF ClientDelete, TypeOK, States, instVars
  <1>7. CASE PurgeFails \/ ClientFails
    BY <1>7 DEF PurgeFails, ClientFails, StoreError, TypeOK, instVars, clientVars
  <1>8. CASE Clock
    BY <1>8 DEF Clock, TypeOK, Times, instVars, clientVars
  <1>9. CASE UNCHANGED vars
    BY <1>9 DEF vars, instVars, clientVars, TypeOK
  <1>10. QED
    BY <1>1, <1>2, <1>3, <1>4, <1>5, <1>6, <1>7, <1>8, <1>9
       DEF Next, Cleaner, ClientCleaner

(* Every reachable state is well typed: the cleaner's phase and its picked *)
(* ids agree, and the error count stays within its bound.                  *)
THEOREM TypeCorrect == Spec => []TypeOK
  BY InitType, TypeStep, PTL DEF Spec

(* Every step keeps RowsConsistent. *)
LEMMA RowsConsistentStep ==
  ASSUME TypeOK, RowsConsistent, [Next]_vars PROVE RowsConsistent'
  <1> SUFFICES ASSUME NEW j \in Instances
               PROVE  /\ meta'[j] = hc'[j]
                      /\ inst'[j] = "absent" => ~meta'[j]
    BY DEF RowsConsistent
  <1>1. ASSUME NEW i \in Instances, Register(i) \/ Deregister(i)
        PROVE  meta'[j] = hc'[j] /\ (inst'[j] = "absent" => ~meta'[j])
    BY <1>1 DEF Register, Deregister, RowsConsistent, TypeOK, clientVars
  <1>2. CASE Purge
    <2>1. CASE /\ meta' = [i \in Instances |-> meta[i] /\ i \notin picked]
               /\ hc' = [i \in Instances |-> hc[i] /\ i \notin picked]
               /\ inst' = [i \in Instances |->
                             IF i \in picked /\ inst[i] = "deleted"
                             THEN "absent" ELSE inst[i]]
      BY <2>1 DEF RowsConsistent
    <2>2. CASE UNCHANGED <<meta, hc, inst>>
      BY <2>2 DEF RowsConsistent
    <2>3. QED
      BY <1>2, <2>1, <2>2, PurgeCases
  <1>3. ASSUME \/ \E c \in Clients : ClientRegister(c) \/ ClientDeregister(c)
               \/ ClientSnapshot \/ ClientDelete \/ ClientFails
               \/ Select \/ PurgeFails \/ Clock \/ UNCHANGED vars
        PROVE  meta'[j] = hc'[j] /\ (inst'[j] = "absent" => ~meta'[j])
    BY <1>3 DEF ClientRegister, ClientDeregister, ClientSnapshot, ClientDelete,
                ClientFails, Select, PurgeFails, Clock, vars, instVars,
                StoreError, RowsConsistent
  <1>4. QED
    BY <1>1, <1>2, <1>3 DEF Next, Cleaner, ClientCleaner

(* The purge transaction is all or nothing, children before the parent:   *)
(* in every reachable state an instance's metadata and health check rows   *)
(* exist together, and never without the instance row                      *)
(* (BatchCleanDeletedInstances with processWithTransaction's Rollback).    *)
THEOREM RowsConsistentHolds == Spec => []RowsConsistent
  <1>1. Init => TypeOK /\ RowsConsistent
    BY InitType DEF Init, RowsConsistent
  <1>2. TypeOK /\ RowsConsistent /\ [Next]_vars => (TypeOK /\ RowsConsistent)'
    BY TypeStep, RowsConsistentStep
  <1>3. QED
    BY <1>1, <1>2, PTL DEF Spec

=============================================================================
