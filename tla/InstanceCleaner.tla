--------------------------- MODULE InstanceCleaner ---------------------------
(***************************************************************************)
(* adminStore.BatchCleanDeletedInstances                                   *)
(* (src/store/postgresql/config_file_template.go, lines 590-676): one run  *)
(* purges up to batchSize instances soft-deleted (flag = 1) at least       *)
(* timeout ago, with their instance_metadata and health_check rows, in one *)
(* transaction of four statements: a SELECT ... LIMIT of the ids, then     *)
(* three DELETEs.  The server's cleaner task calls it again and again.     *)
(* adminStore.BatchCleanDeletedClients (lines 718-760) does the same for   *)
(* the client table in one statement: a CTE selects the ids, and a DELETE  *)
(* removes the rows with those ids.                                        *)
(*                                                                         *)
(* The instance and client writes of the naming server (register,        *)
(* deregister, report) are the environment: they are not in this          *)
(* repository.  Instance ids are derived from the instance's address and  *)
(* client ids are chosen by the client, so a deregistered instance or      *)
(* client that comes back has the same id.                                 *)
(*                                                                         *)
(* The statements after the SELECT are one step (Purge): the registration *)
(* that matters is one committed between the SELECT and the DELETEs,      *)
(* which READ COMMITTED lets the DELETEs see.  The client statement is two *)
(* steps (ClientSnapshot, ClientDelete): the CTE reads the statement's    *)
(* snapshot, and when the DELETE meets a row updated by a transaction      *)
(* committed since, PostgreSQL re-evaluates only "id IN (...)" on the new  *)
(* row version, which still holds.                                          *)
(***************************************************************************)
EXTENDS Naturals, FiniteSets

CONSTANTS
    Instances,   \* instance ids
    Clients,     \* client ids
    BatchSize,   \* batchSize
    Timeout,     \* timeout, in seconds
    MaxTime,     \* bound on the clock
    MaxErrors    \* bound on failed transactions in one behaviour

ASSUME InstanceCleanerAssumption ==
    /\ BatchSize \in Nat \ {0}
    /\ Timeout \in Nat
    /\ MaxTime \in Nat
    /\ MaxErrors \in Nat

Times  == 0..MaxTime
States == {"absent", "live", "deleted"}    \* no row, flag = 0, flag = 1

VARIABLES
    now,      \* the clock (seconds)
    inst,     \* inst[id]: the instance row's state
    mtime,    \* mtime[id]: the instance row's mtime
    meta,     \* meta[id]: instance_metadata rows of id exist
    hc,       \* hc[id]: the health_check row of id exists
    pc,       \* the cleaner: "idle" or "selected" (inside its transaction)
    picked,   \* waitDelIds
    client,   \* client[id]: the client row's state
    cmtime,   \* cmtime[id]: the client row's mtime
    cpc,      \* the client cleaner: "idle" or "deleting" (inside its statement)
    cpicked,  \* the ids deleted_clients holds
    errs      \* failed transactions so far

instVars   == <<inst, mtime, meta, hc, pc, picked>>
clientVars == <<client, cmtime, cpc, cpicked>>
vars == <<now, instVars, clientVars, errs>>

Init ==
    /\ now = 0
    /\ inst = [i \in Instances |-> "absent"]
    /\ mtime = [i \in Instances |-> 0]
    /\ meta = [i \in Instances |-> FALSE]
    /\ hc = [i \in Instances |-> FALSE]
    /\ pc = "idle"
    /\ picked = {}
    /\ client = [c \in Clients |-> "absent"]
    /\ cmtime = [c \in Clients |-> 0]
    /\ cpc = "idle"
    /\ cpicked = {}
    /\ errs = 0

(* Environment: an instance registers (again): flag = 0 with its metadata  *)
(* and health check.                                                       *)
Register(i) ==
    /\ inst[i] # "live"
    /\ inst' = [inst EXCEPT ![i] = "live"]
    /\ mtime' = [mtime EXCEPT ![i] = now]
    /\ meta' = [meta EXCEPT ![i] = TRUE]
    /\ hc' = [hc EXCEPT ![i] = TRUE]
    /\ UNCHANGED <<now, errs, pc, picked, clientVars>>

(* Environment: an instance deregisters: flag = 1.                         *)
Deregister(i) ==
    /\ inst[i] = "live"
    /\ inst' = [inst EXCEPT ![i] = "deleted"]
    /\ mtime' = [mtime EXCEPT ![i] = now]
    /\ UNCHANGED <<now, errs, meta, hc, pc, picked, clientVars>>

(* SELECT id FROM instance WHERE flag = 1 AND mtime <= $1 limit $2, with   *)
(* $1 = now - timeout on the server's clock (lines 597-601).               *)
Expired == {i \in Instances : inst[i] = "deleted" /\ mtime[i] + Timeout <= now}

Batches ==
    {S \in SUBSET Expired :
        Cardinality(S) = IF Cardinality(Expired) < BatchSize
                         THEN Cardinality(Expired) ELSE BatchSize}

(* Mutant: the SELECT without its early return on no rows.               *)
SelectNoEarlyReturn ==
    /\ pc = "idle"
    /\ \E S \in Batches :
         /\ pc' = "selected"
         /\ picked' = S
    /\ UNCHANGED <<now, errs, inst, mtime, meta, hc, clientVars>>

(* Lines 595-623: the SELECT; no row ends the transaction (lines 621-623).  *)
Select ==
    /\ pc = "idle"
    /\ \E S \in Batches :
         /\ pc' = IF S = {} THEN "idle" ELSE "selected"
         /\ picked' = S
    /\ UNCHANGED <<now, errs, inst, mtime, meta, hc, clientVars>>

(* Lines 611-624: every id gets the placeholder "$" idx with idx never     *)
(* incremented, so the IN list is "$1,...,$1": one parameter.  lib/pq      *)
(* rejects an Exec whose argument count differs from the statement's, so   *)
(* the first DELETE fails for two or more ids and the transaction rolls    *)
(* back (deferred Rollback, base_db.go 190-192).                            *)
Placeholders(S) == IF S = {} THEN 0 ELSE 1

(* Mutant: the transaction without its instance DELETE.                  *)
PurgeNoInstanceDelete ==
    /\ pc = "selected"
    /\ IF Placeholders(picked) = Cardinality(picked)
       THEN /\ meta' = [i \in Instances |-> meta[i] /\ i \notin picked]
            /\ hc' = [i \in Instances |-> hc[i] /\ i \notin picked]
       ELSE UNCHANGED <<meta, hc>>
    /\ pc' = "idle"
    /\ picked' = {}
    /\ UNCHANGED <<now, errs, mtime, inst, clientVars>>

(* Lines 626-672: DELETE the metadata and health checks of the picked ids, *)
(* then the picked instances that still have flag = 1, and commit.         *)
Purge ==
    /\ pc = "selected"
    /\ IF Placeholders(picked) = Cardinality(picked)
       THEN /\ meta' = [i \in Instances |-> meta[i] /\ i \notin picked]
            /\ hc' = [i \in Instances |-> hc[i] /\ i \notin picked]
            /\ inst' = [i \in Instances |->
                          IF i \in picked /\ inst[i] = "deleted" THEN "absent" ELSE inst[i]]
       ELSE UNCHANGED <<meta, hc, inst>>
    /\ pc' = "idle"
    /\ picked' = {}
    /\ UNCHANGED <<now, errs, mtime, clientVars>>

(* Begin (base_db.go 122-135) or a statement of the transaction returns   *)
(* an error once Retry gives up: one more failed run.                       *)
StoreError ==
    /\ errs < MaxErrors
    /\ errs' = errs + 1

(* Mutant: the statements run outside a transaction, so a failure after   *)
(* the first n DELETEs leaves their effect.                               *)
PurgeFailsNoRollback ==
    /\ StoreError
    /\ \E n \in 0..3 :
         /\ meta' = [i \in Instances |-> meta[i] /\ ~(n >= 1 /\ i \in picked)]
         /\ hc' = [i \in Instances |-> hc[i] /\ ~(n >= 2 /\ i \in picked)]
         /\ inst' = [i \in Instances |->
                       IF n >= 3 /\ i \in picked /\ inst[i] = "deleted"
                       THEN "absent" ELSE inst[i]]
    /\ pc' = "idle"
    /\ picked' = {}
    /\ UNCHANGED <<now, mtime, clientVars>>

(* processWithTransaction (base_db.go 184-196): Begin, the SELECT, a       *)
(* Prepare, an Exec, RowsAffected or the Commit fails (lines 600-667), the *)
(* run returns the error, and the deferred Rollback undoes the DELETEs     *)
(* that ran.                                                               *)
PurgeFails ==
    /\ StoreError
    /\ pc' = "idle"
    /\ picked' = {}
    /\ UNCHANGED <<now, inst, mtime, meta, hc, clientVars>>

(* A second passes.                                                        *)
Clock ==
    /\ now < MaxTime
    /\ now' = now + 1
    /\ UNCHANGED <<instVars, clientVars, errs>>

Cleaner == Select \/ Purge

-----------------------------------------------------------------------------
(* Environment: a client reports (again): its row with flag = 0.           *)
ClientRegister(c) ==
    /\ client[c] # "live"
    /\ client' = [client EXCEPT ![c] = "live"]
    /\ cmtime' = [cmtime EXCEPT ![c] = now]
    /\ UNCHANGED <<now, errs, instVars, cpc, cpicked>>

(* Environment: a client is deregistered: flag = 1.                        *)
ClientDeregister(c) ==
    /\ client[c] = "live"
    /\ client' = [client EXCEPT ![c] = "deleted"]
    /\ cmtime' = [cmtime EXCEPT ![c] = now]
    /\ UNCHANGED <<now, errs, instVars, cpc, cpicked>>

(* deleted_clients: SELECT id FROM client WHERE flag = 1 AND mtime <=      *)
(* now - $1 LIMIT $2 (lines 723-730).                                       *)
ExpiredClients == {c \in Clients : client[c] = "deleted" /\ cmtime[c] + Timeout <= now}

ClientBatches ==
    {S \in SUBSET ExpiredClients :
        Cardinality(S) = IF Cardinality(ExpiredClients) < BatchSize
                         THEN Cardinality(ExpiredClients) ELSE BatchSize}

(* Lines 719-735: the transaction begins and the statement takes its       *)
(* snapshot, in which the CTE picks the ids; with none, the DELETE deletes *)
(* nothing and the transaction commits.                                    *)
ClientSnapshot ==
    /\ cpc = "idle"
    /\ \E S \in ClientBatches :
         /\ cpc' = IF S = {} THEN "idle" ELSE "deleting"
         /\ cpicked' = S
    /\ UNCHANGED <<now, errs, instVars, client, cmtime>>

(* Mutant: the statement that removes nothing.                            *)
ClientDeleteNothing ==
    /\ cpc = "deleting"
    /\ cpc' = "idle"
    /\ cpicked' = {}
    /\ UNCHANGED <<now, errs, instVars, client, cmtime>>

(* Lines 731-760: DELETE FROM client WHERE id IN (SELECT id FROM           *)
(* deleted_clients), then the commit.  The rows of the picked ids go,      *)
(* whatever their flag is now.                                             *)
ClientDelete ==
    /\ cpc = "deleting"
    /\ client' = [c \in Clients |-> IF c \in cpicked THEN "absent" ELSE client[c]]
    /\ cpc' = "idle"
    /\ cpicked' = {}
    /\ UNCHANGED <<now, errs, instVars, cmtime>>

(* Lines 738-757: the statement, RowsAffected or the Commit fails (or     *)
(* Begin, base_db.go 122-135) and the deferred Rollback undoes the DELETE. *)
ClientFails ==
    /\ StoreError
    /\ cpc' = "idle"
    /\ cpicked' = {}
    /\ UNCHANGED <<now, instVars, client, cmtime>>

ClientCleaner == ClientSnapshot \/ ClientDelete

Next ==
    \/ \E i \in Instances : Register(i) \/ Deregister(i)
    \/ \E c \in Clients : ClientRegister(c) \/ ClientDeregister(c)
    \/ Cleaner
    \/ ClientCleaner
    \/ PurgeFails \/ ClientFails
    \/ Clock

Spec == Init /\ [][Next]_vars

(* The cleaner tasks run BatchCleanDeletedInstances and                    *)
(* BatchCleanDeletedClients again and again, each in its own goroutine.   *)
FairSpec == Spec /\ WF_vars(Cleaner) /\ WF_vars(ClientCleaner)

-----------------------------------------------------------------------------
(* Type invariant.                                                          *)
TypeOK ==
    /\ now \in Times
    /\ inst \in [Instances -> States]
    /\ mtime \in [Instances -> Times]
    /\ meta \in [Instances -> BOOLEAN]
    /\ hc \in [Instances -> BOOLEAN]
    /\ pc \in {"idle", "selected"}
    /\ picked \subseteq Instances
    /\ (pc = "selected") = (picked # {})
    /\ client \in [Clients -> States]
    /\ cmtime \in [Clients -> Times]
    /\ cpc \in {"idle", "deleting"}
    /\ cpicked \subseteq Clients
    /\ (cpc = "deleting") = (cpicked # {})
    /\ errs \in 0..MaxErrors

(* The cleaners' contract: a row is removed only of an instance or client *)
(* soft-deleted at least timeout ago, as the SELECTs (lines 597-601,       *)
(* 723-730) require.  The DELETEs trust the ids selected earlier in the    *)
(* run: the metadata and health_check DELETEs (lines 626, 636) and the     *)
(* client DELETE (line 731) check nothing more, and the instance DELETE    *)
(* (line 646) rechecks flag = 1 but not mtime.                             *)
RemovesOnlyExpired ==
    [][/\ \A i \in Instances :
            \/ meta[i] /\ ~meta'[i]
            \/ hc[i] /\ ~hc'[i]
            \/ inst[i] # "absent" /\ inst'[i] = "absent"
            => i \in Expired
       /\ \A c \in Clients :
            client[c] # "absent" /\ client'[c] = "absent" => c \in ExpiredClients]_vars

(* The three DELETEs of a run commit together or not at all, children      *)
(* before the parent: an instance's metadata and health check go together, *)
(* and neither outlives its instance row, whatever run fails where         *)
(* (deferred Rollback, base_db.go 190-192; lines 626-667).                  *)
RowsConsistent ==
    \A i \in Instances :
        /\ meta[i] = hc[i]
        /\ inst[i] = "absent" => ~meta[i]

(* Every instance soft-deleted at least timeout ago is eventually purged,  *)
(* unless it registers again.                                              *)
EventuallyPurged ==
    \A i \in Instances :
        (inst[i] = "deleted" /\ i \in Expired) ~> (inst[i] # "deleted")

(* Every client soft-deleted at least timeout ago is eventually removed,   *)
(* unless it reports again (BatchCleanDeletedClients, lines 719-760).      *)
EventuallyPurgedClient ==
    \A c \in Clients :
        (client[c] = "deleted" /\ c \in ExpiredClients) ~> (client[c] # "deleted")

=============================================================================
