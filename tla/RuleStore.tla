------------------------------ MODULE RuleStore ------------------------------
(***************************************************************************)
(* The rule tables of the PostgreSQL store that server caches pull         *)
(* incrementally by modification time: routing_config_v2                   *)
(* (routingConfigStoreV2) and ratelimit_config (rateLimitStore), both in   *)
(* src/store/postgresql/routing_config_v2.go, and circuitbreaker_rule_v2   *)
(* (circuitBreakerStore, src/unnamed/part_001).  Store selects the table.  *)
(*                                                                         *)
(* Writers are server request handlers.  A write call evaluates            *)
(* GetCurrentTimeFormat() into the mtime argument of its statement (Stamp) *)
(* and then executes and commits the statement (Commit); other calls and  *)
(* the clock may run in between.  A commit may fail ("bad connection"),    *)
(* or apply with its reply lost, which surfaces as the same error;         *)
(* RetryTransaction (base_db.go 173-182) then re-runs the whole handler.   *)
(* A reader is a server cache calling Get...ForCache(mark, firstUpdate)    *)
(* and moving its mark to the greatest mtime it received.                  *)
(*                                                                         *)
(* A row is abstracted to its existence, its flag (soft delete), the       *)
(* revision last written (which stands for the row's content) and mtime   *)
(* in whole seconds.                                                       *)
(***************************************************************************)
EXTENDS Naturals

CONSTANTS
    Store,       \* "routing", "ratelimit" or "circuitbreaker"
    Writers,     \* concurrent request handlers
    Ids,         \* rule ids
    Revs,        \* revisions a call may write
    MaxTime,     \* bound on the clock (seconds)
    MaxErrors,   \* bound on failed commits in one behaviour
    RetryLimit   \* maxTryTimes of Retry

ASSUME RuleStoreAssumption ==
    /\ Store \in {"routing", "ratelimit", "circuitbreaker"}
    /\ Ids # {} /\ Revs # {}
    /\ MaxTime \in Nat \ {0}
    /\ MaxErrors \in Nat
    /\ RetryLimit \in Nat \ {0}

Times == 0..MaxTime
Ops   == {"create", "update", "enable", "delete"}
Gone  == "gone"                       \* cache view of a missing/deleted rule
Present == "present"                  \* HasCircuitBreakerRule's true

Row  == [exists: BOOLEAN, deleted: BOOLEAN, rev: Revs, mtime: Times]
Call == [op: Ops \cup {"none", "get"}, id: Ids, rev: Revs, pc: {"idle", "stamp", "commit", "done"},
         stamp: Times, tries: 0..RetryLimit, err: BOOLEAN, storeErr: BOOLEAN,
         applied: BOOLEAN, got: Revs \cup {Gone, Present}]

VARIABLES
    now,      \* the writers' clock (GetCurrentTimeFormat), in seconds
    table,    \* table[id]: the row of id
    call,     \* call[w]: writer w's call in flight or just returned
    errs,     \* failed commits so far
    mark,     \* the reader's last mtime
    first,    \* the reader's firstUpdate
    cache     \* cache[id]: the revision the reader serves, or Gone

vars == <<now, table, call, errs, mark, first, cache>>

(* Handlers wrapped in RetryTransaction (lines 33, 168 for routing;        *)
(* 983, 1039, 1052, 1128 for rate limits; part_001 lines 53, 83, 118, 434 *)
(* for circuit breaker rules); the others run once.                        *)
RoutingRetried        == {"create", "enable"}
RateLimitRetried      == {"create", "update", "enable", "delete"}
CircuitBreakerRetried == {"create", "update", "enable", "delete"}
Retried ==
    CASE Store = "routing"        -> RoutingRetried
      [] Store = "ratelimit"      -> RateLimitRetried
      [] Store = "circuitbreaker" -> CircuitBreakerRetried

(* INSERT fails with a duplicate key on an existing row.  The routing      *)
(* create first runs DELETE ... WHERE id = $1 AND flag = 1 (lines 67-75);  *)
(* createRateLimit (lines 1010-1024) and createCircuitBreakerRule          *)
(* (part_001 lines 60-79) insert directly.                                 *)
RoutingCreateConflicts(r)   == r.exists /\ ~r.deleted
RateLimitCreateConflicts(r) == r.exists
CircuitBreakerCreateConflicts(r) == r.exists
CreateConflicts(r) ==
    CASE Store = "routing"        -> RoutingCreateConflicts(r)
      [] Store = "ratelimit"      -> RateLimitCreateConflicts(r)
      [] Store = "circuitbreaker" -> CircuitBreakerCreateConflicts(r)

(* The effect of the call's statement on the row, when it applies.          *)
(* INSERT (lines 77-103): a live row.  UPDATE ... WHERE id (lines 148-159, *)
(* 180-190): revision and mtime of an existing row, flag untouched.        *)
(* Soft delete (lines 205-213): flag = 1 and mtime.                        *)
InsertRow(c)    == [exists |-> TRUE, deleted |-> FALSE, rev |-> c.rev, mtime |-> c.stamp]
UpdateRow(r, c) == IF r.exists THEN [r EXCEPT !.rev = c.rev, !.mtime = c.stamp] ELSE r
DeleteRow(r, c) == IF r.exists THEN [r EXCEPT !.deleted = TRUE, !.mtime = c.stamp] ELSE r
Apply(r, c) ==
    CASE c.op = "create" -> InsertRow(c)
      [] c.op \in {"update", "enable"} -> UpdateRow(r, c)
      [] c.op = "delete" -> DeleteRow(r, c)

NoRow  == [exists |-> FALSE, deleted |-> FALSE, rev |-> CHOOSE v \in Revs : TRUE, mtime |-> 0]
NoCall == [op |-> "none", id |-> CHOOSE i \in Ids : TRUE, rev |-> CHOOSE v \in Revs : TRUE,
           pc |-> "idle", stamp |-> 0, tries |-> 0, err |-> FALSE, storeErr |-> FALSE,
           applied |-> FALSE, got |-> Gone]

Init ==
    /\ now = 1
    /\ table = [i \in Ids |-> NoRow]
    /\ call = [w \in Writers |-> NoCall]
    /\ errs = 0
    /\ mark = 0
    /\ first = TRUE
    /\ cache = [i \in Ids |-> Gone]

(* A handler is invoked on a rule (the parameter checks that reject an     *)
(* empty id or revision return before any statement and are left out).    *)
Invoke(w, op, id, rev) ==
    /\ call[w].pc \in {"idle", "done"}
    /\ call' = [call EXCEPT ![w] = [NoCall EXCEPT !.op = op, !.id = id, !.rev = rev,
                                                   !.pc = "stamp"]]
    /\ UNCHANGED <<now, table, errs, mark, first, cache>>

(* Mutant: a stamp one second ahead of the clock.                        *)
StampAhead(w) ==
    /\ call[w].pc = "stamp"
    /\ call' = [call EXCEPT ![w].stamp = now + 1, ![w].pc = "commit"]
    /\ UNCHANGED <<now, table, errs, mark, first, cache>>

(* The statement's arguments are built: GetCurrentTimeFormat() is read.    *)
Stamp(w) ==
    /\ call[w].pc = "stamp"
    /\ call' = [call EXCEPT ![w].stamp = now, ![w].pc = "commit"]
    /\ UNCHANGED <<now, table, errs, mark, first, cache>>

(* The statement executes and commits.  A duplicate key returns an error   *)
(* Retry does not repeat.  A store error may or may not have applied the   *)
(* statement (a lost commit reply); Retry repeats the handler only when    *)
(* the error's text is one of errMsg (deadlock, bad or invalid connection, *)
(* base_db.go line 16) and tries remain (Retry, base_db.go 144-171).      *)
Commit(w) ==
    LET c == call[w]
        r == table[c.id]
        fits == ~(c.op = "create" /\ CreateConflicts(r))
    IN /\ c.pc = "commit"
       /\ \/ /\ ~fits
             /\ call' = [call EXCEPT ![w].pc = "done", ![w].err = TRUE]
             /\ UNCHANGED <<table, errs>>
          \/ /\ fits
             /\ table' = [table EXCEPT ![c.id] = Apply(r, c)]
             /\ call' = [call EXCEPT ![w].pc = "done", ![w].applied = TRUE]
             /\ UNCHANGED errs
          \/ /\ errs < MaxErrors
             /\ \E lost, retriable \in BOOLEAN :
                  LET again == /\ retriable /\ c.op \in Retried
                               /\ c.tries + 1 < RetryLimit
                  IN /\ table' = IF lost /\ fits
                                 THEN [table EXCEPT ![c.id] = Apply(r, c)] ELSE table
                     /\ call' = [call EXCEPT
                                   ![w].pc = IF again THEN "stamp" ELSE "done",
                                   ![w].tries = IF again THEN c.tries + 1 ELSE c.tries,
                                   ![w].err = ~again, ![w].storeErr = TRUE,
                                   ![w].applied = c.applied \/ (lost /\ fits)]
             /\ errs' = errs + 1
    /\ UNCHANGED <<now, mark, first, cache>>

(* fetchRoutingConfigV2Rows / fetchRateLimitCacheRows: Valid = flag != 1.  *)
View(r) == IF r.deleted THEN Gone ELSE r.rev

Latest(S) == CHOOSE t \in S : \A u \in S : u <= t

(* GetRoutingConfigsV2ForCache (lines 219-239), GetRateLimitsForCache       *)
(* (lines 1217-1236): the rows with mtime > $1, without the deleted ones   *)
(* on the first update.  The reader stores them and moves its mark.        *)
Pulled == {i \in Ids : /\ table[i].exists /\ table[i].mtime > mark
                       /\ first => ~table[i].deleted}

Pull ==
    /\ cache' = [i \in Ids |-> IF i \in Pulled THEN View(table[i]) ELSE cache[i]]
    /\ mark' = Latest({mark} \cup {table[i].mtime : i \in Pulled})
    /\ first' = FALSE
    /\ UNCHANGED <<now, table, call, errs>>

(* GetRateLimitWithID and fetchRateLimitRows (lines 1165-1215): select    *)
(* ... where id = $1 and flag = 0; no row is (nil, nil).                    *)
Found(r) == IF r.exists /\ ~r.deleted THEN r.rev ELSE Gone

(* HasCircuitBreakerRule (part_001 lines 147-155) counts the rows with     *)
(* flag = 0 and the id (getCircuitBreakerRulesCount, lines 397-411): it    *)
(* tells whether a live rule exists, not its revision.                     *)
CircuitBreakerFound(r) == IF r.exists /\ ~r.deleted THEN Present ELSE Gone

GetResult(r) == IF Store = "circuitbreaker" THEN CircuitBreakerFound(r) ELSE Found(r)

(* GetRoutingConfigV2WithID (lines 242-289), GetRateLimitWithID, and        *)
(* HasCircuitBreakerRule (part_001 lines 147-155): one SELECT by id on the *)
(* master, in a transaction that is rolled back for routing.  Begin or     *)
(* Query may fail after Retry's attempts, and the call returns the error.  *)
Get(w, id) ==
    /\ call[w].pc \in {"idle", "done"}
    /\ \/ /\ call' = [call EXCEPT ![w] = [NoCall EXCEPT !.op = "get", !.id = id,
                                                       !.pc = "done",
                                                       !.got = GetResult(table[id])]]
          /\ UNCHANGED errs
       \/ /\ errs < MaxErrors
          /\ call' = [call EXCEPT ![w] = [NoCall EXCEPT !.op = "get", !.id = id,
                                                       !.pc = "done", !.err = TRUE,
                                                       !.storeErr = TRUE]]
          /\ errs' = errs + 1
    /\ UNCHANGED <<now, table, mark, first, cache>>

(* A second passes on the writers' clock.                                  *)
Clock ==
    /\ now < MaxTime
    /\ now' = now + 1
    /\ UNCHANGED <<table, call, errs, mark, first, cache>>

Next ==
    \/ \E w \in Writers, op \in Ops, i \in Ids, v \in Revs : Invoke(w, op, i, v)
    \/ \E w \in Writers : Stamp(w) \/ Commit(w)
    \/ \E w \in Writers, i \in Ids : Get(w, i)
    \/ Pull
    \/ Clock

Spec == Init /\ [][Next]_vars

-----------------------------------------------------------------------------
(* Type invariant.                                                          *)
TypeOK ==
    /\ now \in Times
    /\ table \in [Ids -> Row]
    /\ call \in [Writers -> Call]
    /\ errs \in 0..MaxErrors
    /\ mark \in Times
    /\ first \in BOOLEAN
    /\ cache \in [Ids -> Revs \cup {Gone}]

(* A create handler that returned an error created nothing: its caller may *)
(* retry or report failure.  RetryTransaction re-runs the whole handler    *)
(* after a commit whose reply was lost (base_db.go 173-182, line 33).      *)
CreateErrorMeansNotCreated ==
    \A w \in Writers :
        call[w].op = "create" /\ call[w].pc = "done" /\ call[w].err
        => ~call[w].applied

(* Incremental pull by mtime (line 218): every row whose mtime is not      *)
(* above the reader's mark has reached the reader as it now stands.        *)
(* mtime is the writer's clock when the statement was built, not the       *)
(* commit time (lines 98, 155, 186, 210).                              *)
CacheAgreesBelowMark ==
    \A i \in Ids :
        table[i].exists /\ table[i].mtime <= mark => cache[i] = View(table[i])

=============================================================================
