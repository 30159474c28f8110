--------------------------- MODULE LeaderElection ---------------------------
(***************************************************************************)
(* Lease-based leader election of the PostgreSQL store                      *)
(* (src/store/postgresql/config_file_template.go, lines 148-588).           *)
(*                                                                         *)
(* Several server processes (Peers, each identified by utils.LocalHost)    *)
(* share one leader_election table.  In each process an adminStore keeps   *)
(* a map key -> leaderElectionStateMachine; every state machine runs       *)
(* mainLoop in its own goroutine and, on every ticker tick, executes tick: *)
(* a sequence of separate store calls (heartbeat CAS, CheckMtimeExpired,   *)
(* GetVersion, election CAS).  Each store call is one atomic step here;    *)
(* the local work between two calls is folded into the call that follows   *)
(* it, since no other actor reads that state in between.                   *)
(*                                                                         *)
(* Time: the wall clock advances by TickTime seconds per step of Clock.    *)
(* Store calls carry no deadline, so any number of clock steps may happen  *)
(* while a tick is in flight; the ticker channel buffers one tick (ready). *)
(* The record's mtime is kept as its age in seconds, saturated at          *)
(* LeaseTime + 1, which is all CheckMtimeExpired distinguishes.            *)
(***************************************************************************)
EXTENDS Naturals, FiniteSets

CONSTANTS
    Peers,        \* server processes; each one's utils.LocalHost
    Keys,         \* election keys
    None,         \* the empty leader string ""
    LeaseTime,    \* LeaseTime (seconds)
    TickTime,     \* TickTime (seconds): ticker period
    MaxVersion,   \* bound on version numbers (int64 in the code)
    MaxErrors,    \* bound on failed store calls in one behaviour
    MaxStarts,    \* bound on state machines started per process and key
    DuplicateCreateFails \* TRUE: INSERT of an existing key fails the tx

ASSUME ConstantsAssumption ==
    /\ None \notin Peers
    /\ LeaseTime \in Nat \ {0}
    /\ TickTime \in Nat \ {0}
    /\ MaxVersion \in Nat \ {0}
    /\ MaxErrors \in Nat
    /\ MaxStarts \in Nat \ {0}
    /\ DuplicateCreateFails \in BOOLEAN

(* setReleaseTickLimit: LeaseTime / TickTime * 3 ticks of cooldown.         *)
ReleaseTickLimit == (LeaseTime \div TickTime) * 3

Host     == Peers \cup {None}
Versions == 0..MaxVersion
Ages     == 0..(LeaseTime + 1)
Gens     == 1..MaxStarts
Inst     == Peers \X Keys \X Gens     \* one leaderElectionStateMachine
Owner(i) == i[1]
KeyOf(i) == i[2]

(* Lifecycle of a state machine: "none" not created, "new" created and its *)
(* goroutine not yet scheduled, "run" in mainLoop, "gone" returned or its  *)
(* process died.  pc is where tick stands between two store calls.         *)
(* released is a history field, not in the code: the machine stepped down  *)
(* on a release signal and has not written the row by an election since.  *)
Status == {"none", "new", "run", "gone"}
PCs    == {"idle", "check", "getver", "cas"}

SMRec == [st: Status, cancelled: BOOLEAN, ready: BOOLEAN, pc: PCs,
          flag: BOOLEAN, leader: Host, version: Versions,
          signal: BOOLEAN, limit: 0..ReleaseTickLimit, released: BOOLEAN]

Record == [exists: BOOLEAN, leader: Host, version: Versions, age: Ages]

Event   == [isLeader: BOOLEAN, host: Host]   \* store.LeaderChangeEvent
NoEvent == [isLeader |-> FALSE, host |-> "none"]

VARIABLES
    store,      \* leader_election table: one row per key
    sm,         \* state of every leaderElectionStateMachine
    leMap,      \* adminStore.leMap: key -> generation of its machine, 0 = absent
    starts,     \* machines created so far per process and key
    event,      \* last LeaderChangeEvent seen by each process's subscribers
    published,  \* the <<process, key>> that published in the last step
    startErr,   \* StartLeaderElection returned an error (last call)
    errs        \* store calls that failed so far

vars == <<store, sm, leMap, starts, event, published, startErr, errs>>

NoSM == [st |-> "none", cancelled |-> FALSE, ready |-> FALSE, pc |-> "idle",
         flag |-> FALSE, leader |-> None, version |-> 0,
         signal |-> FALSE, limit |-> 0, released |-> FALSE]

-----------------------------------------------------------------------------
(* Store side: CompareAndSwapVersion, lines 226-259.  The UPDATE applies     *)
(* when the stored version equals curVersion.  A failed prepare, exec or    *)
(* commit returns an error; a commit whose acknowledgement is lost applies  *)
(* and still returns an error.  Outcomes: "ok" applied, "miss" not applied  *)
(* without error, "err" not applied with error, "lostack" applied with      *)
(* error.                                                                   *)
CasOutcomes(k, cur) ==
    IF store[k].version = cur
    THEN {"ok"} \cup (IF errs < MaxErrors THEN {"err", "lostack"} ELSE {})
    ELSE {"miss"} \cup (IF errs < MaxErrors THEN {"err"} ELSE {})

CasApplied(o) == o \in {"ok", "lostack"}
CasFailed(o)  == o \in {"err", "lostack"}

(* A successful UPDATE of the row: leader and version set, mtime refreshed. *)
CompareAndSwapVersion(k, newVersion, leader) ==
    [store EXCEPT ![k].leader = leader, ![k].version = newVersion,
                  ![k].age = 0]

(* CheckMtimeExpired, lines 262-280: int32(now - mtime) > leaseTime.         *)
Expired(k) == store[k].age > LeaseTime

(* checkLeaderValid, lines 331-334: now - mtime <= LeaseTime.               *)
LeaderValid(k) == store[k].age <= LeaseTime

(* ListLeaderElections, lines 282-330 (adminStore, lines 571-574): every    *)
(* row, with its leader host and Valid = checkLeaderValid(mtime).           *)
ListLeaderElections ==
    [k \in {k \in Keys : store[k].exists} |->
        [host |-> store[k].leader, valid |-> LeaderValid(k)]]

(* changeToLeader / changeToFollower, lines 452-465, applied to a record.   *)
(* Mutant: changeToLeader that forgets le.leader = utils.LocalHost.       *)
ToLeaderKeepsHost(s, p) == [s EXCEPT !.flag = TRUE]

ToLeader(s, p)     == [s EXCEPT !.flag = TRUE, !.leader = p]
ToFollower(s, l)   == [s EXCEPT !.flag = FALSE, !.leader = l]

(* publishLeaderChangeEvent, lines 468-474: subscribers of process p see    *)
(* the state machine's new flag and leader.                                 *)
Publish(i, s) ==
    /\ event' = [event EXCEPT ![Owner(i)][KeyOf(i)] =
                     [isLeader |-> s.flag, host |-> s.leader]]
    /\ published' = {<<Owner(i), KeyOf(i)>>}

Silent == published' = {}

-----------------------------------------------------------------------------
Init ==
    /\ store = [k \in Keys |-> [exists |-> FALSE, leader |-> None,
                                version |-> 0, age |-> 0]]
    /\ sm = [i \in Inst |-> NoSM]
    /\ leMap = [p \in Peers |-> [k \in Keys |-> 0]]
    /\ starts = [p \in Peers |-> [k \in Keys |-> 0]]
    /\ event = [p \in Peers |-> [k \in Keys |-> NoEvent]]
    /\ published = {}
    /\ startErr = [p \in Peers |-> [k \in Keys |-> FALSE]]
    /\ errs = 0

-----------------------------------------------------------------------------
(* mainLoop, lines 354-358: the goroutine starts, changeToFollower("").     *)
Boot(i) ==
    /\ sm[i].st = "new"
    /\ LET s == [ToFollower(sm[i], None) EXCEPT !.st = "run"]
       IN /\ sm' = [sm EXCEPT ![i] = s]
          /\ Publish(i, s)
    /\ UNCHANGED <<store, leMap, starts, startErr, errs>>

(* mainLoop, lines 367-370: select takes ctx.Done() and returns after      *)
(* changeToFollower("").  Go's select may equally take a ready tick first.  *)
Exit(i) ==
    /\ sm[i].st = "run" /\ sm[i].cancelled /\ sm[i].pc = "idle"
    /\ LET s == [ToFollower(sm[i], None) EXCEPT !.st = "gone"]
       IN /\ sm' = [sm EXCEPT ![i] = s]
          /\ Publish(i, s)
    /\ UNCHANGED <<store, leMap, starts, startErr, errs>>

(* A tick starts when select takes ticker.C (lines 365-366).                *)
TickReady(i) ==
    /\ sm[i].st = "run" /\ sm[i].pc = "idle" /\ sm[i].ready

(* Mutant: checkReleaseTickLimit without its releaseTickLimit > 0 test.   *)
CooldownUnguarded(i) ==
    /\ TickReady(i)
    /\ sm' = [sm EXCEPT ![i].ready = FALSE, ![i].limit = @ - 1]
    /\ Silent
    /\ UNCHANGED <<store, event, leMap, starts, startErr, errs>>

(* tick, lines 378-381: checkReleaseTickLimit counts down and skips.        *)
Cooldown(i) ==
    /\ TickReady(i)
    /\ sm[i].limit > 0
    /\ sm' = [sm EXCEPT ![i].ready = FALSE, ![i].limit = @ - 1]
    /\ Silent
    /\ UNCHANGED <<store, event, leMap, starts, startErr, errs>>

(* Mutant: the release branch without setReleaseTickLimit.               *)
StepDownNoCooldown(i) ==
    /\ TickReady(i)
    /\ sm[i].limit = 0 /\ sm[i].flag /\ sm[i].signal
    /\ LET s == [ToFollower(sm[i], None) EXCEPT !.ready = FALSE,
                     !.signal = FALSE, !.released = TRUE]
       IN /\ sm' = [sm EXCEPT ![i] = s]
          /\ Publish(i, s)
    /\ UNCHANGED <<store, leMap, starts, startErr, errs>>

(* tick, lines 383-391: a leader whose release signal is set steps down    *)
(* (changeToFollower("")) and arms the cooldown; the store is untouched.    *)
StepDown(i) ==
    /\ TickReady(i)
    /\ sm[i].limit = 0 /\ sm[i].flag /\ sm[i].signal
    /\ LET s == [ToFollower(sm[i], None) EXCEPT !.ready = FALSE,
                     !.signal = FALSE, !.limit = ReleaseTickLimit,
                     !.released = TRUE]
       IN /\ sm' = [sm EXCEPT ![i] = s]
          /\ Publish(i, s)
    /\ UNCHANGED <<store, leMap, starts, startErr, errs>>

(* tick, lines 393-403, with heartbeat, lines 492-496: the leader sets     *)
(* version to version+1 and then tries CAS(version, version+1, self).      *)
(* Success ends the tick; anything else falls through to the dead check.   *)
Heartbeat(i) ==
    /\ TickReady(i)
    /\ sm[i].limit = 0 /\ sm[i].flag /\ ~sm[i].signal
    /\ sm[i].version < MaxVersion
    /\ LET k == KeyOf(i)
           cur == sm[i].version
       IN \E o \in CasOutcomes(k, cur) :
            /\ store' = IF CasApplied(o)
                        THEN CompareAndSwapVersion(k, cur + 1, Owner(i))
                        ELSE store
            /\ errs' = IF CasFailed(o) THEN errs + 1 ELSE errs
            /\ sm' = [sm EXCEPT ![i].ready = FALSE, ![i].version = cur + 1,
                                ![i].pc = IF o = "ok" THEN "idle" ELSE "check"]
    /\ Silent
    /\ UNCHANGED <<event, leMap, starts, startErr>>

(* tick, lines 383-385 for a follower: the release signal is consumed     *)
(* (and lost) and the tick goes on to the dead check.                      *)
FollowerTick(i) ==
    /\ TickReady(i)
    /\ sm[i].limit = 0 /\ ~sm[i].flag
    /\ sm' = [sm EXCEPT ![i].ready = FALSE, ![i].signal = FALSE,
                        ![i].pc = "check"]
    /\ Silent
    /\ UNCHANGED <<store, event, leMap, starts, startErr, errs>>

(* tick, lines 405-420: checkLeaderDead reads leader and mtime.  An error  *)
(* ends the tick.  An unexpired lease naming this host makes it leader;    *)
(* one naming someone else than the known leader makes it a follower of    *)
(* that host.  An expired lease goes on to elect.                          *)
CheckLeaderDead(i) ==
    /\ sm[i].st = "run" /\ sm[i].pc = "check"
    /\ LET k == KeyOf(i)
           p == Owner(i)
           l == store[k].leader
           s0 == [sm[i] EXCEPT !.pc = "idle"]
           s1 == IF l = p THEN ToLeader(s0, p) ELSE s0
           s2 == IF s1.leader # l THEN ToFollower(s1, l) ELSE s1
       IN \/ /\ errs < MaxErrors
             /\ errs' = errs + 1
             /\ sm' = [sm EXCEPT ![i] = s0]
             /\ Silent /\ UNCHANGED event
          \/ /\ ~Expired(k)
             /\ sm' = [sm EXCEPT ![i] = s2]
             /\ IF l = p \/ sm[i].leader # l
                THEN Publish(i, s2)
                ELSE Silent /\ UNCHANGED event
             /\ UNCHANGED errs
          \/ /\ Expired(k)
             /\ sm' = [sm EXCEPT ![i].pc = "getver"]
             /\ Silent /\ UNCHANGED <<event, errs>>
    /\ UNCHANGED <<store, leMap, starts, startErr>>

(* Mutant: elect that keeps version = curVersion, so its CAS expects      *)
(* curVersion - 1.                                                         *)
GetVersionOffByOne(i) ==
    /\ sm[i].st = "run" /\ sm[i].pc = "getver"
    /\ \/ /\ errs < MaxErrors
          /\ errs' = errs + 1
          /\ sm' = [sm EXCEPT ![i].pc = "idle"]
       \/ /\ store[KeyOf(i)].version < MaxVersion
          /\ sm' = [sm EXCEPT ![i].version = store[KeyOf(i)].version,
                              ![i].pc = "cas"]
          /\ UNCHANGED errs
    /\ Silent
    /\ UNCHANGED <<store, event, leMap, starts, startErr>>

(* elect, lines 482-487: GetVersion; on success version = curVersion + 1  *)
(* before the CAS is tried.                                                *)
GetVersion(i) ==
    /\ sm[i].st = "run" /\ sm[i].pc = "getver"
    /\ \/ /\ errs < MaxErrors
          /\ errs' = errs + 1
          /\ sm' = [sm EXCEPT ![i].pc = "idle"]
       \/ /\ store[KeyOf(i)].version < MaxVersion
          /\ sm' = [sm EXCEPT ![i].version = store[KeyOf(i)].version + 1,
                              ![i].pc = "cas"]
          /\ UNCHANGED errs
    /\ Silent
    /\ UNCHANGED <<store, event, leMap, starts, startErr>>

(* elect, line 488, and tick, lines 422-429: CAS(version-1, version, self); *)
(* changeToLeader only when it applied without error.                       *)
Elect(i) ==
    /\ sm[i].st = "run" /\ sm[i].pc = "cas"
    /\ LET k == KeyOf(i)
           v == sm[i].version
       IN \E o \in CasOutcomes(k, v - 1) :
          LET s == [sm[i] EXCEPT !.pc = "idle",
                        !.released = @ /\ ~CasApplied(o)]
          IN
            /\ store' = IF CasApplied(o)
                        THEN CompareAndSwapVersion(k, v, Owner(i))
                        ELSE store
            /\ errs' = IF CasFailed(o) THEN errs + 1 ELSE errs
            /\ IF o = "ok"
               THEN /\ sm' = [sm EXCEPT ![i] = ToLeader(s, Owner(i))]
                    /\ Publish(i, ToLeader(s, Owner(i)))
               ELSE /\ sm' = [sm EXCEPT ![i] = s]
                    /\ Silent /\ UNCHANGED event
    /\ UNCHANGED <<leMap, starts, startErr>>

(* The wall clock advances one ticker period: every row's mtime ages and   *)
(* every running ticker fires (its one-slot channel keeps one tick).       *)
Clock ==
    /\ store' = [k \in Keys |->
                   [store[k] EXCEPT !.age =
                      IF @ + TickTime > LeaseTime THEN LeaseTime + 1
                                                  ELSE @ + TickTime]]
    /\ sm' = [i \in Inst |->
                IF sm[i].st = "run" THEN [sm[i] EXCEPT !.ready = TRUE]
                                    ELSE sm[i]]
    /\ Silent
    /\ UNCHANGED <<event, leMap, starts, startErr, errs>>

-----------------------------------------------------------------------------
(* adminStore operations, lines 514-588.  Each holds m.mutex throughout.   *)

(* CreateLeaderElection, lines 187-208, in processWithTransaction          *)
(* (base_db.go, lines 184-196): INSERT (key, "") then Commit.  The error of *)
(* an INSERT of an existing key is only logged; the Commit of the aborted  *)
(* transaction then fails when DuplicateCreateFails.  Outcomes: "ok" the   *)
(* row exists afterwards and no error; "dup" that failed Commit; "err"     *)
(* Begin, Prepare or Commit failed and nothing was written; "lostack" the  *)
(* new row was committed but the reply was lost.                           *)
CreateOutcomes(k) ==
    (IF store[k].exists /\ DuplicateCreateFails THEN {"dup"} ELSE {"ok"})
    \cup (IF errs < MaxErrors
          THEN {"err"} \cup (IF store[k].exists THEN {} ELSE {"lostack"})
          ELSE {})

CreatedRow == [exists |-> TRUE, leader |-> None, version |-> 0, age |-> 0]

(* StartLeaderElection, lines 514-544: no-op for a started key; otherwise   *)
(* create the row and, only if that returned no error, register a new      *)
(* state machine and start its goroutine.                                   *)
StartLeaderElection(p, k) ==
    /\ leMap[p][k] = 0
    /\ starts[p][k] < MaxStarts
    /\ \E o \in CreateOutcomes(k) :
         LET g == starts[p][k] + 1
         IN /\ store' = IF o \in {"ok", "lostack"} /\ ~store[k].exists
                        THEN [store EXCEPT ![k] = CreatedRow] ELSE store
            /\ errs' = IF o \in {"err", "lostack"} THEN errs + 1 ELSE errs
            /\ startErr' = [startErr EXCEPT ![p][k] = (o # "ok")]
            /\ IF o = "ok"
               THEN /\ sm' = [sm EXCEPT ![<<p, k, g>>] =
                                         [NoSM EXCEPT !.st = "new"]]
                    /\ leMap' = [leMap EXCEPT ![p][k] = g]
                    /\ starts' = [starts EXCEPT ![p][k] = g]
               ELSE UNCHANGED <<sm, leMap, starts>>
    /\ Silent
    /\ UNCHANGED event

(* StopLeaderElections, lines 547-555: cancel every machine of the process *)
(* and empty the map.  Cancellation is only observed by mainLoop's select. *)
StopLeaderElections(p) ==
    /\ \E k \in Keys : leMap[p][k] # 0
    /\ sm' = [i \in Inst |->
                IF Owner(i) = p /\ leMap[p][KeyOf(i)] = i[3]
                THEN [sm[i] EXCEPT !.cancelled = TRUE] ELSE sm[i]]
    /\ leMap' = [leMap EXCEPT ![p] = [k \in Keys |-> 0]]
    /\ Silent
    /\ UNCHANGED <<store, event, starts, startErr, errs>>

(* ReleaseLeaderElection, lines 576-588: setReleaseSignal on a started key. *)
ReleaseLeaderElection(p, k) ==
    /\ leMap[p][k] # 0
    /\ sm' = [sm EXCEPT ![<<p, k, leMap[p][k]>>].signal = TRUE]
    /\ Silent
    /\ UNCHANGED <<store, event, leMap, starts, startErr, errs>>

(* IsLeader, lines 558-568: the local flag of the started machine.          *)
IsLeader(p, k) == leMap[p][k] # 0 /\ sm[<<p, k, leMap[p][k]>>].flag

(* The process dies: its goroutines stop wherever they are, its map and    *)
(* its subscribers are gone; the table keeps its rows.  A restarted        *)
(* process is this one with nothing started.                               *)
Crash(p) ==
    /\ \E i \in Inst : Owner(i) = p /\ sm[i].st \in {"new", "run"}
    /\ sm' = [i \in Inst |->
                IF Owner(i) = p /\ sm[i].st \in {"new", "run"}
                THEN [sm[i] EXCEPT !.st = "gone"] ELSE sm[i]]
    /\ leMap' = [leMap EXCEPT ![p] = [k \in Keys |-> 0]]
    /\ event' = [event EXCEPT ![p] = [k \in Keys |-> NoEvent]]
    /\ Silent
    /\ UNCHANGED <<store, starts, startErr, errs>>

-----------------------------------------------------------------------------
Machine(i) ==
    \/ Boot(i) \/ Exit(i) \/ Cooldown(i) \/ StepDown(i) \/ Heartbeat(i)
    \/ FollowerTick(i) \/ CheckLeaderDead(i) \/ GetVersion(i) \/ Elect(i)

Environment ==
    \/ \E p \in Peers, k \in Keys :
          StartLeaderElection(p, k) \/ ReleaseLeaderElection(p, k)
    \/ \E p \in Peers : StopLeaderElections(p) \/ Crash(p)

Next == (\E i \in Inst : Machine(i)) \/ Environment \/ Clock

(* Every goroutine keeps running (Go schedules it); select picks ctx.Done() *)
(* at random among ready cases, so Exit, only intermittently enabled, is    *)
(* strongly fair; the wall clock never stops.                               *)
Fairness ==
    /\ \A i \in Inst :
          /\ WF_vars(Boot(i) \/ Cooldown(i) \/ StepDown(i) \/ Heartbeat(i)
                     \/ FollowerTick(i) \/ CheckLeaderDead(i)
                     \/ GetVersion(i) \/ Elect(i))
          /\ SF_vars(Exit(i))
    /\ WF_vars(Clock)

Spec     == Init /\ [][Next]_vars
FairSpec == Spec /\ Fairness

-----------------------------------------------------------------------------
(* Type invariant.                                                          *)
TypeOK ==
    /\ store \in [Keys -> Record]
    /\ sm \in [Inst -> SMRec]
    /\ leMap \in [Peers -> [Keys -> 0..MaxStarts]]
    /\ starts \in [Peers -> [Keys -> 0..MaxStarts]]
    /\ event \in [Peers -> [Keys -> Event \cup {NoEvent}]]
    /\ published \subseteq Peers \X Keys
    /\ startErr \in [Peers -> [Keys -> BOOLEAN]]
    /\ errs \in 0..MaxErrors

Running(i) == sm[i].st = "run"

(* A state machine believes it is leader exactly when its known leader is  *)
(* its own host (changeToLeader / changeToFollower, tick lines 410-419).    *)
FlagMatchesKnownLeader ==
    \A i \in Inst : Running(i) => (sm[i].flag <=> sm[i].leader = Owner(i))

(* Leadership moves to another host only once the holder's lease expired,  *)
(* that is, only while ListLeaderElections reports the row not Valid: the  *)
(* dead check (line 405) and the CAS of elect (lines 483-488) are separate *)
(* store calls, and heartbeat CASes with a local version.                  *)
StoreLeaderChangesOnlyOnExpiry ==
    [][\A k \in DOMAIN ListLeaderElections :
         store'[k].leader # ListLeaderElections[k].host
         => ~ListLeaderElections[k].valid]_store

(* Design spec section 4.2: a leadership event is published once per      *)
(* transition; a "became leader" event is never repeated while the         *)
(* subscribers already see this host as leader (tick lines 410-414).       *)
LeaderEventOnlyOnChange ==
    [][\A x \in published' : event'[x[1]][x[2]].isLeader
                                => ~event[x[1]][x[2]].isLeader]_vars

(* Design spec section 4.1: creating an existing election is not an error, *)
(* so StartLeaderElection fails only when the store fails (lines 187-208). *)
StartFailsOnlyOnStoreError ==
    \A p \in Peers, k \in Keys : startErr[p][k] => errs > 0

(* Design spec section 5: the cooldown armed on a voluntary release         *)
(* (setReleaseTickLimit, lines 447-449, counted down by                    *)
(* checkReleaseTickLimit, lines 438-444) outlasts the lease, so a host     *)
(* that released never takes leadership back by recognising its own       *)
(* still-fresh row in the dead check (lines 410-414): it becomes leader    *)
(* again only in a step that writes the row.                                *)
ReleaseIsHonoured ==
    [][\A i \in Inst :
         sm[i].released /\ ~sm[i].flag /\ sm'[i].flag
         => store'[KeyOf(i)] # store[KeyOf(i)]]_vars

(* An election of key k that is started and not stopped.                  *)
Candidate(i, k) == KeyOf(i) = k /\ Running(i) /\ ~sm[i].cancelled
HasCandidate(k) == \E i \in Inst : Candidate(i, k)

(* Some started election of k holds an unexpired lease and knows it.       *)
Led(k) ==
    \E i \in Inst : Candidate(i, k) /\ sm[i].flag
                   /\ store[k].leader = Owner(i) /\ ~Expired(k)

(* The version bound MaxVersion is not reached (by the table or by a       *)
(* state machine's local version).                                         *)
VersionRoom ==
    /\ \A k \in Keys : store[k].version < MaxVersion
    /\ \A i \in Inst : sm[i].version < MaxVersion

(* Design spec section 8: once the lease of key k has expired, some peer   *)
(* still running an election of k becomes leader (tick lines 405-429),     *)
(* unless every election of k is stopped first.  Checked on the behaviours *)
(* that stay within the version bound: one with no leader writes nothing.  *)
EventualLeader ==
    []VersionRoom =>
        \A k \in Keys : (HasCandidate(k) /\ Expired(k))
                            ~> (Led(k) \/ ~HasCandidate(k))

=============================================================================
