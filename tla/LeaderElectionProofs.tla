------------------------ MODULE LeaderElectionProofs ------------------------
(***************************************************************************)
(* Machine-checked proofs about the leader election model LeaderElection,  *)
(* for every value of the constants allowed by ConstantsAssumption.        *)
(*                                                                         *)
(* The SMT backend does not see through the unexpanded sets Versions,      *)
(* Ages and ReleaseTickLimit inside SMRec and Record, so membership of an  *)
(* updated record is proved by Zenon once the arithmetic facts about its   *)
(* fields are established in steps of their own.                           *)
(***************************************************************************)
EXTENDS LeaderElection, TLAPS

USE ConstantsAssumption

(* ReleaseTickLimit (setReleaseTickLimit) is a natural number. *)
LEMMA RTL == ReleaseTickLimit \in Nat
  BY DEF ReleaseTickLimit
(* The cooldown value set on StepDown lies in the counter's range. *)
LEMMA RTLIn == ReleaseTickLimit \in 0..ReleaseTickLimit
  BY RTL
(* The initial state is well typed. *)
LEMMA InitType == Init => TypeOK
  BY RTL DEF Init, TypeOK, Record, SMRec, NoSM, Status, PCs, Host, Versions,
             Ages, Event, NoEvent, Inst

(* Overwriting one subscriber view with an event keeps event typed. *)
LEMMA EventUpdate ==
  ASSUME NEW ev \in [Peers -> [Keys -> Event \cup {NoEvent}]],
         NEW p \in Peers, NEW k \in Keys, NEW e \in Event
  PROVE  [ev EXCEPT ![p][k] = e] \in [Peers -> [Keys -> Event \cup {NoEvent}]]
  OBVIOUS
(* publishLeaderChangeEvent keeps event and published typed. *)
LEMMA PublishType ==
  ASSUME TypeOK, NEW i \in Inst, NEW s \in SMRec, Publish(i, s)
  PROVE  /\ event' \in [Peers -> [Keys -> Event \cup {NoEvent}]]
         /\ published' \subseteq Peers \X Keys
  <1>1. [isLeader |-> s.flag, host |-> s.leader] \in Event
    BY DEF SMRec, Event, Host
  <1>2. QED
    BY <1>1, EventUpdate DEF TypeOK, Publish, Inst, Owner, KeyOf
(* changeToFollower keeps a state machine record typed. *)
LEMMA FollowerType ==
  ASSUME NEW s \in SMRec, NEW l \in Host PROVE ToFollower(s, l) \in SMRec
  BY DEF ToFollower, SMRec
(* changeToLeader with a peer as host keeps the record typed. *)
LEMMA LeaderType ==
  ASSUME NEW s \in SMRec, NEW p \in Peers PROVE ToLeader(s, p) \in SMRec
  BY DEF ToLeader, SMRec, Host
(* mainLoop start keeps TypeOK. *)
LEMMA BootType == ASSUME TypeOK, NEW i \in Inst, Boot(i) PROVE TypeOK'
  <1> DEFINE s == [ToFollower(sm[i], None) EXCEPT !.st = "run"]
  <1>1. ToFollower(sm[i], None) \in SMRec
    BY FollowerType DEF TypeOK, Host
  <1>3. s \in SMRec
    BY <1>1 DEF SMRec, Status
  <1>2. QED
    BY <1>3, PublishType DEF Boot, TypeOK
(* mainLoop exit on ctx.Done keeps TypeOK. *)
LEMMA ExitType == ASSUME TypeOK, NEW i \in Inst, Exit(i) PROVE TypeOK'
  <1> DEFINE s == [ToFollower(sm[i], None) EXCEPT !.st = "gone"]
  <1>1. ToFollower(sm[i], None) \in SMRec
    BY FollowerType DEF TypeOK, Host
  <1>3. s \in SMRec
    BY <1>1 DEF SMRec, Status
  <1>2. QED
    BY <1>3, PublishType DEF Exit, TypeOK
(* checkReleaseTickLimit countdown keeps TypeOK. *)
LEMMA CooldownType == ASSUME TypeOK, NEW i \in Inst, Cooldown(i) PROVE TypeOK'
  <1>1. [sm[i] EXCEPT !.ready = FALSE, !.limit = @ - 1] \in SMRec
    BY RTL DEF Cooldown, TypeOK, SMRec
  <1>2. QED
    BY <1>1 DEF Cooldown, Silent, TypeOK
(* The release step-down keeps TypeOK. *)
LEMMA StepDownType == ASSUME TypeOK, NEW i \in Inst, StepDown(i) PROVE TypeOK'
  <1> DEFINE s == [ToFollower(sm[i], None) EXCEPT !.ready = FALSE,
                     !.signal = FALSE, !.limit = ReleaseTickLimit,
                     !.released = TRUE]
  <1>1. ToFollower(sm[i], None) \in SMRec
    BY FollowerType DEF TypeOK, Host
  <1>3. s \in SMRec
    BY <1>1, RTLIn DEF SMRec
  <1>2. QED
    BY <1>3, PublishType DEF StepDown, TypeOK
(* A follower tick keeps TypeOK. *)
LEMMA FollowerTickType == ASSUME TypeOK, NEW i \in Inst, FollowerTick(i) PROVE TypeOK'
  BY DEF FollowerTick, TickReady, Silent, TypeOK, SMRec, PCs
(* A refreshed mtime has age 0. *)
LEMMA ZeroAge == 0 \in Ages
  BY DEF Ages
(* A version below MaxVersion has a successor version. *)
LEMMA VersionSucc ==
  ASSUME NEW v \in Versions, v < MaxVersion PROVE v + 1 \in Versions
  BY DEF Versions
(* A CAS outcome keeps the error count within MaxErrors. *)
LEMMA CasErrsType ==
  ASSUME TypeOK, NEW k \in Keys, NEW cur, NEW o \in CasOutcomes(k, cur)
  PROVE  (IF CasFailed(o) THEN errs + 1 ELSE errs) \in 0..MaxErrors
  BY DEF CasOutcomes, CasFailed, TypeOK
(* A successful CompareAndSwapVersion keeps the table typed. *)
LEMMA CasStoreType ==
  ASSUME TypeOK, NEW k \in Keys, NEW v \in Versions, NEW p \in Peers
  PROVE  CompareAndSwapVersion(k, v, p) \in [Keys -> Record]
  <1> DEFINE r == [store[k] EXCEPT !.leader = p, !.version = v, !.age = 0]
  <1>1. store[k] \in Record
    BY DEF TypeOK
  <1>2. r \in Record
    BY <1>1, ZeroAge DEF Record, Host
  <1>3. CompareAndSwapVersion(k, v, p) = [store EXCEPT ![k] = r]
    BY DEF CompareAndSwapVersion
  <1>4. QED
    BY <1>2, <1>3 DEF TypeOK
(* heartbeat keeps TypeOK. *)
LEMMA HeartbeatType == ASSUME TypeOK, NEW i \in Inst, Heartbeat(i) PROVE TypeOK'
  <1> DEFINE k == KeyOf(i)  cur == sm[i].version
  <1>1. k \in Keys /\ Owner(i) \in Peers /\ sm[i] \in SMRec
    BY DEF Inst, KeyOf, Owner, TypeOK
  <1>2. cur + 1 \in Versions
    BY <1>1, Heartbeat(i) DEF Heartbeat, SMRec, Versions
  <1>3. PICK o \in CasOutcomes(k, cur) :
             /\ store' = IF CasApplied(o)
                         THEN CompareAndSwapVersion(k, cur + 1, Owner(i))
                         ELSE store
             /\ errs' = IF CasFailed(o) THEN errs + 1 ELSE errs
             /\ sm' = [sm EXCEPT ![i].ready = FALSE, ![i].version = cur + 1,
                                 ![i].pc = IF o = "ok" THEN "idle" ELSE "check"]
    BY DEF Heartbeat
  <1>4. store' \in [Keys -> Record]
    BY <1>1, <1>2, <1>3, CasStoreType DEF TypeOK
  <1>5. errs' \in 0..MaxErrors
    BY <1>1, <1>2, <1>3, CasErrsType
  <1>6. [sm[i] EXCEPT !.ready = FALSE, !.version = cur + 1,
            !.pc = IF o = "ok" THEN "idle" ELSE "check"] \in SMRec
    BY <1>1, <1>2 DEF SMRec, PCs
  <1>7. sm' \in [Inst -> SMRec]
    BY <1>3, <1>6 DEF TypeOK
  <1>8. QED
    BY <1>4, <1>5, <1>7 DEF Heartbeat, Silent, TypeOK
(* checkLeaderDead keeps TypeOK. *)
LEMMA CheckLeaderDeadType ==
  ASSUME TypeOK, NEW i \in Inst, CheckLeaderDead(i) PROVE TypeOK'
  <1> DEFINE k == KeyOf(i)
             p == Owner(i)
             l == store[k].leader
             s0 == [sm[i] EXCEPT !.pc = "idle"]
             s1 == IF l = p THEN ToLeader(s0, p) ELSE s0
             s2 == IF s1.leader # l THEN ToFollower(s1, l) ELSE s1
  <1>1. k \in Keys /\ p \in Peers /\ sm[i] \in SMRec /\ l \in Host
    BY DEF Inst, KeyOf, Owner, TypeOK, Record
  <1>2. s0 \in SMRec
    BY <1>1 DEF SMRec, PCs
  <1>3. s1 \in SMRec
    BY <1>1, <1>2, LeaderType
  <1>4. s2 \in SMRec
    BY <1>1, <1>3, FollowerType
  <1>5. CASE errs < MaxErrors /\ errs' = errs + 1 /\ sm' = [sm EXCEPT ![i] = s0]
             /\ Silent /\ UNCHANGED event
    BY <1>2, <1>5 DEF CheckLeaderDead, Silent, TypeOK
  <1>6. CASE ~Expired(k) /\ sm' = [sm EXCEPT ![i] = s2] /\ UNCHANGED errs
             /\ (IF l = p \/ sm[i].leader # l THEN Publish(i, s2)
                 ELSE Silent /\ UNCHANGED event)
    BY <1>4, <1>6, PublishType DEF CheckLeaderDead, Silent, TypeOK
  <1>7. CASE Expired(k) /\ sm' = [sm EXCEPT ![i].pc = "getver"]
             /\ Silent /\ UNCHANGED <<event, errs>>
    BY <1>1, <1>7 DEF CheckLeaderDead, Silent, TypeOK, SMRec, PCs
  <1>8. QED
    BY <1>5, <1>6, <1>7 DEF CheckLeaderDead
(* GetVersion in elect keeps TypeOK. *)
LEMMA GetVersionType == ASSUME TypeOK, NEW i \in Inst, GetVersion(i) PROVE TypeOK'
  <1>1. KeyOf(i) \in Keys /\ sm[i] \in SMRec
    BY DEF Inst, KeyOf, TypeOK
  <1>2. store[KeyOf(i)].version \in Versions
    BY <1>1 DEF TypeOK, Record
  <1>3. CASE errs < MaxErrors /\ errs' = errs + 1
             /\ sm' = [sm EXCEPT ![i].pc = "idle"]
    <2>1. [sm[i] EXCEPT !.pc = "idle"] \in SMRec
      BY <1>1, Zenon DEF SMRec, PCs
    <2>2. QED
      BY <1>3, <2>1 DEF GetVersion, Silent, TypeOK
  <1>4. CASE store[KeyOf(i)].version < MaxVersion
             /\ sm' = [sm EXCEPT ![i].version = store[KeyOf(i)].version + 1,
                                 ![i].pc = "cas"]
             /\ UNCHANGED errs
    <2>0. store[KeyOf(i)].version + 1 \in Versions
      BY <1>2, <1>4, VersionSucc
    <2>1. [sm[i] EXCEPT !.version = store[KeyOf(i)].version + 1, !.pc = "cas"]
            \in SMRec
      BY <1>1, <2>0, Zenon DEF SMRec, PCs
    <2>2. QED
      BY <1>4, <2>1 DEF GetVersion, Silent, TypeOK
  <1>5. QED
    BY <1>3, <1>4 DEF GetVersion
(* The election CAS keeps TypeOK. *)
LEMMA ElectType == ASSUME TypeOK, NEW i \in Inst, Elect(i) PROVE TypeOK'
  <1> DEFINE k == KeyOf(i)  v == sm[i].version
  <1>1. k \in Keys /\ Owner(i) \in Peers /\ sm[i] \in SMRec
    BY DEF Inst, KeyOf, Owner, TypeOK
  <1>2. v \in Versions
    BY <1>1 DEF SMRec
  <1>3. PICK o \in CasOutcomes(k, v - 1) :
          LET s == [sm[i] EXCEPT !.pc = "idle",
                        !.released = @ /\ ~CasApplied(o)]
          IN
            /\ store' = IF CasApplied(o)
                        THEN CompareAndSwapVersion(k, v, Owner(i))
                        ELSE store
            /\ errs' = IF CasFailed(o) THEN errs + 1 ELSE errs
            /\ IF o = "ok"
               THEN /\ sm' = [sm EXCEPT ![i] = ToLeader(s, Owner(i))]
                    /\ Publish(i, ToLeader(s, Owner(i)))
               ELSE /\ sm' = [sm EXCEPT ![i] = s]
                    /\ Silent /\ UNCHANGED event
    BY DEF Elect
  <1> DEFINE s == [sm[i] EXCEPT !.pc = "idle",
                       !.released = @ /\ ~CasApplied(o)]
  <1>4. s \in SMRec
    BY <1>1, Zenon DEF SMRec, PCs
  <1>5. ToLeader(s, Owner(i)) \in SMRec
    BY <1>1, <1>4, LeaderType
  <1>6. store' \in [Keys -> Record]
    BY <1>1, <1>2, <1>3, CasStoreType DEF TypeOK
  <1>7. errs' \in 0..MaxErrors
    BY <1>1, <1>3, CasErrsType
  <1>8. CASE o = "ok"
    <2>1. sm' = [sm EXCEPT ![i] = ToLeader(s, Owner(i))]
          /\ Publish(i, ToLeader(s, Owner(i)))
      BY <1>3, <1>8
    <2>2. /\ event' \in [Peers -> [Keys -> Event \cup {NoEvent}]]
          /\ published' \subseteq Peers \X Keys
      BY <1>5, <2>1, PublishType
    <2>3. sm' \in [Inst -> SMRec]
      BY <1>5, <2>1 DEF TypeOK
    <2>4. QED
      BY <1>6, <1>7, <2>2, <2>3 DEF Elect, TypeOK
  <1>9. CASE o # "ok"
    BY <1>3, <1>4, <1>6, <1>7, <1>9 DEF Elect, Silent, TypeOK
  <1>10. QED
    BY <1>8, <1>9
(* Advancing the clock keeps TypeOK. *)
LEMMA ClockType == ASSUME TypeOK, Clock PROVE TypeOK'
  <1>1. ASSUME NEW k \in Keys
        PROVE  [store[k] EXCEPT !.age = IF @ + TickTime > LeaseTime
                                        THEN LeaseTime + 1
                                        ELSE @ + TickTime] \in Record
    <2>1. store[k] \in Record
      BY DEF TypeOK
    <2>2. (IF store[k].age + TickTime > LeaseTime THEN LeaseTime + 1
           ELSE store[k].age + TickTime) \in Ages
      BY <2>1 DEF Record, Ages
    <2>3. QED
      BY <2>1, <2>2, Zenon DEF Record
  <1>2. ASSUME NEW i \in Inst
        PROVE  (IF sm[i].st = "run" THEN [sm[i] EXCEPT !.ready = TRUE]
                                    ELSE sm[i]) \in SMRec
    <2>1. sm[i] \in SMRec
      BY DEF TypeOK
    <2>2. QED
      BY <2>1, Zenon DEF SMRec
  <1>3. QED
    BY <1>1, <1>2 DEF Clock, Silent, TypeOK
(* StartLeaderElection keeps TypeOK. *)
LEMMA StartType ==
  ASSUME TypeOK, NEW p \in Peers, NEW k \in Keys, StartLeaderElection(p, k)
  PROVE  TypeOK'
  <1> DEFINE g == starts[p][k] + 1
  <1>1. g \in 1..MaxStarts
    BY DEF StartLeaderElection, TypeOK
  <1>2. <<p, k, g>> \in Inst
    BY <1>1 DEF Inst, Gens
  <1>3. [NoSM EXCEPT !.st = "new"] \in SMRec
    <2>1. 0 \in 0..ReleaseTickLimit /\ 0 \in Versions
      BY RTL DEF Versions
    <2>2. QED
      BY <2>1, Zenon DEF NoSM, SMRec, Status, PCs, Host
  <1>4. CreatedRow \in Record
    BY ZeroAge DEF CreatedRow, Record, Host, Versions
  <1>5. PICK o \in CreateOutcomes(k) :
          /\ store' = IF o \in {"ok", "lostack"} /\ ~store[k].exists
                      THEN [store EXCEPT ![k] = CreatedRow] ELSE store
          /\ errs' = IF o \in {"err", "lostack"} THEN errs + 1 ELSE errs
          /\ startErr' = [startErr EXCEPT ![p][k] = (o # "ok")]
          /\ IF o = "ok"
             THEN /\ sm' = [sm EXCEPT ![<<p, k, g>>] =
                                       [NoSM EXCEPT !.st = "new"]]
                  /\ leMap' = [leMap EXCEPT ![p][k] = g]
                  /\ starts' = [starts EXCEPT ![p][k] = g]
             ELSE UNCHANGED <<sm, leMap, starts>>
    BY DEF StartLeaderElection
  <1>6. store' \in [Keys -> Record]
    BY <1>4, <1>5 DEF TypeOK
  <1>7. errs' \in 0..MaxErrors
    BY <1>5 DEF CreateOutcomes, TypeOK
  <1>8. startErr' \in [Peers -> [Keys -> BOOLEAN]]
    BY <1>5 DEF TypeOK
  <1>9. /\ sm' \in [Inst -> SMRec]
        /\ leMap' \in [Peers -> [Keys -> 0..MaxStarts]]
        /\ starts' \in [Peers -> [Keys -> 0..MaxStarts]]
    <2>1. CASE o = "ok"
      <3>1. sm' = [sm EXCEPT ![<<p, k, g>>] = [NoSM EXCEPT !.st = "new"]]
            /\ leMap' = [leMap EXCEPT ![p][k] = g]
            /\ starts' = [starts EXCEPT ![p][k] = g]
        BY <1>5, <2>1
      <3>2. g \in 0..MaxStarts
        BY <1>1
      <3>3. sm' \in [Inst -> SMRec]
        BY <1>2, <1>3, <3>1 DEF TypeOK
      <3>4. leMap' \in [Peers -> [Keys -> 0..MaxStarts]]
        BY <3>1, <3>2 DEF TypeOK
      <3>5. starts' \in [Peers -> [Keys -> 0..MaxStarts]]
        BY <3>1, <3>2 DEF TypeOK
      <3>6. QED
        BY <3>3, <3>4, <3>5
    <2>2. CASE o # "ok"
      BY <1>5, <2>2 DEF TypeOK
    <2>3. QED
      BY <2>1, <2>2
  <1>10. QED
    BY <1>6, <1>7, <1>8, <1>9 DEF StartLeaderElection, Silent, TypeOK

(* ReleaseLeaderElection keeps TypeOK. *)
LEMMA ReleaseType ==
  ASSUME TypeOK, NEW p \in Peers, NEW k \in Keys, ReleaseLeaderElection(p, k)
  PROVE  TypeOK'
  <1>1. leMap[p][k] \in 1..MaxStarts
    BY DEF ReleaseLeaderElection, TypeOK
  <1>2. <<p, k, leMap[p][k]>> \in Inst
    BY <1>1 DEF Inst, Gens
  <1>3. sm[<<p, k, leMap[p][k]>>] \in SMRec
    BY <1>2 DEF TypeOK
  <1>4. [sm[<<p, k, leMap[p][k]>>] EXCEPT !.signal = TRUE] \in SMRec
    BY <1>3, Zenon DEF SMRec
  <1>5. QED
    BY <1>2, <1>4 DEF ReleaseLeaderElection, Silent, TypeOK
(* StopLeaderElections keeps TypeOK. *)
LEMMA StopType ==
  ASSUME TypeOK, NEW p \in Peers, StopLeaderElections(p) PROVE TypeOK'
  <1>1. ASSUME NEW i \in Inst PROVE [sm[i] EXCEPT !.cancelled = TRUE] \in SMRec
    <2>1. sm[i] \in SMRec
      BY DEF TypeOK
    <2>2. QED
      BY <2>1, Zenon DEF SMRec
  <1>2. QED
    BY <1>1 DEF StopLeaderElections, Silent, TypeOK
(* A process crash keeps TypeOK. *)
LEMMA CrashType ==
  ASSUME TypeOK, NEW p \in Peers, Crash(p) PROVE TypeOK'
  <1>1. ASSUME NEW i \in Inst PROVE [sm[i] EXCEPT !.st = "gone"] \in SMRec
    <2>1. sm[i] \in SMRec
      BY DEF TypeOK
    <2>2. QED
      BY <2>1, Zenon DEF SMRec, Status
  <1>2. NoEvent \in Event \cup {NoEvent}
    OBVIOUS
  <1>3. QED
    BY <1>1, <1>2 DEF Crash, Silent, TypeOK

(* Every step of Next keeps TypeOK.                                         *)
LEMMA TypeStep == TypeOK /\ [Next]_vars => TypeOK'
  <1> SUFFICES ASSUME TypeOK, [Next]_vars PROVE TypeOK'
    OBVIOUS
  <1>1. ASSUME NEW i \in Inst, Machine(i) PROVE TypeOK'
    BY <1>1, BootType, ExitType, CooldownType, StepDownType, HeartbeatType,
       FollowerTickType, CheckLeaderDeadType, GetVersionType, ElectType
       DEF Machine
  <1>2. CASE Environment
    BY <1>2, StartType, ReleaseType, StopType, CrashType DEF Environment
  <1>3. CASE Clock
    BY <1>3, ClockType
  <1>4. CASE UNCHANGED vars
    BY <1>4 DEF vars, TypeOK
  <1>5. QED
    BY <1>1, <1>2, <1>3, <1>4 DEF Next

(* TypeCorrect: no step of any goroutine, of the adminStore API, of a      *)
(* crash or of the clock moves a variable out of its type (TypeOK).        *)
THEOREM TypeCorrect == Spec => []TypeOK
  BY InitType, TypeStep, PTL DEF Spec

-----------------------------------------------------------------------------
(* FlagMatchesKnownLeader is inductive together with TypeOK: every action  *)
(* either leaves a running machine's st, flag and leader alone, or sets    *)
(* them through changeToLeader(self) or changeToFollower(l) with l not the *)
(* own host (None is no peer; the dead check demotes only to another host).*)
(* The flag/leader agreement of FlagMatchesKnownLeader for one record.     *)
Consistent(s, p) == s.st = "run" => (s.flag <=> s.leader = p)

(* A step that changes one machine keeps the invariant if that machine's new record agrees. *)
LEMMA FlagFromPoints ==
  ASSUME NEW i \in Inst, sm' \in [Inst -> SMRec], FlagMatchesKnownLeader,
         \A j \in Inst \ {i} : sm'[j] = sm[j],
         Consistent(sm'[i], Owner(i))
  PROVE  FlagMatchesKnownLeader'
  BY Zenon DEF FlagMatchesKnownLeader, Running, Consistent

(* A machine's owner is a peer, hence not the empty leader None. *)
LEMMA OwnerNotNone == ASSUME NEW i \in Inst PROVE Owner(i) # None /\ Owner(i) \in Peers
  BY DEF Inst, Owner

(* mainLoop start (changeToFollower("")) keeps the agreement. *)
LEMMA BootFlag ==
  ASSUME TypeOK, FlagMatchesKnownLeader, NEW i \in Inst, Boot(i)
  PROVE  FlagMatchesKnownLeader'
  <1>1. sm' \in [Inst -> SMRec]
    BY BootType DEF TypeOK
  <1>2. sm'[i].flag = FALSE /\ sm'[i].leader = None
    BY DEF Boot, ToFollower, TypeOK
  <1>3. QED
    BY <1>1, <1>2, OwnerNotNone, FlagFromPoints DEF Boot, Consistent
(* A record whose st, flag and leader are unchanged still agrees. *)
LEMMA KeepFlag ==
  ASSUME NEW i \in Inst, FlagMatchesKnownLeader,
         sm'[i].st = sm[i].st, sm'[i].flag = sm[i].flag,
         sm'[i].leader = sm[i].leader
  PROVE  Consistent(sm'[i], Owner(i))
  BY Zenon DEF FlagMatchesKnownLeader, Running, Consistent

(* mainLoop exit keeps the agreement. *)
LEMMA ExitFlag ==
  ASSUME TypeOK, FlagMatchesKnownLeader, NEW i \in Inst, Exit(i)
  PROVE  FlagMatchesKnownLeader'
  <1>1. sm' \in [Inst -> SMRec]
    BY ExitType DEF TypeOK
  <1>2. sm'[i].st = "gone"
    BY DEF Exit, ToFollower, TypeOK
  <1>3. QED
    BY <1>1, <1>2, FlagFromPoints DEF Exit, Consistent

(* The cooldown tick keeps the agreement. *)
LEMMA CooldownFlag ==
  ASSUME TypeOK, FlagMatchesKnownLeader, NEW i \in Inst, Cooldown(i)
  PROVE  FlagMatchesKnownLeader'
  <1>1. sm' \in [Inst -> SMRec]
    BY CooldownType DEF TypeOK
  <1>2. sm'[i].st = sm[i].st /\ sm'[i].flag = sm[i].flag
        /\ sm'[i].leader = sm[i].leader
    BY DEF Cooldown, TypeOK
  <1>3. QED
    BY <1>1, <1>2, KeepFlag, FlagFromPoints DEF Cooldown

(* The release step-down keeps the agreement. *)
LEMMA StepDownFlag ==
  ASSUME TypeOK, FlagMatchesKnownLeader, NEW i \in Inst, StepDown(i)
  PROVE  FlagMatchesKnownLeader'
  <1>1. sm' \in [Inst -> SMRec]
    BY StepDownType DEF TypeOK
  <1>2. sm'[i].flag = FALSE /\ sm'[i].leader = None
    BY DEF StepDown, ToFollower, TypeOK
  <1>3. QED
    BY <1>1, <1>2, OwnerNotNone, FlagFromPoints DEF StepDown, Consistent

(* heartbeat does not touch flag or leader. *)
LEMMA HeartbeatFlag ==
  ASSUME TypeOK, FlagMatchesKnownLeader, NEW i \in Inst, Heartbeat(i)
  PROVE  FlagMatchesKnownLeader'
  <1>1. sm' \in [Inst -> SMRec]
    BY HeartbeatType DEF TypeOK
  <1>2. PICK o \in CasOutcomes(KeyOf(i), sm[i].version) :
          sm' = [sm EXCEPT ![i].ready = FALSE,
                           ![i].version = sm[i].version + 1,
                           ![i].pc = IF o = "ok" THEN "idle" ELSE "check"]
    BY DEF Heartbeat
  <1>4. /\ sm'[i].st = sm[i].st /\ sm'[i].flag = sm[i].flag
        /\ sm'[i].leader = sm[i].leader
        /\ \A j \in Inst \ {i} : sm'[j] = sm[j]
    BY <1>2 DEF TypeOK
  <1>3. QED
    BY <1>1, <1>4, KeepFlag, FlagFromPoints

(* A follower tick keeps the agreement. *)
LEMMA FollowerTickFlag ==
  ASSUME TypeOK, FlagMatchesKnownLeader, NEW i \in Inst, FollowerTick(i)
  PROVE  FlagMatchesKnownLeader'
  <1>1. sm' \in [Inst -> SMRec]
    BY FollowerTickType DEF TypeOK
  <1>2. sm'[i].st = sm[i].st /\ sm'[i].flag = sm[i].flag
        /\ sm'[i].leader = sm[i].leader
    BY DEF FollowerTick, TypeOK
  <1>3. QED
    BY <1>1, <1>2, KeepFlag, FlagFromPoints DEF FollowerTick

(* GetVersion keeps the agreement. *)
LEMMA GetVersionFlag ==
  ASSUME TypeOK, FlagMatchesKnownLeader, NEW i \in Inst, GetVersion(i)
  PROVE  FlagMatchesKnownLeader'
  <1>1. sm' \in [Inst -> SMRec]
    BY GetVersionType DEF TypeOK
  <1>2. \/ sm' = [sm EXCEPT ![i].pc = "idle"]
        \/ sm' = [sm EXCEPT ![i].version = store[KeyOf(i)].version + 1,
                            ![i].pc = "cas"]
    BY DEF GetVersion
  <1>4. /\ sm'[i].st = sm[i].st /\ sm'[i].flag = sm[i].flag
        /\ sm'[i].leader = sm[i].leader
        /\ \A j \in Inst \ {i} : sm'[j] = sm[j]
    <2>1. sm[i] \in SMRec
      BY DEF TypeOK
    <2>2. CASE sm' = [sm EXCEPT ![i].pc = "idle"]
      BY <2>1, <2>2 DEF TypeOK
    <2>3. CASE sm' = [sm EXCEPT ![i].version = store[KeyOf(i)].version + 1,
                                ![i].pc = "cas"]
      BY <2>1, <2>3 DEF TypeOK
    <2>4. QED
      BY <1>2, <2>2, <2>3
  <1>3. QED
    BY <1>1, <1>4, KeepFlag, FlagFromPoints
(* checkLeaderDead keeps the agreement. *)
LEMMA CheckLeaderDeadFlag ==
  ASSUME TypeOK, FlagMatchesKnownLeader, NEW i \in Inst, CheckLeaderDead(i)
  PROVE  FlagMatchesKnownLeader'
  <1> DEFINE k == KeyOf(i)
             p == Owner(i)
             l == store[k].leader
             s0 == [sm[i] EXCEPT !.pc = "idle"]
             s1 == IF l = p THEN ToLeader(s0, p) ELSE s0
             s2 == IF s1.leader # l THEN ToFollower(s1, l) ELSE s1
  <1>1. sm' \in [Inst -> SMRec]
    BY CheckLeaderDeadType DEF TypeOK
  <1>2. sm[i] \in SMRec /\ p \in Peers
    BY DEF TypeOK, Inst, Owner
  <1>3. Consistent(s0, p)
    BY <1>2, Zenon DEF FlagMatchesKnownLeader, Running, Consistent, SMRec
  <1>4. Consistent(s2, p)
    <2>1. CASE l = p
      BY <1>2, <2>1 DEF Consistent, ToLeader, SMRec
    <2>2. CASE l # p /\ s0.leader # l
      BY <1>2, <2>2 DEF Consistent, ToFollower, SMRec
    <2>3. CASE l # p /\ s0.leader = l
      BY <1>3, <2>3
    <2>4. QED
      BY <2>1, <2>2, <2>3
  <1>5. CASE sm' = [sm EXCEPT ![i] = s0]
    BY <1>1, <1>2, <1>3, <1>5, FlagFromPoints
  <1>6. CASE sm' = [sm EXCEPT ![i] = s2]
    BY <1>1, <1>2, <1>4, <1>6, FlagFromPoints
  <1>7. CASE sm' = [sm EXCEPT ![i].pc = "getver"]
    <2>1. sm'[i].st = sm[i].st /\ sm'[i].flag = sm[i].flag
          /\ sm'[i].leader = sm[i].leader
      BY <1>2, <1>7
    <2>2. QED
      BY <1>1, <1>7, <2>1, KeepFlag, FlagFromPoints
  <1>8. QED
    BY <1>5, <1>6, <1>7 DEF CheckLeaderDead

(* The election CAS keeps the agreement. *)
LEMMA ElectFlag ==
  ASSUME TypeOK, FlagMatchesKnownLeader, NEW i \in Inst, Elect(i)
  PROVE  FlagMatchesKnownLeader'
  <1>1. sm' \in [Inst -> SMRec]
    BY ElectType DEF TypeOK
  <1>2. sm[i] \in SMRec /\ Owner(i) \in Peers
    BY DEF TypeOK, Inst, Owner
  <1>3. PICK o \in CasOutcomes(KeyOf(i), sm[i].version - 1) :
          LET s == [sm[i] EXCEPT !.pc = "idle",
                        !.released = @ /\ ~CasApplied(o)]
          IN  \/ sm' = [sm EXCEPT ![i] = ToLeader(s, Owner(i))]
              \/ sm' = [sm EXCEPT ![i] = s]
    BY DEF Elect
  <1> DEFINE s == [sm[i] EXCEPT !.pc = "idle",
                       !.released = @ /\ ~CasApplied(o)]
  <1>4. Consistent(ToLeader(s, Owner(i)), Owner(i))
    BY <1>2 DEF Consistent, ToLeader, SMRec
  <1>5. Consistent(s, Owner(i))
    BY <1>2, Zenon DEF FlagMatchesKnownLeader, Running, Consistent, SMRec
  <1>6. QED
    BY <1>1, <1>2, <1>3, <1>4, <1>5, FlagFromPoints
(* Advancing the clock keeps the agreement. *)
LEMMA ClockFlag ==
  ASSUME TypeOK, FlagMatchesKnownLeader, Clock
  PROVE  FlagMatchesKnownLeader'
  <1>1. ASSUME NEW i \in Inst
        PROVE  sm'[i].st = sm[i].st /\ sm'[i].flag = sm[i].flag
               /\ sm'[i].leader = sm[i].leader
    BY DEF Clock, TypeOK, SMRec
  <1>2. QED
    BY <1>1, Zenon DEF FlagMatchesKnownLeader, Running

(* The adminStore operations and crashes keep the agreement. *)
LEMMA EnvironmentFlag ==
  ASSUME TypeOK, FlagMatchesKnownLeader, Environment
  PROVE  FlagMatchesKnownLeader'
  <1>1. ASSUME NEW p \in Peers, NEW k \in Keys, StartLeaderElection(p, k)
        PROVE  FlagMatchesKnownLeader'
    <2> DEFINE g == starts[p][k] + 1
    <2>0. sm' = sm \/ sm' = [sm EXCEPT ![<<p, k, g>>] = [NoSM EXCEPT !.st = "new"]]
      BY <1>1 DEF StartLeaderElection
    <2>1. ASSUME NEW i \in Inst
          PROVE  sm'[i].st = "run" => sm'[i] = sm[i]
      <3>1. CASE sm' = sm
        BY <3>1
      <3>2. CASE sm' = [sm EXCEPT ![<<p, k, g>>] = [NoSM EXCEPT !.st = "new"]]
        BY <3>2 DEF NoSM, TypeOK
      <3>3. QED
        BY <2>0, <3>1, <3>2
    <2>2. QED
      BY <2>1, Zenon DEF FlagMatchesKnownLeader, Running
  <1>2. ASSUME NEW p \in Peers, NEW k \in Keys, ReleaseLeaderElection(p, k)
        PROVE  FlagMatchesKnownLeader'
    <2>1. ASSUME NEW i \in Inst
          PROVE  sm'[i].st = sm[i].st /\ sm'[i].flag = sm[i].flag
                 /\ sm'[i].leader = sm[i].leader
      <3> DEFINE t == <<p, k, leMap[p][k]>>
      <3>1. sm' = [sm EXCEPT ![t].signal = TRUE]
        BY <1>2 DEF ReleaseLeaderElection
      <3>2. CASE i = t
        <4>1. sm[i] \in SMRec
          BY DEF TypeOK
        <4>2. QED
          BY <3>1, <3>2, <4>1 DEF TypeOK, SMRec
      <3>3. CASE i # t
        BY <3>1, <3>3 DEF TypeOK
      <3>4. QED
        BY <3>2, <3>3
    <2>2. QED
      BY <2>1, Zenon DEF FlagMatchesKnownLeader, Running
  <1>3. ASSUME NEW p \in Peers, StopLeaderElections(p)
        PROVE  FlagMatchesKnownLeader'
    <2>1. ASSUME NEW i \in Inst
          PROVE  sm'[i].st = sm[i].st /\ sm'[i].flag = sm[i].flag
                 /\ sm'[i].leader = sm[i].leader
      BY <1>3 DEF StopLeaderElections, TypeOK, SMRec
    <2>2. QED
      BY <2>1, Zenon DEF FlagMatchesKnownLeader, Running
  <1>4. ASSUME NEW p \in Peers, Crash(p)
        PROVE  FlagMatchesKnownLeader'
    <2>1. ASSUME NEW i \in Inst
          PROVE  sm'[i].st = "run" => sm'[i] = sm[i]
      BY <1>4 DEF Crash, TypeOK, SMRec
    <2>2. QED
      BY <2>1, Zenon DEF FlagMatchesKnownLeader, Running
  <1>5. QED
    BY <1>1, <1>2, <1>3, <1>4 DEF Environment

(* FlagMatchesKnownLeaderHolds: in every reachable state, a running state  *)
(* machine's isLeader flag is set exactly when its known leader is its own *)
(* host, whatever the store, the clock and the other processes do.         *)
THEOREM FlagMatchesKnownLeaderHolds == Spec => []FlagMatchesKnownLeader
  <1>1. Init => TypeOK /\ FlagMatchesKnownLeader
    BY InitType, OwnerNotNone DEF Init, FlagMatchesKnownLeader, Running, NoSM
  <1>2. TypeOK /\ FlagMatchesKnownLeader /\ [Next]_vars
        => TypeOK' /\ FlagMatchesKnownLeader'
    <2> SUFFICES ASSUME TypeOK, FlagMatchesKnownLeader, [Next]_vars
                 PROVE  TypeOK' /\ FlagMatchesKnownLeader'
      OBVIOUS
    <2>1. TypeOK'
      BY TypeStep
    <2>2. FlagMatchesKnownLeader'
      <3>1. ASSUME NEW i \in Inst, Machine(i) PROVE FlagMatchesKnownLeader'
        BY <3>1, BootFlag, ExitFlag, CooldownFlag, StepDownFlag, HeartbeatFlag,
           FollowerTickFlag, CheckLeaderDeadFlag, GetVersionFlag, ElectFlag
           DEF Machine
      <3>2. CASE Environment
        BY <3>2, EnvironmentFlag
      <3>3. CASE Clock
        BY <3>3, ClockFlag
      <3>4. CASE UNCHANGED vars
        BY <3>4 DEF vars, FlagMatchesKnownLeader, Running
      <3>5. QED
        BY <3>1, <3>2, <3>3, <3>4 DEF Next
    <2>3. QED
      BY <2>1, <2>2
  <1>3. QED
    BY <1>1, <1>2, PTL DEF Spec
=============================================================================
