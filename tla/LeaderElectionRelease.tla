------------------------ MODULE LeaderElectionRelease ------------------------
(***************************************************************************)
(* Proof of ReleaseIsHonoured: a state machine that stepped down on a      *)
(* release signal becomes leader again only in a step that writes the row. *)
(*                                                                         *)
(* The dead check (tick, lines 405-414) makes a follower leader without a  *)
(* write when the row names its own host and is not expired.  After        *)
(* StepDown the machine counts down ReleaseTickLimit ticks (lines 378-381) *)
(* and each tick needs a clock step, so the row has aged by at least      *)
(* (ReleaseTickLimit + 1) * TickTime > LeaseTime seconds when the machine  *)
(* reaches the dead check again (RowAgedOut).  Nobody else writes its own *)
(* host into the row meanwhile: with one machine per process and key      *)
(* (MaxStarts = 1) the only writer of that host is the released machine,   *)
(* whose own CAS ends the release.  With MaxStarts = 2 the property fails: *)
(* after StopLeaderElections and StartLeaderElection of the same key the   *)
(* cancelled machine keeps heartbeating (lines 547-555), and the new one    *)
(* finds its host's fresh row.                                              *)
(***************************************************************************)
EXTENDS LeaderElectionProofs

USE ConstantsAssumption

(* A CAS that applied found the row at the version it expected.            *)
LEMMA CasAppliedVersion ==
  ASSUME NEW k \in Keys, NEW cur, NEW o \in CasOutcomes(k, cur), CasApplied(o)
  PROVE  store[k].version = cur
  BY DEF CasOutcomes, CasApplied

(* Ticks the machine still has to wait for before its next dead check:    *)
(* the cooldown left, plus one if no tick is buffered.                     *)
Cooling(i) == sm[i].limit + (IF sm[i].ready THEN 0 ELSE 1)

(* A released follower whose row names its own host: the dead check would *)
(* make it leader without a write if the row were fresh.                   *)
Exposed(i) ==
    /\ Running(i) /\ sm[i].released /\ ~sm[i].flag
    /\ store[KeyOf(i)].leader = Owner(i)

(* The inductive invariant, per machine: a machine not yet started has not *)
(* released; an exposed machine between ticks will find the row expired by *)
(* the time it reaches the dead check; one inside a tick already does.     *)
Aged(i) ==
    /\ sm[i].st \in {"none", "new"} => ~sm[i].released
    /\ Exposed(i) /\ sm[i].pc = "idle"
         => store[KeyOf(i)].age + Cooling(i) * TickTime > LeaseTime
    /\ Exposed(i) /\ sm[i].pc # "idle" => Expired(KeyOf(i))

RowAgedOut == \A i \in Inst : Aged(i)

(* The cooldown with the tick after it outlasts the lease:                 *)
(* (3 * (LeaseTime \div TickTime) + 1) * TickTime > LeaseTime.            *)
LEMMA CooldownOutlastsLease ==
  (ReleaseTickLimit + 1) * TickTime > LeaseTime
  <1> DEFINE q == LeaseTime \div TickTime
             r == LeaseTime % TickTime
  <1>1. q \in Nat /\ r \in 0..(TickTime - 1)
    BY SMT
  <1>2. LeaseTime = q * TickTime + r
    BY SMT
  <1>3. q * TickTime \in Nat
    BY <1>1, SMT
  <1>4. (q * 3 + 1) * TickTime = 3 * (q * TickTime) + TickTime
    BY <1>1, SMT
  <1>5. QED
    BY <1>1, <1>2, <1>3, <1>4, SMT DEF ReleaseTickLimit

(* The countdown and the tick flag give a natural number of ticks.         *)
LEMMA CoolingNat ==
  ASSUME TypeOK, NEW i \in Inst PROVE Cooling(i) \in Nat
  BY RTL DEF Cooling, TypeOK, SMRec

(* The initial state satisfies the invariant: nothing has released.        *)
LEMMA InitAged == Init => RowAgedOut
  BY DEF Init, RowAgedOut, Aged, Exposed, Running, NoSM

(* With one machine per process and key, two machines of a key belong to   *)
(* two processes.                                                          *)
LEMMA OneMachinePerKey ==
  ASSUME MaxStarts = 1, NEW i \in Inst, NEW j \in Inst, i # j,
         KeyOf(i) = KeyOf(j)
  PROVE  Owner(i) # Owner(j)
  BY DEF Inst, Gens, KeyOf, Owner

(* A step that leaves a machine and the row of its key alone keeps Aged.   *)
LEMMA AgedFrame ==
  ASSUME NEW j \in Inst, Aged(j), sm'[j] = sm[j],
         store'[KeyOf(j)] = store[KeyOf(j)]
  PROVE  Aged(j)'
  BY DEF Aged, Exposed, Running, Cooling, Expired

(* A step that writes another host into the row of a machine's key and    *)
(* leaves the machine alone keeps Aged.                                    *)
LEMMA AgedOtherWriter ==
  ASSUME NEW j \in Inst, Aged(j), sm'[j] = sm[j],
         store'[KeyOf(j)].leader # Owner(j)
  PROVE  Aged(j)'
  BY DEF Aged, Exposed, Running

(* A step inside a tick that keeps the row, and neither releases nor       *)
(* demotes the machine, keeps Aged: an exposed machine found the row       *)
(* expired already, and an expired row stays so until it is written.      *)
LEMMA KeepExpired ==
  ASSUME TypeOK, NEW i \in Inst, Aged(i), sm[i].st = "run", sm[i].pc # "idle",
         store'[KeyOf(i)] = store[KeyOf(i)],
         sm'[i].st = "run", sm'[i].released => sm[i].released,
         ~sm'[i].flag => ~sm[i].flag, sm'[i].limit \in Nat
  PROVE  Aged(i)'
  <1>1. CASE ~Exposed(i)'
    BY <1>1 DEF Aged
  <1>2. CASE Exposed(i)'
    <2>1. Exposed(i)
      BY <1>2 DEF Exposed, Running
    <2>2. store[KeyOf(i)].age > LeaseTime /\ store[KeyOf(i)].age \in Nat
      BY <2>1 DEF Aged, Expired, TypeOK, Record, Ages, Inst, KeyOf
    <2>3. Cooling(i)' \in Nat
      BY DEF Cooling
    <2>4. store'[KeyOf(i)].age + Cooling(i)' * TickTime > LeaseTime
      BY <2>2, <2>3, SMT
    <2>5. QED
      BY <2>2, <2>4 DEF Aged, Expired
  <1>3. QED
    BY <1>1, <1>2

(* mainLoop start: a machine that was just created has not released.       *)
LEMMA BootAged ==
  ASSUME TypeOK, NEW i \in Inst, Aged(i), Boot(i) PROVE Aged(i)'
  BY DEF Boot, Aged, Exposed, ToFollower, TypeOK

(* mainLoop exit: the machine is gone.                                     *)
LEMMA ExitAged ==
  ASSUME TypeOK, NEW i \in Inst, Aged(i), Exit(i) PROVE Aged(i)'
  BY DEF Exit, Aged, Exposed, Running, ToFollower, TypeOK

(* checkReleaseTickLimit: one cooldown tick consumed, one tick less to     *)
(* wait for.                                                               *)
LEMMA CooldownAged ==
  ASSUME TypeOK, NEW i \in Inst, Aged(i), Cooldown(i) PROVE Aged(i)'
  <1>1. sm'[i] = [sm[i] EXCEPT !.ready = FALSE, !.limit = @ - 1]
        /\ store' = store
    BY DEF Cooldown, TypeOK
  <1>2. sm[i].ready /\ sm[i].pc = "idle" /\ sm[i].st = "run"
    BY DEF Cooldown, TickReady
  <1>3. Cooling(i)' = Cooling(i)
    BY <1>1, <1>2, RTL DEF Cooling, TypeOK, SMRec
  <1>4. QED
    BY <1>1, <1>2, <1>3 DEF Aged, Exposed, Running

(* The release step-down: the cooldown now armed, with the tick after it,  *)
(* outlasts the lease, whatever the row's age.                             *)
LEMMA StepDownAged ==
  ASSUME TypeOK, NEW i \in Inst, Aged(i), StepDown(i) PROVE Aged(i)'
  <1> DEFINE s == [ToFollower(sm[i], None) EXCEPT !.ready = FALSE,
                     !.signal = FALSE, !.limit = ReleaseTickLimit,
                     !.released = TRUE]
  <1>1. sm'[i] = s /\ store' = store
    BY DEF StepDown, TypeOK
  <1>2. s.st = "run" /\ s.pc = "idle" /\ s.limit = ReleaseTickLimit /\ ~s.ready
    BY DEF StepDown, TickReady, ToFollower, TypeOK, SMRec
  <1>6. Cooling(i)' = ReleaseTickLimit + 1
    BY <1>1, <1>2 DEF Cooling
  <1>3. store[KeyOf(i)].age \in Nat
    BY DEF TypeOK, Record, Ages, Inst, KeyOf
  <1>4. store[KeyOf(i)].age + (ReleaseTickLimit + 1) * TickTime > LeaseTime
    BY <1>3, CooldownOutlastsLease, RTL
  <1>5. QED
    BY <1>1, <1>2, <1>4, <1>6 DEF Aged, Exposed, Running

(* heartbeat: only a leader sends it, and it stays leader for the step.   *)
LEMMA HeartbeatAged ==
  ASSUME TypeOK, NEW i \in Inst, Aged(i), Heartbeat(i) PROVE Aged(i)'
  <1>1. sm'[i].flag /\ sm'[i].st = "run"
    BY DEF Heartbeat, TickReady, TypeOK
  <1>2. QED
    BY <1>1 DEF Aged, Exposed

(* A follower tick goes to the dead check when no cooldown is left and a  *)
(* tick is ready: an exposed machine's row is then expired.                *)
LEMMA FollowerTickAged ==
  ASSUME TypeOK, NEW i \in Inst, Aged(i), FollowerTick(i) PROVE Aged(i)'
  <1>1. sm'[i] = [sm[i] EXCEPT !.ready = FALSE, !.signal = FALSE, !.pc = "check"]
        /\ store' = store
    BY DEF FollowerTick, TypeOK
  <1>2. sm[i].limit = 0 /\ sm[i].ready /\ sm[i].pc = "idle" /\ sm[i].st = "run"
    BY DEF FollowerTick, TickReady
  <1>5. Cooling(i) = 0 /\ store[KeyOf(i)].age \in Nat
    BY <1>2 DEF Cooling, TypeOK, Record, Ages, Inst, KeyOf
  <1>3. Exposed(i) => store[KeyOf(i)].age > LeaseTime
    BY <1>2, <1>5, SMT DEF Aged
  <1>4. QED
    BY <1>1, <1>2, <1>3 DEF Aged, Exposed, Running, Expired

(* checkLeaderDead: an error or an expired lease keeps the row and the    *)
(* flag; a fresh lease naming the own host makes a leader, and one naming  *)
(* another host leaves the machine unexposed.                              *)
LEMMA CheckLeaderDeadAged ==
  ASSUME TypeOK, NEW i \in Inst, Aged(i), CheckLeaderDead(i) PROVE Aged(i)'
  <1> DEFINE k == KeyOf(i)
             p == Owner(i)
             l == store[k].leader
             s0 == [sm[i] EXCEPT !.pc = "idle"]
             s1 == IF l = p THEN ToLeader(s0, p) ELSE s0
             s2 == IF s1.leader # l THEN ToFollower(s1, l) ELSE s1
  <1>1. sm[i] \in SMRec /\ sm[i].st = "run" /\ sm[i].pc = "check" /\ store' = store
    BY DEF CheckLeaderDead, TypeOK
  <1>2. CASE sm' = [sm EXCEPT ![i] = s0]
    <2>1. /\ sm'[i].st = "run" /\ sm'[i].released = sm[i].released
          /\ sm'[i].flag = sm[i].flag /\ sm'[i].limit \in Nat
      BY <1>1, <1>2, RTL DEF TypeOK, SMRec
    <2>2. QED
      BY <1>1, <2>1, KeepExpired
  <1>3. CASE sm' = [sm EXCEPT ![i].pc = "getver"]
    <2>1. /\ sm'[i].st = "run" /\ sm'[i].released = sm[i].released
          /\ sm'[i].flag = sm[i].flag /\ sm'[i].limit \in Nat
      BY <1>1, <1>3, RTL DEF TypeOK, SMRec
    <2>2. QED
      BY <1>1, <2>1, KeepExpired
  <1>4. CASE ~Expired(k) /\ sm' = [sm EXCEPT ![i] = s2]
    <2>1. ~Exposed(i)
      BY <1>1, <1>4 DEF Aged
    <2>2. sm'[i] = s2 /\ s2.st = "run" /\ s2.released = sm[i].released
      BY <1>1, <1>4 DEF TypeOK, ToLeader, ToFollower
    <2>3. CASE l = p
      <3>1. sm[i].flag \/ ~sm[i].released
        BY <2>1, <2>3, <1>1 DEF Exposed, Running
      <3>2. s2 = ToLeader(s0, p)
        BY <2>3, <1>1 DEF ToLeader
      <3>3. sm'[i].flag
        BY <2>2, <3>2, <1>1 DEF ToLeader, SMRec
      <3>4. QED
        BY <2>2, <3>3 DEF Aged, Exposed
    <2>4. CASE l # p
      BY <2>2, <2>4, <1>1 DEF Aged, Exposed
    <2>5. QED
      BY <2>3, <2>4
  <1>5. QED
    BY <1>2, <1>3, <1>4 DEF CheckLeaderDead

(* elect's GetVersion: an error or the version read keep the row.          *)
LEMMA GetVersionAged ==
  ASSUME TypeOK, NEW i \in Inst, Aged(i), GetVersion(i) PROVE Aged(i)'
  <1>1. sm[i] \in SMRec /\ sm[i].st = "run" /\ sm[i].pc = "getver" /\ store' = store
    BY DEF GetVersion, TypeOK
  <1>2. /\ sm'[i].st = "run" /\ sm'[i].released = sm[i].released
        /\ sm'[i].flag = sm[i].flag /\ sm'[i].limit \in Nat
    <2>1. CASE sm' = [sm EXCEPT ![i].pc = "idle"]
      BY <1>1, <2>1, RTL DEF TypeOK, SMRec
    <2>2. CASE sm' = [sm EXCEPT ![i].version = store[KeyOf(i)].version + 1,
                                ![i].pc = "cas"]
      BY <1>1, <2>2, RTL DEF TypeOK, SMRec
    <2>3. QED
      BY <2>1, <2>2 DEF GetVersion
  <1>3. QED
    BY <1>1, <1>2, KeepExpired

(* elect's CAS: applied, it ends the release; not applied, it keeps the    *)
(* row, and an exposed machine found the row expired.                      *)
LEMMA ElectAged ==
  ASSUME TypeOK, NEW i \in Inst, Aged(i), Elect(i) PROVE Aged(i)'
  <1> DEFINE k == KeyOf(i)
             v == sm[i].version
  <1>1. sm[i] \in SMRec /\ sm[i].st = "run" /\ sm[i].pc = "cas"
    BY DEF Elect, TypeOK
  <1>2. PICK o \in CasOutcomes(k, v - 1) :
          LET s == [sm[i] EXCEPT !.pc = "idle", !.released = @ /\ ~CasApplied(o)]
          IN /\ store' = IF CasApplied(o)
                         THEN CompareAndSwapVersion(k, v, Owner(i)) ELSE store
             /\ IF o = "ok"
                THEN sm' = [sm EXCEPT ![i] = ToLeader(s, Owner(i))]
                ELSE sm' = [sm EXCEPT ![i] = s]
    BY DEF Elect
  <1> DEFINE s == [sm[i] EXCEPT !.pc = "idle", !.released = @ /\ ~CasApplied(o)]
  <1>6. s.st = "run" /\ s.released = (sm[i].released /\ ~CasApplied(o))
        /\ s.flag = sm[i].flag /\ s.limit \in Nat
    BY <1>1, RTL DEF SMRec
  <1>7. sm'[i] = IF o = "ok" THEN ToLeader(s, Owner(i)) ELSE s
    BY <1>2 DEF TypeOK
  <1>8. ToLeader(s, Owner(i)).released = s.released /\ ToLeader(s, Owner(i)).st = s.st
    BY <1>1 DEF ToLeader, SMRec
  <1>3. CASE CasApplied(o)
    <2>0. ~s.released
      BY <1>3, <1>6, Zenon
    <2>1. ~sm'[i].released /\ sm'[i].st = "run"
      BY <1>6, <1>7, <1>8, <2>0
    <2>2. QED
      BY <2>1 DEF Aged, Exposed
  <1>4. CASE ~CasApplied(o)
    <2>1. o # "ok" /\ store' = store
      BY <1>2, <1>4 DEF CasApplied
    <2>4. sm'[i] = s
      BY <1>7, <2>1
    <2>6. sm[i].released \in BOOLEAN
      BY <1>1 DEF SMRec
    <2>5. s.released = sm[i].released
      BY <1>4, <1>6, <2>6, Zenon
    <2>2. /\ sm'[i].st = "run" /\ sm'[i].released = sm[i].released
          /\ sm'[i].flag = sm[i].flag /\ sm'[i].limit \in Nat
      BY <1>6, <2>4, <2>5
    <2>3. QED
      BY <1>1, <2>1, <2>2, KeepExpired
  <1>5. QED
    BY <1>3, <1>4

(* A goroutine's step changes only its own machine and, by a CAS, only    *)
(* the row of its key with its own host as leader.                         *)
LEMMA MachineFootprint ==
  ASSUME TypeOK, NEW i \in Inst, Machine(i), NEW j \in Inst, j # i
  PROVE  /\ sm'[j] = sm[j]
         /\ \/ store' = store
            \/ \E v \in Versions : store' = CompareAndSwapVersion(KeyOf(i), v, Owner(i))
  <1>1. sm'[j] = sm[j]
    BY DEF Machine, Boot, Exit, Cooldown, StepDown, Heartbeat, FollowerTick,
           CheckLeaderDead, GetVersion, Elect, TypeOK
  <1>2. CASE Heartbeat(i)
    <2>1. sm[i].version + 1 \in Versions
      BY <1>2 DEF Heartbeat, TypeOK, SMRec, Versions
    <2>2. PICK o \in CasOutcomes(KeyOf(i), sm[i].version) :
            store' = IF CasApplied(o)
                     THEN CompareAndSwapVersion(KeyOf(i), sm[i].version + 1, Owner(i))
                     ELSE store
      BY <1>2 DEF Heartbeat
    <2>3. QED
      BY <1>1, <2>1, <2>2
  <1>3. CASE Elect(i)
    <2>1. sm[i].version \in Versions
      BY DEF TypeOK, SMRec
    <2>2. PICK o \in CasOutcomes(KeyOf(i), sm[i].version - 1) :
            store' = IF CasApplied(o)
                     THEN CompareAndSwapVersion(KeyOf(i), sm[i].version, Owner(i))
                     ELSE store
      BY <1>3 DEF Elect
    <2>3. QED
      BY <1>1, <2>1, <2>2
  <1>4. CASE Boot(i) \/ Exit(i) \/ Cooldown(i) \/ StepDown(i)
    BY <1>1, <1>4 DEF Boot, Exit, Cooldown, StepDown
  <1>6. CASE FollowerTick(i) \/ CheckLeaderDead(i) \/ GetVersion(i)
    BY <1>1, <1>6 DEF FollowerTick, CheckLeaderDead, GetVersion
  <1>5. QED
    BY <1>1, <1>2, <1>3, <1>4, <1>6 DEF Machine

(* Another goroutine's step keeps Aged: it writes the row of this key     *)
(* only under another host's name.                                          *)
LEMMA OtherMachineAged ==
  ASSUME TypeOK, MaxStarts = 1, NEW i \in Inst, Machine(i),
         NEW j \in Inst, j # i, Aged(j)
  PROVE  Aged(j)'
  <1>1. sm'[j] = sm[j]
    BY MachineFootprint
  <1>2. CASE store' = store
    BY <1>1, <1>2, AgedFrame
  <1>3. CASE \E v \in Versions : store' = CompareAndSwapVersion(KeyOf(i), v, Owner(i))
    <2>1. PICK v \in Versions : store' = CompareAndSwapVersion(KeyOf(i), v, Owner(i))
      BY <1>3
    <2>2. KeyOf(j) \in Keys /\ KeyOf(i) \in Keys
      BY DEF Inst, KeyOf
    <2>3. CASE KeyOf(j) = KeyOf(i)
      <3>1. Owner(j) # Owner(i)
        BY <2>3, OneMachinePerKey
      <3>2. store'[KeyOf(j)].leader = Owner(i)
        BY <2>1, <2>2, <2>3 DEF CompareAndSwapVersion, TypeOK
      <3>3. QED
        BY <1>1, <3>1, <3>2, AgedOtherWriter
    <2>4. CASE KeyOf(j) # KeyOf(i)
      <3>1. store'[KeyOf(j)] = store[KeyOf(j)]
        BY <2>1, <2>2, <2>4 DEF CompareAndSwapVersion, TypeOK
      <3>2. QED
        BY <1>1, <3>1, AgedFrame
    <2>5. QED
      BY <2>3, <2>4
  <1>4. QED
    BY <1>2, <1>3, MachineFootprint

(* StartLeaderElection creates an unreleased machine, and a row it creates *)
(* names no host.                                                          *)
LEMMA StartAged ==
  ASSUME TypeOK, NEW p \in Peers, NEW k \in Keys, StartLeaderElection(p, k),
         NEW j \in Inst, Aged(j)
  PROVE  Aged(j)'
  <1>1. PICK o \in CreateOutcomes(k) :
          LET g == starts[p][k] + 1
          IN /\ store' = IF o \in {"ok", "lostack"} /\ ~store[k].exists
                         THEN [store EXCEPT ![k] = CreatedRow] ELSE store
             /\ IF o = "ok"
                THEN sm' = [sm EXCEPT ![<<p, k, g>>] = [NoSM EXCEPT !.st = "new"]]
                ELSE UNCHANGED sm
    BY DEF StartLeaderElection
  <1>2. KeyOf(j) \in Keys /\ Owner(j) \in Peers
    BY DEF Inst, KeyOf, Owner
  <1>3. store'[KeyOf(j)] = store[KeyOf(j)] \/ store'[KeyOf(j)].leader = None
    BY <1>1, <1>2 DEF TypeOK, CreatedRow
  <1>4. CASE o = "ok" /\ j = <<p, k, starts[p][k] + 1>>
    <2>1. sm'[j] = [NoSM EXCEPT !.st = "new"]
      BY <1>1, <1>4 DEF TypeOK
    <2>2. QED
      BY <2>1 DEF Aged, Exposed, Running, NoSM
  <1>5. CASE ~(o = "ok" /\ j = <<p, k, starts[p][k] + 1>>)
    <2>1. sm'[j] = sm[j]
      BY <1>1, <1>5 DEF TypeOK
    <2>2. QED
      BY <1>2, <1>3, <2>1, AgedFrame, AgedOtherWriter, ConstantsAssumption
  <1>6. QED
    BY <1>4, <1>5

(* The release signal, the cancellation and a crash change no field Aged   *)
(* reads, except the crash that ends the machine.                          *)
LEMMA SignalsAged ==
  ASSUME TypeOK, NEW j \in Inst, Aged(j), store' = store,
         \/ sm'[j] = sm[j]
         \/ sm'[j] = [sm[j] EXCEPT !.signal = TRUE]
         \/ sm'[j] = [sm[j] EXCEPT !.cancelled = TRUE]
         \/ sm'[j] = [sm[j] EXCEPT !.st = "gone"]
  PROVE  Aged(j)'
  <1>1. sm[j] \in SMRec
    BY DEF TypeOK
  <1>2. CASE sm'[j] = sm[j]
    BY <1>2 DEF Aged, Exposed, Running, Cooling, Expired
  <1>3. CASE sm'[j] = [sm[j] EXCEPT !.signal = TRUE]
    BY <1>1, <1>3 DEF Aged, Exposed, Running, Cooling, Expired, SMRec
  <1>4. CASE sm'[j] = [sm[j] EXCEPT !.cancelled = TRUE]
    BY <1>1, <1>4 DEF Aged, Exposed, Running, Cooling, Expired, SMRec
  <1>5. CASE sm'[j] = [sm[j] EXCEPT !.st = "gone"]
    BY <1>1, <1>5 DEF Aged, Exposed, Running, SMRec
  <1>6. QED
    BY <1>2, <1>3, <1>4, <1>5

(* ReleaseLeaderElection, StopLeaderElections and a crash keep Aged.       *)
LEMMA ApiAged ==
  ASSUME TypeOK, NEW j \in Inst, Aged(j),
         \/ \E p \in Peers, k \in Keys : ReleaseLeaderElection(p, k)
         \/ \E p \in Peers : StopLeaderElections(p) \/ Crash(p)
  PROVE  Aged(j)'
  <1>1. ASSUME NEW p \in Peers, NEW k \in Keys, ReleaseLeaderElection(p, k)
        PROVE  Aged(j)'
    <2>1. sm' = [sm EXCEPT ![<<p, k, leMap[p][k]>>].signal = TRUE] /\ store' = store
      BY <1>1 DEF ReleaseLeaderElection
    <2>2. sm'[j] = sm[j] \/ sm'[j] = [sm[j] EXCEPT !.signal = TRUE]
      BY <2>1 DEF TypeOK
    <2>3. QED
      BY <2>1, <2>2, SignalsAged
  <1>2. ASSUME NEW p \in Peers, StopLeaderElections(p) PROVE Aged(j)'
    <2>1. /\ sm'[j] = (IF Owner(j) = p /\ leMap[p][KeyOf(j)] = j[3]
                      THEN [sm[j] EXCEPT !.cancelled = TRUE] ELSE sm[j])
          /\ store' = store
      BY <1>2 DEF StopLeaderElections
    <2>2. QED
      BY <2>1, SignalsAged
  <1>3. ASSUME NEW p \in Peers, Crash(p) PROVE Aged(j)'
    <2>1. /\ sm'[j] = (IF Owner(j) = p /\ sm[j].st \in {"new", "run"}
                      THEN [sm[j] EXCEPT !.st = "gone"] ELSE sm[j])
          /\ store' = store
      BY <1>3 DEF Crash
    <2>2. QED
      BY <2>1, SignalsAged
  <1>4. QED
    BY <1>1, <1>2, <1>3

(* Linear arithmetic for the clock step, over the products as atoms.      *)
LEMMA Slack ==
  ASSUME NEW age \in Nat, NEW wait \in Nat, NEW rest \in Nat, NEW tick \in Nat,
         NEW lease \in Nat, age + wait > lease, wait <= rest + tick
  PROVE  (age + tick) + rest > lease
  BY SMT

(* A clock step ages the row by TickTime (saturating past the lease) and  *)
(* buffers a tick: the ticks still to wait for drop by at most one, and    *)
(* the age rises by TickTime or is past the lease.                         *)
LEMMA ClockAged ==
  ASSUME TypeOK, NEW j \in Inst, Aged(j), Clock PROVE Aged(j)'
  <1> DEFINE k == KeyOf(j)
             a == store[k].age
  <1>1. k \in Keys /\ a \in 0..(LeaseTime + 1) /\ sm[j] \in SMRec
    BY DEF Inst, KeyOf, TypeOK, Record, Ages
  <1>2. /\ store'[k].leader = store[k].leader
        /\ store'[k].age = IF a + TickTime > LeaseTime THEN LeaseTime + 1 ELSE a + TickTime
    BY <1>1 DEF Clock, TypeOK, Record
  <1>3. sm'[j] = IF sm[j].st = "run" THEN [sm[j] EXCEPT !.ready = TRUE] ELSE sm[j]
    BY DEF Clock
  <1>4. /\ sm'[j].st = sm[j].st /\ sm'[j].released = sm[j].released
        /\ sm'[j].flag = sm[j].flag /\ sm'[j].pc = sm[j].pc
        /\ sm'[j].limit = sm[j].limit
    BY <1>1, <1>3 DEF SMRec
  <1>5. Exposed(j)' = Exposed(j)
    BY <1>2, <1>4 DEF Exposed, Running
  <1>6. store'[k].age >= a /\ (a > LeaseTime => store'[k].age > LeaseTime)
    BY <1>1, <1>2, SMT
  <1>7. Cooling(j) \in Nat /\ Cooling(j)' \in Nat
    BY <1>1, <1>4, RTL DEF Cooling, SMRec
  <1>8. Exposed(j) /\ sm[j].pc = "idle"
        => store'[k].age + Cooling(j)' * TickTime > LeaseTime
    <2>1. SUFFICES ASSUME Exposed(j), sm[j].pc = "idle"
                   PROVE  store'[k].age + Cooling(j)' * TickTime > LeaseTime
      OBVIOUS
    <2>2. a + Cooling(j) * TickTime > LeaseTime
      BY <2>1 DEF Aged
    <2>3. sm'[j].ready /\ Cooling(j)' = sm[j].limit
      BY <1>3, <1>1, <2>1 DEF Exposed, Running, Cooling, SMRec
    <2>4. Cooling(j) <= sm[j].limit + 1 /\ sm[j].limit \in Nat
      BY RTL, <1>1 DEF Cooling, SMRec
    <2>5. CASE a + TickTime > LeaseTime
      BY <1>2, <1>7, <2>5, SMT
    <2>6. CASE ~(a + TickTime > LeaseTime)
      <3>1. Cooling(j) * TickTime <= sm[j].limit * TickTime + TickTime
        BY <1>7, <2>4, SMT
      <3>0. Cooling(j)' * TickTime = sm[j].limit * TickTime
        BY <2>3
      <3>3. /\ Cooling(j) * TickTime \in Nat /\ sm[j].limit * TickTime \in Nat
            /\ store'[k].age = a + TickTime
        BY <1>1, <1>2, <1>7, <2>4, <2>6, SMT
      <3>2. QED
        BY <1>1, <2>2, <3>0, <3>1, <3>3, Slack
    <2>7. QED
      BY <2>5, <2>6
  <1>9. QED
    BY <1>4, <1>5, <1>6, <1>8 DEF Aged, Expired

(* Every step keeps RowAgedOut, with one machine per process and key.      *)
LEMMA AgedStep ==
  ASSUME TypeOK, MaxStarts = 1, RowAgedOut, [Next]_vars PROVE RowAgedOut'
  <1> SUFFICES ASSUME NEW j \in Inst PROVE Aged(j)'
    BY DEF RowAgedOut
  <1>0. Aged(j)
    BY DEF RowAgedOut
  <1>1. ASSUME NEW i \in Inst, Machine(i) PROVE Aged(j)'
    <2>1. CASE i = j
      BY <1>0, <1>1, <2>1, BootAged, ExitAged, CooldownAged, StepDownAged,
         HeartbeatAged, FollowerTickAged, CheckLeaderDeadAged, GetVersionAged,
         ElectAged DEF Machine
    <2>2. CASE i # j
      BY <1>0, <1>1, <2>2, OtherMachineAged
    <2>3. QED
      BY <2>1, <2>2
  <1>2. ASSUME NEW p \in Peers, NEW k \in Keys, StartLeaderElection(p, k)
        PROVE  Aged(j)'
    BY <1>0, <1>2, StartAged
  <1>3. CASE \/ \E p \in Peers, k \in Keys : ReleaseLeaderElection(p, k)
             \/ \E p \in Peers : StopLeaderElections(p) \/ Crash(p)
    BY <1>0, <1>3, ApiAged
  <1>4. CASE Clock
    BY <1>0, <1>4, ClockAged
  <1>5. CASE UNCHANGED vars
    BY <1>0, <1>5, AgedFrame DEF vars
  <1>6. QED
    BY <1>1, <1>2, <1>3, <1>4, <1>5 DEF Next, Environment

(* With one machine per process and key, a machine that released its      *)
(* leadership and has not won an election since reaches its next dead     *)
(* check only after its row has expired, in every reachable state: the    *)
(* cooldown of setReleaseTickLimit (lines 447-449) outlasts the lease.     *)
THEOREM RowAgedOutHolds ==
  ASSUME MaxStarts = 1 PROVE Spec => []RowAgedOut
  <1>1. Init => TypeOK /\ RowAgedOut
    BY InitType, InitAged
  <1>2. TypeOK /\ RowAgedOut /\ [Next]_vars => (TypeOK /\ RowAgedOut)'
    BY TypeStep, AgedStep
  <1>3. QED
    BY <1>1, <1>2, PTL DEF Spec

(* Only the dead check and elect's CAS raise a machine's leader flag:      *)
(* changeToLeader is called nowhere else (lines 410-414, 422-429).         *)
LEMMA FlagRaisers ==
  ASSUME TypeOK, [Next]_vars, NEW i \in Inst, ~sm[i].flag, sm'[i].flag
  PROVE  CheckLeaderDead(i) \/ Elect(i)
  <1>1. sm[i] \in SMRec
    BY DEF TypeOK
  <1>2. ASSUME NEW m \in Inst, Machine(m), m # i PROVE FALSE
    BY <1>2, MachineFootprint
  <1>3. ASSUME Machine(i), ~CheckLeaderDead(i), ~Elect(i) PROVE FALSE
    <2>0. ~ToFollower(sm[i], None).flag
      BY <1>1 DEF ToFollower, SMRec
    <2>1. CASE Boot(i)
      <3>1. sm'[i] = [ToFollower(sm[i], None) EXCEPT !.st = "run"]
        BY <2>1 DEF Boot, TypeOK
      <3>2. QED
        BY <1>1, <2>0, <3>1 DEF ToFollower, SMRec
    <2>5. CASE Exit(i)
      <3>1. sm'[i] = [ToFollower(sm[i], None) EXCEPT !.st = "gone"]
        BY <2>5 DEF Exit, TypeOK
      <3>2. QED
        BY <1>1, <2>0, <3>1 DEF ToFollower, SMRec
    <2>6. CASE StepDown(i)
      <3>1. sm'[i] = [ToFollower(sm[i], None) EXCEPT !.ready = FALSE,
                       !.signal = FALSE, !.limit = ReleaseTickLimit,
                       !.released = TRUE]
        BY <2>6 DEF StepDown, TypeOK
      <3>2. QED
        BY <1>1, <2>0, <3>1 DEF ToFollower, SMRec
    <2>2. CASE Cooldown(i)
      <3>1. sm'[i] = [sm[i] EXCEPT !.ready = FALSE, !.limit = @ - 1]
        BY <2>2 DEF Cooldown, TypeOK
      <3>2. QED
        BY <1>1, <3>1 DEF SMRec
    <2>7. CASE Heartbeat(i)
      <3>1. \E v, x : sm'[i] = [sm[i] EXCEPT !.ready = FALSE, !.version = v, !.pc = x]
        BY <2>7 DEF Heartbeat, TypeOK
      <3>2. QED
        BY <1>1, <3>1 DEF SMRec
    <2>8. CASE FollowerTick(i)
      <3>1. sm'[i] = [sm[i] EXCEPT !.ready = FALSE, !.signal = FALSE, !.pc = "check"]
        BY <2>8 DEF FollowerTick, TypeOK
      <3>2. QED
        BY <1>1, <3>1 DEF SMRec
    <2>3. CASE GetVersion(i)
      <3>1. \/ sm'[i] = [sm[i] EXCEPT !.pc = "idle"]
            \/ \E v : sm'[i] = [sm[i] EXCEPT !.version = v, !.pc = "cas"]
        BY <2>3 DEF GetVersion, TypeOK
      <3>2. QED
        BY <1>1, <3>1 DEF SMRec
    <2>4. QED
      BY <1>3, <2>1, <2>2, <2>3, <2>5, <2>6, <2>7, <2>8 DEF Machine
  <1>4. ASSUME NEW p \in Peers, NEW k \in Keys, StartLeaderElection(p, k)
        PROVE  FALSE
    <2>1. sm'[i] = sm[i] \/ sm'[i] = [NoSM EXCEPT !.st = "new"]
      BY <1>4 DEF StartLeaderElection, TypeOK
    <2>2. QED
      BY <2>1 DEF NoSM
  <1>5. ASSUME \/ \E p \in Peers, k \in Keys : ReleaseLeaderElection(p, k)
               \/ \E p \in Peers : StopLeaderElections(p) \/ Crash(p)
               \/ Clock
        PROVE  FALSE
    <2>1. \/ sm'[i] = sm[i]
          \/ sm'[i] = [sm[i] EXCEPT !.signal = TRUE]
          \/ sm'[i] = [sm[i] EXCEPT !.cancelled = TRUE]
          \/ sm'[i] = [sm[i] EXCEPT !.st = "gone"]
          \/ sm'[i] = [sm[i] EXCEPT !.ready = TRUE]
      BY <1>5 DEF ReleaseLeaderElection, StopLeaderElections, Crash, Clock, TypeOK
    <2>2. QED
      BY <1>1, <2>1 DEF SMRec
  <1>6. QED
    BY <1>2, <1>3, <1>4, <1>5 DEF Next, Environment, vars

(* A step of a released follower that raises its flag writes its row.      *)
LEMMA HonouredStep ==
  ASSUME TypeOK, MaxStarts = 1, RowAgedOut, [Next]_vars, NEW i \in Inst,
         sm[i].released, ~sm[i].flag, sm'[i].flag
  PROVE  store'[KeyOf(i)] # store[KeyOf(i)]
  <1> DEFINE k == KeyOf(i)
             p == Owner(i)
  <1>1. sm[i] \in SMRec /\ k \in Keys /\ p \in Peers
    BY DEF TypeOK, Inst, KeyOf, Owner
  <1>2. CASE CheckLeaderDead(i)
    <2> DEFINE l == store[k].leader
               s0 == [sm[i] EXCEPT !.pc = "idle"]
               s1 == IF l = p THEN ToLeader(s0, p) ELSE s0
               s2 == IF s1.leader # l THEN ToFollower(s1, l) ELSE s1
    <2>1. sm[i].st = "run" /\ sm[i].pc = "check"
      BY <1>2 DEF CheckLeaderDead
    <2>2. ~s0.flag /\ (l # p => ~s2.flag)
      BY <1>1 DEF ToFollower, SMRec
    <2>3. CASE sm' = [sm EXCEPT ![i] = s0]
      BY <1>1, <2>2, <2>3 DEF TypeOK
    <2>7. CASE sm' = [sm EXCEPT ![i].pc = "getver"]
      BY <1>1, <2>7 DEF TypeOK, SMRec
    <2>8. CASE ~Expired(k) /\ sm' = [sm EXCEPT ![i] = s2]
      <3>1. sm'[i] = s2
        BY <2>8 DEF TypeOK
      <3>2. l = p /\ ~Expired(k)
        BY <2>2, <2>8, <3>1
      <3>3. Exposed(i)
        BY <2>1, <3>2 DEF Exposed, Running
      <3>4. QED
        BY <2>1, <3>2, <3>3 DEF RowAgedOut, Aged
    <2>4. QED
      BY <1>2, <2>3, <2>7, <2>8 DEF CheckLeaderDead
  <1>3. CASE Elect(i)
    <2> DEFINE v == sm[i].version
    <2>1. PICK o \in CasOutcomes(k, v - 1) :
            LET s == [sm[i] EXCEPT !.pc = "idle", !.released = @ /\ ~CasApplied(o)]
            IN /\ store' = IF CasApplied(o)
                           THEN CompareAndSwapVersion(k, v, p) ELSE store
               /\ IF o = "ok"
                  THEN sm' = [sm EXCEPT ![i] = ToLeader(s, p)]
                  ELSE sm' = [sm EXCEPT ![i] = s]
      BY <1>3 DEF Elect
    <2>2. o = "ok"
      <3>1. SUFFICES ASSUME o # "ok" PROVE FALSE
        OBVIOUS
      <3>2. sm'[i] = [sm[i] EXCEPT !.pc = "idle", !.released = @ /\ ~CasApplied(o)]
        BY <2>1, <3>1 DEF TypeOK
      <3>3. QED
        BY <1>1, <3>2 DEF SMRec
    <2>3. store[k].version = v - 1
      BY <1>1, <2>1, <2>2, CasAppliedVersion DEF CasApplied
    <2>4. store'[k].version = v /\ v \in Nat
      BY <1>1, <2>1, <2>2 DEF CasApplied, CompareAndSwapVersion, TypeOK, SMRec,
                              Versions
    <2>5. QED
      BY <2>3, <2>4
  <1>4. QED
    BY <1>2, <1>3, FlagRaisers

(* ReleaseIsHonoured for every number of peers and keys and every lease   *)
(* and tick length, with one state machine per process and key: after a    *)
(* release, leadership comes back only by a CAS that writes the row, never *)
(* by recognising the own host in a row that is still fresh.  (With       *)
(* MaxStarts = 2, stop and restart of a key break it.)                     *)
THEOREM ReleaseIsHonouredHolds ==
  ASSUME MaxStarts = 1 PROVE Spec => ReleaseIsHonoured
  <1>1. TypeOK /\ RowAgedOut /\ [Next]_vars
        => [\A i \in Inst :
              sm[i].released /\ ~sm[i].flag /\ sm'[i].flag
              => store'[KeyOf(i)] # store[KeyOf(i)]]_vars
    BY HonouredStep
  <1>2. QED
    BY <1>1, TypeCorrect, RowAgedOutHolds, PTL DEF Spec, ReleaseIsHonoured
=============================================================================
