--------------------------- MODULE RuleStoreProofs ---------------------------
(***************************************************************************)
(* Machine-checked proofs about the rule store model RuleStore, for every  *)
(* set of writers, ids and revisions and every clock, error and retry      *)
(* bound allowed by RuleStoreAssumption.                                    *)
(*                                                                         *)
(* Typed is TypeOK with InFlight: a call between its invocation and its    *)
(* return runs a write and has not failed yet, which TypeOK alone does not *)
(* say and which the commit needs to keep its retry counter in range.  It *)
(* holds for the three stores.  The reader's new mark is a CHOOSE of the   *)
(* greatest mtime pulled; LatestExists shows that greatest element exists, *)
(* through the well-foundedness of < on Nat (WFMin), so that the mark     *)
(* stays a time.                                                           *)
(***************************************************************************)
EXTENDS RuleStore, WellFoundedInduction, TLAPS

USE RuleStoreAssumption

(* A call between its invocation and its return runs a write and has not  *)
(* failed yet.                                                             *)
InFlight ==
    \A w \in Writers :
        call[w].pc \in {"stamp", "commit"} => call[w].op \in Ops /\ ~call[w].err

Typed == TypeOK /\ InFlight


(* The placeholder row and the idle call are well typed. *)
LEMMA NoValuesType == NoRow \in Row /\ NoCall \in Call
  BY DEF NoRow, NoCall, Row, Call, Times

(* The statement of a call in flight leaves a typed row typed. *)
LEMMA ApplyType ==
  ASSUME NEW r \in Row, NEW c \in Call, c.op \in Ops
  PROVE  Apply(r, c) \in Row
  BY DEF Apply, InsertRow, UpdateRow, DeleteRow, Row, Call, Ops

(* A nonempty set of times has a greatest element: the mark a pull moves   *)
(* to exists.  The least of {MaxTime - t : t \in S} under the              *)
(* well-founded < on Nat gives it.                                         *)
LEMMA LatestExists ==
  ASSUME NEW S \in SUBSET Times, S # {}
  PROVE  \E t \in S : \A u \in S : u <= t
  <1> DEFINE D == {MaxTime - t : t \in S}
             R == OpToRel(<, Nat)
  <1>1. D \subseteq Nat
    BY DEF Times
  <1>0. D # {}
    OBVIOUS
  <1>2. \E x \in D : \A y \in D : ~(<<y, x>> \in R)
    BY <1>0, <1>1, NatLessThanWellFounded, WFMin
  <1>3. PICK x \in D : \A y \in D : ~(<<y, x>> \in R)
    BY <1>2
  <1>4. PICK t \in S : x = MaxTime - t
    OBVIOUS
  <1>5. ASSUME NEW u \in S PROVE u <= t
    <2>1. MaxTime - u \in D /\ MaxTime - u \in Nat /\ x \in Nat
      BY <1>1, <1>4
    <2>2. ~(<<MaxTime - u, x>> \in R)
      BY <1>3, <2>1
    <2>3. ~(MaxTime - u < x)
      BY <2>1, <2>2 DEF OpToRel
    <2>4. QED
      BY <2>3, <1>4 DEF Times
  <1>6. QED
    BY <1>5

(* Latest of a nonempty set of times is a time of the set. *)
LEMMA LatestType ==
  ASSUME NEW S \in SUBSET Times, S # {}
  PROVE  Latest(S) \in S
  BY LatestExists DEF Latest

(* The initial state satisfies the invariant. *)
LEMMA InitTyped == Init => Typed
  <1> SUFFICES ASSUME Init PROVE Typed
    OBVIOUS
  <1>1. TypeOK
    BY NoValuesType DEF Init, TypeOK, Times
  <1>2. \A w \in Writers : call[w].pc = "idle" /\ call[w].op = "none"
    BY DEF Init, NoCall
  <1>3. QED
    BY <1>1, <1>2 DEF Typed, InFlight

(* Invoking a handler starts a call in flight. *)
LEMMA InvokeTyped ==
  ASSUME Typed, NEW w \in Writers, NEW op \in Ops, NEW i \in Ids, NEW v \in Revs,
         Invoke(w, op, i, v)
  PROVE  Typed'
  <1>1. [NoCall EXCEPT !.op = op, !.id = i, !.rev = v, !.pc = "stamp"] \in Call
    BY NoValuesType DEF Call
  <1>2. QED
    BY <1>1 DEF Invoke, Typed, TypeOK, InFlight, NoCall

(* Building a call's arguments keeps it in flight. *)
LEMMA StampTyped ==
  ASSUME Typed, NEW w \in Writers, Stamp(w) PROVE Typed'
  BY DEF Stamp, Typed, TypeOK, InFlight, Call, Times

(* A get returns at once and is no create. *)
LEMMA GetTyped ==
  ASSUME Typed, NEW w \in Writers, NEW i \in Ids, Get(w, i) PROVE Typed'
  <1>1. GetResult(table[i]) \in Revs \cup {Gone, Present}
    BY DEF GetResult, Found, CircuitBreakerFound, Typed, TypeOK, Row
  <1>2. /\ [NoCall EXCEPT !.op = "get", !.id = i, !.pc = "done",
                          !.got = GetResult(table[i])] \in Call
        /\ [NoCall EXCEPT !.op = "get", !.id = i, !.pc = "done", !.err = TRUE,
                          !.storeErr = TRUE] \in Call
    BY <1>1, NoValuesType DEF Call
  <1>3. UNCHANGED <<now, table, mark, first, cache>> /\ errs' \in 0..MaxErrors
    BY DEF Get, Typed, TypeOK
  <1>4. \E nc \in Call : call' = [call EXCEPT ![w] = nc] /\ nc.op = "get" /\ nc.pc = "done"
    <2>1. CASE call' = [call EXCEPT ![w] = [NoCall EXCEPT !.op = "get", !.id = i,
                                        !.pc = "done", !.got = GetResult(table[i])]]
      BY <1>2, <2>1 DEF NoCall
    <2>2. CASE call' = [call EXCEPT ![w] = [NoCall EXCEPT !.op = "get", !.id = i,
                                        !.pc = "done", !.err = TRUE,
                                        !.storeErr = TRUE]]
      BY <1>2, <2>2 DEF NoCall
    <2>3. QED
      BY <2>1, <2>2 DEF Get
  <1>5. PICK nc \in Call : call' = [call EXCEPT ![w] = nc] /\ nc.op = "get"
                           /\ nc.pc = "done"
    BY <1>4
  <1>6. /\ call' \in [Writers -> Call]
        /\ \A u \in Writers : call'[u] = IF u = w THEN nc ELSE call[u]
    BY <1>5 DEF Typed, TypeOK
  <1>7. QED
    BY <1>3, <1>5, <1>6 DEF Typed, TypeOK, InFlight

(* A pull moves the mark to a time and caches a view of each pulled row.   *)
LEMMA PullTyped ==
  ASSUME Typed, Pull PROVE Typed'
  <1> DEFINE S == {mark} \cup {table[i].mtime : i \in Pulled}
  <1>0. \A i \in Pulled : table[i].mtime \in Times
    BY DEF Pulled, Typed, TypeOK, Row
  <1>1. S \in SUBSET Times /\ S # {}
    BY <1>0 DEF Typed, TypeOK
  <1>2. mark' \in Times
    BY <1>1, LatestType DEF Pull
  <1>3. cache' \in [Ids -> Revs \cup {Gone}]
    BY DEF Pull, View, Typed, TypeOK, Row
  <1>4. QED
    BY <1>2, <1>3 DEF Pull, Typed, TypeOK, InFlight

(* A tick of the clock stays within MaxTime. *)
LEMMA ClockTyped ==
  ASSUME Typed, Clock \/ UNCHANGED vars PROVE Typed'
  BY DEF Clock, vars, Typed, TypeOK, InFlight, Times
(* The commit of a call in flight keeps Typed, in every store: a failed    *)
(* attempt that is retried goes back to building its arguments with one   *)
(* more try, below RetryLimit.                                            *)
LEMMA CommitTyped ==
  ASSUME Typed, NEW w \in Writers, Commit(w) PROVE Typed'
  <1> DEFINE c == call[w]
             r == table[c.id]
             fits == ~(c.op = "create" /\ CreateConflicts(r))
  <1>1. c \in Call /\ r \in Row /\ c.pc = "commit" /\ c.op \in Ops /\ ~c.err
    BY DEF Commit, Typed, TypeOK, InFlight, Call
  <1>2. Apply(r, c) \in Row
    BY <1>1, ApplyType
  <1>3. UNCHANGED <<now, mark, first, cache>>
    BY DEF Commit
  <1>4. CASE /\ call' = [call EXCEPT ![w].pc = "done", ![w].err = TRUE]
             /\ UNCHANGED <<table, errs>>
    BY <1>1, <1>3, <1>4 DEF Typed, TypeOK, InFlight, Call
  <1>5. CASE /\ table' = [table EXCEPT ![c.id] = Apply(r, c)]
             /\ call' = [call EXCEPT ![w].pc = "done", ![w].applied = TRUE]
             /\ UNCHANGED errs
    BY <1>1, <1>2, <1>3, <1>5 DEF Typed, TypeOK, InFlight, Call
  <1>6. ASSUME NEW lost \in BOOLEAN, NEW retriable \in BOOLEAN,
               errs < MaxErrors, errs' = errs + 1,
               table' = IF lost /\ fits
                        THEN [table EXCEPT ![c.id] = Apply(r, c)] ELSE table,
               LET again == /\ retriable /\ c.op \in Retried
                            /\ c.tries + 1 < RetryLimit
               IN call' = [call EXCEPT
                             ![w].pc = IF again THEN "stamp" ELSE "done",
                             ![w].tries = IF again THEN c.tries + 1 ELSE c.tries,
                             ![w].err = ~again, ![w].storeErr = TRUE,
                             ![w].applied = c.applied \/ (lost /\ fits)]
        PROVE  Typed'
    <2>1. table' \in [Ids -> Row]
      BY <1>1, <1>2, <1>6 DEF Typed, TypeOK
    <2> DEFINE again == /\ retriable /\ c.op \in Retried
                        /\ c.tries + 1 < RetryLimit
               nc == [c EXCEPT !.pc = IF again THEN "stamp" ELSE "done",
                               !.tries = IF again THEN c.tries + 1 ELSE c.tries,
                               !.err = ~again, !.storeErr = TRUE,
                               !.applied = c.applied \/ (lost /\ fits)]
    <2>2. call' = [call EXCEPT ![w] = nc]
      BY <1>1, <1>6 DEF Typed, TypeOK
    <2>3. nc \in Call
      <3>1. (IF again THEN c.tries + 1 ELSE c.tries) \in 0..RetryLimit
        BY <1>1 DEF Call
      <3>2. QED
        BY <1>1, <3>1 DEF Call
    <2>4. nc.pc \in {"stamp", "commit"} => nc.op \in Ops /\ ~nc.err
      BY <1>1 DEF Call
    <2>5. /\ call' \in [Writers -> Call]
          /\ \A u \in Writers : call'[u] = IF u = w THEN nc ELSE call[u]
      BY <2>2, <2>3 DEF Typed, TypeOK
    <2>6. errs' \in 0..MaxErrors
      BY <1>6 DEF Typed, TypeOK
    <2>7. QED
      BY <1>3, <2>1, <2>4, <2>5, <2>6 DEF Typed, TypeOK, InFlight
  <1>7. ASSUME errs < MaxErrors, errs' = errs + 1,
               \E lost, retriable \in BOOLEAN :
                 LET again == /\ retriable /\ c.op \in Retried
                              /\ c.tries + 1 < RetryLimit
                 IN /\ table' = IF lost /\ fits
                                THEN [table EXCEPT ![c.id] = Apply(r, c)] ELSE table
                    /\ call' = [call EXCEPT
                                  ![w].pc = IF again THEN "stamp" ELSE "done",
                                  ![w].tries = IF again THEN c.tries + 1 ELSE c.tries,
                                  ![w].err = ~again, ![w].storeErr = TRUE,
                                  ![w].applied = c.applied \/ (lost /\ fits)]
        PROVE  Typed'
    <2>1. PICK lost, retriable \in BOOLEAN :
                 LET again == /\ retriable /\ c.op \in Retried
                              /\ c.tries + 1 < RetryLimit
                 IN /\ table' = IF lost /\ fits
                                THEN [table EXCEPT ![c.id] = Apply(r, c)] ELSE table
                    /\ call' = [call EXCEPT
                                  ![w].pc = IF again THEN "stamp" ELSE "done",
                                  ![w].tries = IF again THEN c.tries + 1 ELSE c.tries,
                                  ![w].err = ~again, ![w].storeErr = TRUE,
                                  ![w].applied = c.applied \/ (lost /\ fits)]
      BY <1>7
    <2>2. QED
      BY <1>7, <2>1, <1>6
  <1>8. QED
    BY <1>4, <1>5, <1>7 DEF Commit

(* Every step keeps Typed. *)
LEMMA TypedStep == Typed /\ [Next]_vars => Typed'
  <1> SUFFICES ASSUME Typed, [Next]_vars PROVE Typed'
    OBVIOUS
  <1>1. CASE \E w \in Writers : Commit(w)
    BY <1>1, CommitTyped
  <1>2. CASE ~\E w \in Writers : Commit(w)
    BY <1>2, InvokeTyped, StampTyped, GetTyped, PullTyped, ClockTyped DEF Next
  <1>3. QED
    BY <1>1, <1>2

(* The reader's mark and cache, the writers' calls and rows and the error  *)
(* count keep their types in every reachable state of each store: in      *)
(* particular the mark a pull moves to (Latest, the greatest mtime        *)
(* GetRoutingConfigsV2ForCache returned) exists and is a time, and a      *)
(* retried commit never runs past RetryLimit tries.                        *)
THEOREM TypeCorrect == Spec => []TypeOK
  <1>1. QED
    BY InitTyped, TypedStep, PTL DEF Spec, Typed

=============================================================================
