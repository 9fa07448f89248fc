------------------------ MODULE DispatchGuardProofs ------------------------
(***************************************************************************)
(* What DispatchGuard promises, proved for any number of calls, keys,      *)
(* orders and restarts.                                                    *)
(***************************************************************************)
EXTENDS DispatchGuard, TLAPS

(* A call that has not got past the look-up has no order at the exchange.  *)
NoEarlyOrder ==
  \A c \in Calls, n \in OrderSlots :
    <<c, n>> \in placed => phase[c] \in {"running", "done", "failed", "killed"}

GuardInv == TypeOK /\ NoEarlyOrder /\ RecordedByReturn /\ SkipIsBacked

(* Initially the invariant holds: nothing has happened.                    *)
LEMMA GuardInit == Init => GuardInv
  BY DEF Init, GuardInv, TypeOK, NoEarlyOrder, RecordedByReturn, SkipIsBacked, Phases

(* Every step keeps the type invariant.                                    *)
LEMMA GuardType == ASSUME TypeOK, [Next]_vars PROVE TypeOK'
<1>1. ASSUME NEW c \in Calls, NEW k \in Keys \cup {NoKey}, Take(c, k) PROVE TypeOK'
  BY <1>1 DEF TypeOK, Take, Phases
<1>2. ASSUME NEW c \in Calls, Skip(c) PROVE TypeOK'
  BY <1>2 DEF TypeOK, Skip, Phases
<1>3. ASSUME NEW c \in Calls, Start(c) PROVE TypeOK'
  BY <1>3 DEF TypeOK, Start, Phases
<1>4. ASSUME NEW c \in Calls, NEW n \in OrderSlots, Place(c, n) PROVE TypeOK'
  BY <1>4 DEF TypeOK, Place
<1>5. ASSUME NEW c \in Calls, Finish(c) PROVE TypeOK'
  BY <1>5 DEF TypeOK, Finish, Phases
<1>6. ASSUME NEW c \in Calls, Fail(c) PROVE TypeOK'
  BY <1>6 DEF TypeOK, Fail, Phases
<1>7. ASSUME Restart PROVE TypeOK'
  BY <1>7 DEF TypeOK, Restart, Phases
<1>8. CASE UNCHANGED vars
  BY <1>8 DEF TypeOK, vars
<1>9. QED
  BY <1>1, <1>2, <1>3, <1>4, <1>5, <1>6, <1>7, <1>8 DEF Next

(* A step leaves a call's phase alone, or moves it from a phase that is    *)
(* not final; a finished call stays finished with the key it had.          *)
LEMMA DoneStays ==
  ASSUME TypeOK, [Next]_vars, NEW c \in Calls, phase[c] = "done"
  PROVE  phase'[c] = "done" /\ key'[c] = key[c]
<1>1. ASSUME NEW d \in Calls, NEW k \in Keys \cup {NoKey}, Take(d, k)
      PROVE  phase'[c] = "done" /\ key'[c] = key[c]
  BY <1>1 DEF TypeOK, Take
<1>2. ASSUME NEW d \in Calls, Skip(d) \/ Start(d) \/ Finish(d) \/ Fail(d)
      PROVE  phase'[c] = "done" /\ key'[c] = key[c]
  BY <1>2 DEF TypeOK, Skip, Start, Finish, Fail
<1>3. ASSUME NEW d \in Calls, NEW n \in OrderSlots, Place(d, n)
      PROVE  phase'[c] = "done" /\ key'[c] = key[c]
  BY <1>3 DEF Place
<1>4. ASSUME Restart PROVE phase'[c] = "done" /\ key'[c] = key[c]
  BY <1>4 DEF TypeOK, Restart, Active
<1>5. QED
  BY <1>1, <1>2, <1>3, <1>4 DEF Next, vars

(* A key is recorded only by a call that finishes in that step.            *)
LEMMA RecordedStep ==
  ASSUME TypeOK, [Next]_vars, RecordedByReturn
  PROVE  RecordedByReturn'
<1> SUFFICES ASSUME NEW k \in recorded'
             PROVE  \E c \in Calls : phase'[c] = "done" /\ key'[c] = k
  BY DEF RecordedByReturn
<1>1. CASE k \in recorded
  <2>1. PICK c \in Calls : phase[c] = "done" /\ key[c] = k
    BY <1>1 DEF RecordedByReturn
  <2>2. QED
    BY <2>1, DoneStays
<1>2. CASE k \notin recorded
  <2>1. PICK c \in Calls : Finish(c)
    BY <1>2 DEF Next, vars, Take, Skip, Start, Place, Fail, Restart
  <2>2. key[c] = k /\ phase'[c] = "done" /\ key'[c] = key[c]
    BY <1>2, <2>1 DEF Finish, TypeOK
  <2>3. QED
    BY <2>2
<1>3. QED
  BY <1>1, <1>2

(* An order is accepted only for a call past its look-up, and no call goes *)
(* back to before it.                                                      *)
LEMMA NoEarlyOrderStep ==
  ASSUME TypeOK, [Next]_vars, NoEarlyOrder
  PROVE  NoEarlyOrder'
<1> SUFFICES ASSUME NEW c \in Calls, NEW n \in OrderSlots, <<c, n>> \in placed'
             PROVE  phase'[c] \in {"running", "done", "failed", "killed"}
  BY DEF NoEarlyOrder
<1>1. CASE <<c, n>> \in placed
  <2>1. phase[c] \in {"running", "done", "failed", "killed"}
    BY <1>1 DEF NoEarlyOrder
  <2>2. ASSUME NEW d \in Calls, NEW k \in Keys \cup {NoKey}, Take(d, k)
        PROVE  phase'[c] = phase[c]
    BY <2>1, <2>2 DEF TypeOK, Take
  <2>3. ASSUME NEW d \in Calls, Skip(d) \/ Start(d)
        PROVE  phase'[c] = phase[c]
    BY <2>1, <2>3 DEF TypeOK, Skip, Start
  <2>4. ASSUME NEW d \in Calls, Finish(d) \/ Fail(d)
        PROVE  phase'[c] \in {phase[c], "done", "failed"}
    BY <2>4 DEF TypeOK, Finish, Fail
  <2>5. CASE Restart
    BY <2>1, <2>5 DEF TypeOK, Restart, Active
  <2>6. QED
    BY <2>1, <2>2, <2>3, <2>4, <2>5 DEF Next, Place, vars
<1>2. CASE <<c, n>> \notin placed
  <2>1. PICK d \in Calls, m \in OrderSlots : Place(d, m)
    BY <1>2 DEF Next, vars, Take, Skip, Start, Finish, Fail, Restart
  <2>2. d = c
    BY <1>2, <2>1 DEF Place
  <2>3. QED
    BY <2>1, <2>2 DEF Place
<1>3. QED
  BY <1>1, <1>2

(* A call becomes skipped only where a finished call backs it, and stays   *)
(* so; nothing is placed for it then or later.                             *)
LEMMA SkipStep ==
  ASSUME GuardInv, [Next]_vars
  PROVE  SkipIsBacked'
<1> USE DEF GuardInv
<1> SUFFICES ASSUME NEW c \in Calls, phase'[c] = "skipped"
             PROVE  /\ \A n \in OrderSlots : <<c, n>> \notin placed'
                    /\ \E d \in Calls : d # c /\ phase'[d] = "done" /\ key'[d] = key'[c]
  BY DEF SkipIsBacked
<1>1. NoEarlyOrder'
  BY NoEarlyOrderStep
<1>2. \A n \in OrderSlots : <<c, n>> \notin placed'
  BY <1>1 DEF NoEarlyOrder
<1>3. CASE phase[c] = "skipped"
  <2>1. PICK d \in Calls : d # c /\ phase[d] = "done" /\ key[d] = key[c]
    BY <1>3 DEF SkipIsBacked
  <2>2. key'[c] = key[c]
    BY <1>3 DEF Next, vars, Take, Skip, Start, Place, Finish, Fail, Restart, TypeOK
  <2>3. QED
    BY <1>2, <2>1, <2>2, DoneStays
<1>4. CASE phase[c] # "skipped"
  <2>1. Skip(c)
    <3>1. ASSUME NEW d \in Calls, NEW k \in Keys \cup {NoKey}, Take(d, k) PROVE FALSE
      BY <1>4, <3>1 DEF Take, TypeOK
    <3>2. ASSUME NEW d \in Calls, Start(d) \/ Finish(d) \/ Fail(d) PROVE FALSE
      BY <1>4, <3>2 DEF Start, Finish, Fail, TypeOK
    <3>3. ASSUME NEW d \in Calls, d # c, Skip(d) PROVE FALSE
      BY <1>4, <3>3 DEF Skip, TypeOK
    <3>4. ASSUME Restart PROVE FALSE
      BY <1>4, <3>4 DEF Restart, TypeOK
    <3>5. QED
      BY <1>4, <3>1, <3>2, <3>3, <3>4 DEF Next, Place, vars
  <2>2. PICK d \in Calls : phase[d] = "done" /\ key[d] = key[c]
    BY <2>1 DEF Skip, RecordedByReturn
  <2>3. d # c
    BY <2>1, <2>2 DEF Skip
  <2>4. key'[c] = key[c]
    BY <2>1 DEF Skip
  <2>5. QED
    BY <1>2, <2>2, <2>3, <2>4, DoneStays
<1>5. QED
  BY <1>3, <1>4

(* The invariant is inductive.                                             *)
THEOREM GuardInvariant == Spec => []GuardInv
<1>1. Init => GuardInv
  BY GuardInit
<1>2. GuardInv /\ [Next]_vars => GuardInv'
  BY GuardType, NoEarlyOrderStep, RecordedStep, SkipStep DEF GuardInv
<1>3. QED
  BY <1>1, <1>2, PTL DEF Spec

(* The variables of the guard keep their types.                            *)
THEOREM GuardTypeCorrect == Spec => []TypeOK
<1>1. GuardInv => TypeOK
  BY DEF GuardInv
<1>2. QED
  BY <1>1, GuardInvariant, PTL

(* Only a call that returned can have recorded a key: a failure never      *)
(* blocks the retry that follows it (execute_order_for_account).           *)
THEOREM OnlyReturnsRecord == Spec => []RecordedByReturn
<1>1. GuardInv => RecordedByReturn
  BY DEF GuardInv
<1>2. QED
  BY <1>1, GuardInvariant, PTL

(* A skipped call has no order, and a call with its key has returned: a    *)
(* skip never stands for an execution that failed.                         *)
THEOREM SkipsAreBacked == Spec => []SkipIsBacked
<1>1. GuardInv => SkipIsBacked
  BY DEF GuardInv
<1>2. QED
  BY <1>1, GuardInvariant, PTL
=============================================================================
