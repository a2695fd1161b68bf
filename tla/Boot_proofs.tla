----------------------------- MODULE Boot_proofs -----------------------------
(***************************************************************************)
(* Theorems about Boot, for every set of instances, every number of        *)
(* migrations and whatever each binary carries of them.                    *)
(*                                                                         *)
(* What makes AppliedOnceInOrder inductive is where the open transactions  *)
(* are: an instance has seen every earlier migration recorded, and of      *)
(* those about to commit one migration there is one, and it is the first.  *)
(***************************************************************************)
EXTENDS Boot, TLAPS

\* The migrations that an instance is past are recorded.
PastIsRecorded ==
    \A i \in Instances : \A m \in Migrations : m < current[i] => m \in recorded

\* An instance applies what it carries, and serves when nothing is left.
StageFits ==
    \A i \in Instances :
        /\ stage[i] \in {"run", "record", "commit"} => current[i] <= Carries[i]
        /\ stage[i] = "serving" => current[i] > Carries[i]

\* The first to commit is the only one: its tracking row keeps out the others.
CommitIsFirst ==
    /\ \A i \in Instances : stage[i] = "commit" => current[i] \notin recorded
    /\ \A i, j \in Instances :
        stage[i] = "commit" /\ stage[j] = "commit" /\ current[i] = current[j] => i = j

BootInv ==
    /\ TypeOK
    /\ AppliedOnceInOrder
    /\ PastIsRecorded
    /\ StageFits
    /\ CommitIsFirst

-----------------------------------------------------------------------------
LEMMA InitHolds == Init => BootInv
<1> SUFFICES ASSUME Init PROVE BootInv
  OBVIOUS
<1>1. TypeOK
  <2>1. 1 \in 1 .. Last + 1 /\ 0 \in 0 .. MaxFaults
    BY LastAssumption, FaultsAssumption
  <2> QED BY <2>1 DEF Init, TypeOK, Stages
<1>2. AppliedOnceInOrder
  BY DEF Init, AppliedOnceInOrder
<1>3. PastIsRecorded /\ StageFits /\ CommitIsFirst
  BY LastAssumption DEF Init, PastIsRecorded, StageFits, CommitIsFirst, Migrations
<1> QED BY <1>1, <1>2, <1>3 DEF BootInv

\* Connecting, creating the tracking table, every failure and every restart leave
\* the migrations alone.
LEMMA NothingApplied ==
    ASSUME BootInv, NEW i \in Instances,
           \/ Connect(i) \/ LookForTracking(i) \/ CreateTracking(i)
           \/ StatementFails(i) \/ CreateUnheard(i) \/ Stop(i) \/ Restart(i)
    PROVE  BootInv'
<1> USE LastAssumption, CarriesAssumption, FaultsAssumption
    DEF BootInv, TypeOK, Stages, Migrations
<1>1. /\ UNCHANGED <<recorded, applied>>
      /\ tracking' \in BOOLEAN /\ faults' \in 0 .. MaxFaults
      /\ \E to \in {"track", "check", "create", "failed", "start"} :
            stage' = [stage EXCEPT ![i] = to]
      /\ current' \in [Instances -> 1 .. Last + 1]
      /\ \A j \in Instances : current'[j] = current[j] \/ (j = i /\ current'[j] = 1)
  <2>1. CASE Connect(i)
    BY <2>1 DEF Connect, To, tables
  <2>2. CASE LookForTracking(i)
    BY <2>2 DEF LookForTracking, To, tables
  <2>3. CASE CreateTracking(i)
    BY <2>3 DEF CreateTracking, To
  <2>4. CASE StatementFails(i) \/ CreateUnheard(i) \/ Stop(i)
    <3>1. faults' \in 0 .. MaxFaults
      BY <2>4 DEF StatementFails, CreateUnheard, Stop, Fault
    <3>2. /\ UNCHANGED <<recorded, applied, current>>
          /\ tracking' \in BOOLEAN
          /\ stage' = [stage EXCEPT ![i] = "failed"]
      BY <2>4 DEF StatementFails, CreateUnheard, Stop, To, tables
    <3> QED BY <3>1, <3>2
  <2>5. CASE Restart(i)
    <3>1. current' = [current EXCEPT ![i] = 1] /\ 1 \in 1 .. Last + 1
      BY <2>5 DEF Restart
    <3> QED BY <2>5, <3>1 DEF Restart, To, tables
  <2> QED BY <2>1, <2>2, <2>3, <2>4, <2>5
<1>2. TypeOK'
  BY <1>1
<1>3. AppliedOnceInOrder'
  BY <1>1 DEF AppliedOnceInOrder
<1>4. PastIsRecorded'
  <2> SUFFICES ASSUME NEW j \in Instances, NEW n \in Migrations, n < current'[j]
               PROVE  n \in recorded'
    BY DEF PastIsRecorded
  <2>1. current'[j] = current[j]
    BY <1>1
  <2> QED BY <1>1, <2>1 DEF PastIsRecorded
<1>5. StageFits' /\ CommitIsFirst'
  BY <1>1 DEF StageFits, CommitIsFirst
<1> QED BY <1>2, <1>3, <1>4, <1>5

\* Until its commit, a migration shows nowhere but in the stage of its instance.
LEMMA NothingCommitted ==
    ASSUME BootInv, NEW i \in Instances,
           \/ SkipRecorded(i) \/ FindUnrecorded(i) \/ RunSql(i) \/ Record(i) \/ Serve(i)
    PROVE  BootInv'
<1> USE LastAssumption, CarriesAssumption, FaultsAssumption
    DEF BootInv, TypeOK, Stages, Migrations, tables, To
<1>1. CASE SkipRecorded(i)
  <2>1. /\ current[i] \in recorded /\ UNCHANGED <<tables, faults>>
        /\ current' = [current EXCEPT ![i] = @ + 1] /\ stage' = stage /\ stage[i] = "check"
    BY <1>1 DEF SkipRecorded
  <2>2. TypeOK' /\ AppliedOnceInOrder'
    BY <2>1 DEF AppliedOnceInOrder
  <2>3. PastIsRecorded'
    BY <2>1 DEF PastIsRecorded
  <2>4. StageFits' /\ CommitIsFirst'
    BY <2>1 DEF StageFits, CommitIsFirst
  <2> QED BY <2>2, <2>3, <2>4
<1>2. CASE FindUnrecorded(i) \/ RunSql(i) \/ Serve(i)
  <2>1. /\ UNCHANGED <<tables, current, faults>>
        /\ \E to \in {"run", "record", "serving", "failed"} : stage' = [stage EXCEPT ![i] = to]
    BY <1>2 DEF FindUnrecorded, RunSql, Serve
  <2>2. TypeOK' /\ AppliedOnceInOrder' /\ PastIsRecorded'
    BY <2>1 DEF AppliedOnceInOrder, PastIsRecorded
  <2>3. StageFits'
    BY <1>2 DEF FindUnrecorded, RunSql, Serve, StageFits
  <2>4. CommitIsFirst'
    BY <2>1 DEF CommitIsFirst
  <2> QED BY <2>2, <2>3, <2>4
<1>3. CASE Record(i)
  <2>1. /\ UNCHANGED <<tables, current, faults>> /\ stage[i] = "record"
        /\ stage' = [stage EXCEPT ![i] = IF current[i] \in recorded THEN "failed" ELSE "commit"]
        /\ \A j \in Instances \ {i} : stage[j] = "commit" => current[j] # current[i]
    BY <1>3 DEF Record, Recording
  <2>2. TypeOK' /\ AppliedOnceInOrder' /\ PastIsRecorded'
    BY <2>1 DEF AppliedOnceInOrder, PastIsRecorded
  <2>3. StageFits'
    BY <2>1 DEF StageFits
  <2>4. CommitIsFirst'
    BY <2>1 DEF CommitIsFirst
  <2> QED BY <2>2, <2>3, <2>4
<1> QED BY <1>1, <1>2, <1>3

\* A commit, heard of or not, records the first migration that was missing.
LEMMA OneCommitted ==
    ASSUME BootInv, NEW i \in Instances, Commit(i) \/ CommitUnheard(i)
    PROVE  BootInv'
<1> USE LastAssumption, CarriesAssumption, FaultsAssumption DEF BootInv, TypeOK, Migrations
<1> DEFINE m == current[i]
<1>1. /\ stage[i] = "commit" /\ tracking' = tracking /\ faults' \in 0 .. MaxFaults
      /\ recorded' = recorded \cup {m}
      /\ applied' = [applied EXCEPT ![m] = @ + 1]
      /\ \E to \in {"check", "failed"} : stage' = [stage EXCEPT ![i] = to]
      /\ current' = [current EXCEPT ![i] = m + 1] \/ UNCHANGED current
  BY DEF Commit, CommitUnheard, CommitTo, To, Fault
<1>2. m \in Migrations /\ m <= Carries[i] /\ m + 1 \in 1 .. Last + 1
  BY <1>1 DEF StageFits
<1>9. /\ current' \in [Instances -> 1 .. Last + 1]
      /\ \A j \in Instances : current'[j] = current[j] \/ (j = i /\ current'[j] = m + 1)
  <2>1. CASE current' = [current EXCEPT ![i] = m + 1]
    BY <1>2, <2>1
  <2>2. CASE UNCHANGED current
    BY <2>2
  <2> QED BY <1>1, <2>1, <2>2
<1>3. m \notin recorded
  BY <1>1 DEF CommitIsFirst
<1>4. TypeOK'
  <2>1. recorded' \subseteq Migrations
    BY <1>1, <1>2
  <2>3. applied' \in [Migrations -> Nat]
    <3>1. applied[m] + 1 \in Nat
      BY <1>2
    <3> QED BY <1>1, <1>2, <3>1
  <2>2. stage' \in [Instances -> Stages]
    BY <1>1 DEF Stages
  <2> QED BY <1>1, <1>9, <2>1, <2>2, <2>3
<1>5. AppliedOnceInOrder'
  <2>1. \A n \in Migrations : applied'[n] = IF n \in recorded' THEN 1 ELSE 0
    BY <1>1, <1>2, <1>3 DEF AppliedOnceInOrder
  <2>2. \A n \in 1 .. m : n \in recorded'
    BY <1>1, <1>2 DEF PastIsRecorded
  <2> QED BY <1>1, <2>1, <2>2 DEF AppliedOnceInOrder
<1>6. PastIsRecorded'
  <2> SUFFICES ASSUME NEW j \in Instances, NEW n \in Migrations, n < current'[j]
               PROVE  n \in recorded'
    BY DEF PastIsRecorded
  <2>1. n < current[j] \/ n = m \/ (j = i /\ n < m)
    BY <1>2, <1>9
  <2> QED BY <1>1, <2>1 DEF PastIsRecorded
<1>7. StageFits'
  BY <1>1 DEF StageFits
<1>8. CommitIsFirst'
  BY <1>1, <1>2, <1>9 DEF CommitIsFirst
<1> QED BY <1>4, <1>5, <1>6, <1>7, <1>8

LEMMA NextHolds == BootInv /\ [Next]_vars => BootInv'
<1> SUFFICES ASSUME BootInv, [Next]_vars PROVE BootInv'
  OBVIOUS
<1>1. CASE Next
  BY <1>1, NothingApplied, NothingCommitted, OneCommitted DEF Next, Proceed
<1>2. CASE UNCHANGED vars
  BY <1>2 DEF vars, tables, BootInv, TypeOK, AppliedOnceInOrder, PastIsRecorded, StageFits,
              CommitIsFirst
<1> QED BY <1>1, <1>2

LEMMA InvHolds == Spec => []BootInv
  BY InitHolds, NextHolds, PTL DEF Spec

-----------------------------------------------------------------------------
\* Every variable of Boot keeps its type (main.go:124-209).
THEOREM BootTypeCorrect == Spec => []TypeOK
<1>1. BootInv => TypeOK
  BY DEF BootInv
<1> QED BY <1>1, InvHolds, PTL

\* However many instances boot and fail, every migration is applied at most once,
\* with its tracking row, and after all earlier ones (main.go:163-209).
THEOREM AlwaysAppliedOnceInOrder == Spec => []AppliedOnceInOrder
<1>1. BootInv => AppliedOnceInOrder
  BY DEF BootInv
<1> QED BY <1>1, InvHolds, PTL

\* An instance that serves has every migration that it carries (main.go:141-147).
THEOREM AlwaysMigratedWhenServing == Spec => []ServingIsMigrated
<1>1. BootInv => ServingIsMigrated
  BY CarriesAssumption, LastAssumption
  DEF BootInv, TypeOK, StageFits, PastIsRecorded, ServingIsMigrated, Migrations
<1> QED BY <1>1, InvHolds, PTL

=============================================================================
