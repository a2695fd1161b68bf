-------------------------------- MODULE Boot --------------------------------
(***************************************************************************)
(* Startup (main.go: run, connect, migrate, serve) of several instances of *)
(* the program that boot on one database at once: each applies the         *)
(* migrations its binary carries, every one in a transaction with its      *)
(* tracking row, and then serves.  An instance may fail or be killed at    *)
(* any statement, a commit may go unheard, and the platform starts it      *)
(* again.                                                                  *)
(***************************************************************************)
EXTENDS Naturals

CONSTANTS
    Instances,
    Last,        \* the migrations are 1 .. Last, in the order of their filenames
    Carries,     \* Carries[i]: how many of them the binary of i has
    Repeatable,  \* those whose SQL succeeds a second time (DROP TABLE IF EXISTS)
    MaxFaults    \* bound: how many failures of other causes happen

ASSUME LastAssumption == Last \in Nat
ASSUME CarriesAssumption == Carries \in [Instances -> 0 .. Last]
ASSUME FaultsAssumption == MaxFaults \in Nat

Migrations == 1 .. Last

VARIABLES
    tracking,  \* whether the table schema_migrations is there
    recorded,  \* its committed rows
    applied,   \* applied[m]: how many times the SQL of m has been committed
    stage,     \* stage[i]: the statement that i is at
    current,   \* current[i]: the migration that i is at
    faults

tables == <<tracking, recorded, applied>>
vars == <<tables, stage, current, faults>>

Stages ==
    {"start", "track", "create", "check", "run", "record", "commit", "serving", "failed"}

TypeOK ==
    /\ tracking \in BOOLEAN
    /\ recorded \subseteq Migrations
    /\ applied \in [Migrations -> Nat]
    /\ stage \in [Instances -> Stages]
    /\ current \in [Instances -> 1 .. Last + 1]
    /\ faults \in 0 .. MaxFaults

Init ==
    /\ tracking = FALSE
    /\ recorded = {}
    /\ applied = [m \in Migrations |-> 0]
    /\ stage = [i \in Instances |-> "start"]
    /\ current = [i \in Instances |-> 1]
    /\ faults = 0

-----------------------------------------------------------------------------
To(i, from, to) == stage[i] = from /\ stage' = [stage EXCEPT ![i] = to]

\* Others whose open transaction has run the SQL of m, or also recorded m.
Running(i, m) == {j \in Instances \ {i} : stage[j] \in {"record", "commit"} /\ current[j] = m}
Recording(i, m) == {j \in Instances \ {i} : stage[j] = "commit" /\ current[j] = m}

Connect(i) ==
    /\ To(i, "start", "track")
    /\ UNCHANGED <<tables, current, faults>>

\* CREATE TABLE IF NOT EXISTS looks first ...
LookForTracking(i) ==
    /\ To(i, "track", IF tracking THEN "check" ELSE "create")
    /\ UNCHANGED <<tables, current, faults>>

\* ... and creates afterwards: a table that another instance has created in
\* between makes it fail.
CreateTracking(i) ==
    /\ To(i, "create", IF tracking THEN "failed" ELSE "check")
    /\ tracking' = TRUE
    /\ UNCHANGED <<recorded, applied, current, faults>>

-----------------------------------------------------------------------------
(* One migration: the transaction begins with the question whether m has   *)
(* been recorded.                                                          *)

SkipRecorded(i) ==
    /\ current[i] <= Carries[i] /\ current[i] \in recorded
    /\ To(i, "check", "check")
    /\ current' = [current EXCEPT ![i] = @ + 1]
    /\ UNCHANGED <<tables, faults>>

\* Mutant of FindUnrecorded: nothing is ever skipped.
FindAny(i) ==
    /\ current[i] <= Carries[i]
    /\ To(i, "check", "run")
    /\ UNCHANGED <<tables, current, faults>>

FindUnrecorded(i) ==
    /\ current[i] <= Carries[i] /\ current[i] \notin recorded
    /\ To(i, "check", "run")
    /\ UNCHANGED <<tables, current, faults>>

\* Mutant of RunSql: the COMMIT at the end of the file commits it before its
\* tracking row is there.
RunSqlCommitting(i) ==
    LET m == current[i] IN
    /\ m \in Repeatable \/ Running(i, m) = {}
    /\ IF m \in Repeatable \/ applied[m] = 0
       THEN /\ To(i, "run", "record")
            /\ applied' = [applied EXCEPT ![m] = @ + 1]
       ELSE To(i, "run", "failed") /\ UNCHANGED applied
    /\ UNCHANGED <<tracking, recorded, current, faults>>

\* The SQL waits for an open transaction that has created or altered the same
\* tables, and fails when that one has committed, unless it only drops a table:
\* then it finds nothing to drop.
RunSql(i) ==
    LET m == current[i] IN
    /\ m \in Repeatable \/ Running(i, m) = {}
    /\ To(i, "run", IF m \in Repeatable \/ applied[m] = 0 THEN "record" ELSE "failed")
    /\ UNCHANGED <<tables, current, faults>>

\* The tracking row waits for, and collides with, another one of the same name.
Record(i) ==
    /\ Recording(i, current[i]) = {}
    /\ To(i, "record", IF current[i] \in recorded THEN "failed" ELSE "commit")
    /\ UNCHANGED <<tables, current, faults>>

CommitTo(i, to) ==
    /\ To(i, "commit", to)
    /\ recorded' = recorded \cup {current[i]}
    /\ applied' = [applied EXCEPT ![current[i]] = @ + 1]
    /\ UNCHANGED tracking

Commit(i) ==
    /\ CommitTo(i, "check")
    /\ current' = [current EXCEPT ![i] = @ + 1]
    /\ UNCHANGED faults

\* No migration is left.
Serve(i) ==
    /\ current[i] > Carries[i]
    /\ To(i, "check", "serving")
    /\ UNCHANGED <<tables, current, faults>>

-----------------------------------------------------------------------------
(* Failures.  An open transaction is rolled back; every error ends run.    *)

Fault == faults < MaxFaults /\ faults' = faults + 1

\* Mutant of StatementFails: run goes on although migrate has failed.
StatementFailsServing(i) ==
    /\ Fault
    /\ stage[i] \in {"track", "create", "check", "run", "record", "commit"}
    /\ stage' = [stage EXCEPT ![i] = "serving"]
    /\ UNCHANGED <<tables, current>>

StatementFails(i) ==
    /\ Fault
    /\ stage[i] \in {"start", "track", "create", "check", "run", "record", "commit"}
    /\ stage' = [stage EXCEPT ![i] = "failed"]
    /\ UNCHANGED <<tables, current>>

\* The statement has taken effect, and the instance does not hear of it.
CommitUnheard(i) ==
    /\ Fault
    /\ CommitTo(i, "failed")
    /\ UNCHANGED current

CreateUnheard(i) ==
    /\ Fault
    /\ ~tracking
    /\ To(i, "create", "failed")
    /\ tracking' = TRUE
    /\ UNCHANGED <<recorded, applied, current>>

\* The platform stops a serving instance, or it cannot listen.
Stop(i) ==
    /\ Fault
    /\ To(i, "serving", "failed")
    /\ UNCHANGED <<tables, current>>

\* The platform starts the instance again.
Restart(i) ==
    /\ To(i, "failed", "start")
    /\ current' = [current EXCEPT ![i] = 1]
    /\ UNCHANGED <<tables, faults>>

-----------------------------------------------------------------------------
Proceed(i) ==
    \/ Connect(i) \/ LookForTracking(i) \/ CreateTracking(i)
    \/ SkipRecorded(i) \/ FindUnrecorded(i) \/ RunSql(i) \/ Record(i) \/ Commit(i)
    \/ Serve(i)

Next ==
    \E i \in Instances :
        \/ Proceed(i) \/ Restart(i)
        \/ StatementFails(i) \/ CommitUnheard(i) \/ CreateUnheard(i) \/ Stop(i)

Spec == Init /\ [][Next]_vars

\* An instance runs on while it can, and is started again whenever it has ended.
FairSpec == Spec /\ \A i \in Instances : WF_vars(Proceed(i)) /\ WF_vars(Restart(i))

-----------------------------------------------------------------------------
(* Properties.                                                             *)

\* Whatever fails and whoever boots beside it, a migration is applied once or
\* never, is recorded with its effect, and is never applied before an earlier one
\* (README.md:9-10, 31-33; main.go:163-209).
AppliedOnceInOrder ==
    /\ \A m \in Migrations : applied[m] = IF m \in recorded THEN 1 ELSE 0
    /\ \A m \in recorded : 1 .. m \subseteq recorded

\* Nothing is served on a schema that lacks a migration of the binary
\* (README.md:29, main.go:141-147).
ServingIsMigrated ==
    \A i \in Instances : stage[i] = "serving" => 1 .. Carries[i] \subseteq recorded

\* However often instances lose the race for a migration or fail, once failures of
\* other causes have stopped, all of them come to serve.
AllServe == <>[](\A i \in Instances : stage[i] = "serving")

=============================================================================
