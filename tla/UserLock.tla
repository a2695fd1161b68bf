------------------------------ MODULE UserLock ------------------------------
(***************************************************************************)
(* What WithUserSyncLock promises its callers: one caller at a time runs    *)
(* under the lock of a user, except that the lock of a caller may lapse     *)
(* while the caller runs on and never learns of it.  SyncLock implements    *)
(* it, whatever attempts are cancelled, polled again or left unanswered.    *)
(***************************************************************************)
CONSTANTS
    Callers,
    Users,
    UserOf     \* UserOf[s]: whose lock s asks for

VARIABLES
    inside,    \* the callers whose fn runs
    lapsed     \* the callers, inside or done, whose lock lapsed while they ran

lockState == <<inside, lapsed>>

Init == inside = {} /\ lapsed = {}

\* fn begins, once every caller of the user that still runs has lost the lock.
Enter(s) ==
    /\ s \notin inside
    /\ \A t \in inside : UserOf[t] = UserOf[s] => t \in lapsed
    /\ inside' = inside \cup {s}
    /\ UNCHANGED lapsed

\* The session that holds the lock of s ends.
Lapse(s) ==
    /\ s \in inside
    /\ lapsed' = lapsed \cup {s}
    /\ UNCHANGED inside

\* fn ends and what is left of the lock is given back.
Leave(s) ==
    /\ s \in inside
    /\ inside' = inside \ {s}
    /\ UNCHANGED lapsed

Next == \E s \in Callers : Enter(s) \/ Lapse(s) \/ Leave(s)

Spec == Init /\ [][Next]_lockState

=============================================================================
