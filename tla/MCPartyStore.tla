---------------------------- MODULE MCPartyStore ----------------------------
(* Small instances of PartyStore.                                          *)
EXTENDS PartyStore, TLC

MCUsers == 1 .. 3
MCUsers2 == 1 .. 2
MCInviteIds == 1 .. 2

\* Invite ids are compared for equality only, like requests.
Symmetry == Permutations(Requests) \cup Permutations(InviteIds)

\* The calls that decide who is a member; the others are left to the other runs.
JoinsAndLeaves ==
    \A r \in Requests : tx[r].op \in {"none", "SendInvite", "AcceptInvite", "LeaveParty"}

=============================================================================
