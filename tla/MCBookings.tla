----------------------------- MODULE MCBookings -----------------------------
EXTENDS Bookings, TLC

CONSTANTS b1, b2, ana, bo, cy, solo, team, x, y

MCHost == {ana, bo, cy}

NoRole == [h \in MCHost |-> "none"]

\* Alphabetical: the (priority, user id) order of the members.
MCRank == ana :> 1 @@ bo :> 2 @@ cy :> 3

\* A short meeting with one fixed host and an optional guest.
Solo == [mode |-> "fixed", strategy |-> "priority",
         role |-> [NoRole EXCEPT ![ana] = "required", ![cy] = "optional"],
         rank |-> MCRank, duration |-> 2, maxActive |-> 1]

\* A longer meeting that rotates between two hosts.
Team == [mode |-> "round_robin", strategy |-> "even",
         role |-> [NoRole EXCEPT ![ana] = "rotation", ![bo] = "rotation"],
         rank |-> MCRank, duration |-> 4, maxActive |-> 0]

MCConfig == solo :> Solo @@ team :> Team

MCShared == {<<bo, cy>>, <<cy, bo>>}

Symmetry == Permutations({b1, b2}) \cup Permutations({x, y})
=============================================================================
