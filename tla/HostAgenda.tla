----------------------------- MODULE HostAgenda -----------------------------
(***************************************************************************)
(* What the booking ledger promises, without tables, routing or clocks: a  *)
(* slot is held for a set of hosts, never clashes with another held slot,  *)
(* and once released is never held again.                                  *)
(***************************************************************************)
CONSTANTS
    Slot,              \* names of the slots that can be held
    Person,            \* the people slots are held for
    Overlap(_,_,_,_),  \* do two intervals meet?
    Clash(_,_)         \* can two people not attend different slots at once?

VARIABLES
    held,      \* the entry of each slot that is held
    released   \* slots given back

hvars == <<held, released>>

Meets(x, y) ==
    /\ Overlap(x.start, x.end, y.start, y.end)
    /\ \E p \in x.who, q \in y.who : Clash(p, q)

Init == held = [s \in {} |-> {}] /\ released = {}

\* Hold a slot that was never held, or move a held one, where it meets no
\* other held slot.
Hold(s) ==
    /\ s \notin released
    /\ DOMAIN held' = DOMAIN held \cup {s}
    /\ \A r \in DOMAIN held \ {s} : held'[r] = held[r] /\ ~Meets(held'[s], held[r])
    /\ held'[s].who \subseteq Person
    /\ UNCHANGED released

\* Give a slot back.
Release(s) ==
    /\ s \in DOMAIN held
    /\ released' = released \cup {s}
    /\ held' = [r \in DOMAIN held \ {s} |-> held[r]]

\* A person leaves and gives up every place.
Leave(p) ==
    /\ held' = [r \in DOMAIN held |-> [held[r] EXCEPT !.who = @ \ {p}]]
    /\ UNCHANGED released

Next ==
    \/ \E s \in Slot : Hold(s) \/ Release(s)
    \/ \E p \in Person : Leave(p)

Spec == Init /\ [][Next]_hvars
=============================================================================
