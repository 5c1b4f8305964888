----------------------------- MODULE MCPublic -----------------------------
(***************************************************************************)
(* The parts behind the public booking page that do not share state:       *)
(* retried bookings (Idempotency) and the slot listing (Slots).  One part  *)
(* moves in each behaviour, so that their states add up and do not         *)
(* multiply.                                                               *)
(***************************************************************************)
EXTENDS Idempotency, Slots

VARIABLE part

\* Two requests repeat a body; the third reuses the key for another one.
MCBody == [r \in Request |-> IF r = "t" THEN "other" ELSE "same"]

-----------------------------------------------------------------------------
(* Two hosts: ana on UTC, bo in a zone ahead of it that changes between    *)
(* the two dates.                                                          *)

Both(a, b) == [ana |-> a, bo |-> b]

Hours(s, e) == [s |-> s, e |-> e]

Rule(s, e) == [day |-> 0, s |-> s, e |-> e]

AnaAndRotation == Both("required", "rotation")

MCProfiles ==
    {[mode |-> "fixed", role |-> AnaAndRotation, down |-> {}],
     [mode |-> "round_robin", role |-> AnaAndRotation, down |-> {}],
     [mode |-> "round_robin", role |-> AnaAndRotation, down |-> {"bo"}],
     [mode |-> "collective", role |-> Both("required", "required"), down |-> {}]}

MCPool == <<"ana", "bo">>

MCOffset == Both([d \in Dates |-> 0], [d \in Dates |-> IF d <= 0 THEN 1 ELSE 2])

MCRuleInputs == Both({Rule(0, 3), Rule(3, 5)}, {Rule(1, 5), Rule(-1, 5)})

MCHourInputs == {Hours(1, 4)}

MCOverrideDates == Both({0, 1}, {})

MCMeetingInputs == Both({Hours(3, 5)}, {})

MCExternalInputs == Both({Hours(4, 5)}, {})

-----------------------------------------------------------------------------

mcVars == <<part, vars, slotVars>>

MCInit == part \in {"keys", "slots"} /\ Init /\ SlotsInit

KeysMove == part = "keys" /\ UNCHANGED <<part, slotVars>>

SlotsMove == part = "slots" /\ UNCHANGED <<part, vars>>

MCNext ==
    \/ Next /\ KeysMove
    \/ SlotsNext /\ SlotsMove

MCSpec ==
    /\ MCInit /\ [][MCNext]_mcVars
    /\ \A r \in Request : WF_mcVars(Handle(r) /\ KeysMove)
    /\ WF_mcVars(Purge /\ KeysMove)
=============================================================================
