----------------------------- MODULE MCAccounts -----------------------------
(***************************************************************************)
(* Accounts for TLC: one part moves in each behaviour, so that the states  *)
(* of the parts add up and do not multiply.                                *)
(***************************************************************************)
EXTENDS Accounts, TLC

VARIABLE part

MCHosts == {[ana |-> "none", bo |-> "required"]}

\* Two accounts of one provider or of two.  c2 can be connected at two sites; its calendars at
\* the first lie on two servers, one of them shared with c1 and inside its calendar.
MCCasts == {{"g1", "g2"}, {"g1", "m1"}, {"m1", "m2"}, {"g1", "c1"}, {"c1", "c2"}}

MCProvider == [g1 |-> "google", g2 |-> "google", m1 |-> "microsoft", m2 |-> "microsoft",
               c1 |-> "caldav", c2 |-> "caldav"]

MCCalendars ==
    [a \in DOMAIN MCProvider |->
        CASE a = "c1" -> [here |-> {<<"s", "x">>, <<"s", "x", "y">>}]
          [] a = "c2" -> [here |-> {<<"s", "x", "y">>, <<"t", "z">>}, there |-> {<<"u", "w">>}]
          [] a \in {"g2", "m2"} -> [here |-> {<<"primary">>, <<"team">>}]
          [] OTHER -> [here |-> {<<"primary">>, <<"work">>}]]

MCHome ==
    [a \in DOMAIN MCProvider |->
        CASE a = "c1" -> [here |-> <<"s", "x">>]
          [] a = "c2" -> [here |-> <<"t", "z">>, there |-> <<"u", "w">>]
          [] OTHER -> [here |-> <<"primary">>]]

\* The calendars of an account with one of them as destination, or with none, as the page sends
\* them; and a body of no account's page, with two destinations.
MCBodies ==
    {[rows |-> MCCalendars["g1"].here, dests |-> {<<"work">>}],
     [rows |-> MCCalendars["c2"].here, dests |-> {<<"s", "x", "y">>}],
     [rows |-> MCCalendars["c2"].here, dests |-> {}],
     [rows |-> {<<"team">>, <<"u", "w">>}, dests |-> {<<"team">>, <<"u", "w">>}]}

mcVars == <<part, accountsVars>>

\* Requests that overlap, event types and processes are alike, and so are the cookies, grants and
\* slugs.  The sets of each kind are one and the same set in the cfg.
Symmetry == Permutations(Request) \cup Permutations(Cookie)

\* A part that is not taken stays in one of its initial states.
MCInit ==
    /\ part \in {"members", "sessions", "agents", "types", "calendars", "keys"}
    /\ AccountsInit
    /\ part # "sessions" => account.emailLogin
    /\ part # "calendars" => cast = {"g1", "m1"}
    /\ part # "keys" => env = 2 /\ escrow /\ data = {}

MCNext ==
    /\ UNCHANGED part
    /\ \/ part = "members" /\ MembersMove
       \/ part = "sessions" /\ SessionsMove
       \/ part = "agents" /\ AgentsMove
       \/ part = "types" /\ TypesMove
       \/ part = "calendars" /\ CalendarsMove
       \/ part = "keys" /\ KeysMove

MCSpec == MCInit /\ [][MCNext]_mcVars
=============================================================================
