------------------------------ MODULE Accounts ------------------------------
(***************************************************************************)
(* The parts of a workspace that its members administer: the members       *)
(* themselves (Members), how one of them signs in (Sessions), the agents   *)
(* that act for one (Agents), their event types (EventTypes), the calendar *)
(* accounts of a host (Connections) and the key that the operator guards   *)
(* (KeyVault).  They share no state, and their steps interleave.           *)
(***************************************************************************)
EXTENDS Members, Sequences

CONSTANTS
    Cookie, Link, Visit, MaxPasswords,
    Grant, TokenRequest, MaxRefresh,
    Type, Slug, Admin, Colleague, Hosts, Asker, Visitor,
    Casts, Provider, Calendars, Home, Bodies, MaxCalls,
    Process, Chosen, LegacyKey, RecoveryKey, FirstRandom, MaxStarts, MaxEdits

VARIABLES
    account, session, link, visit, opened, doomed, dropped, spared, passwords,
    member, client, grant, held, exchange, astray,
    type, booked, ask, linked, crossed,
    cast, conn, age, saved, pick, picker, hand, event, filed, told, calls, latest, wanted,
    overtaken, revived, moved, strayed, spilled,
    env, escrow, file, primary, recovery, data, proc, fresh, starts, edits, escrowed, mishaps

S == INSTANCE Sessions

A == INSTANCE Agents WITH Exchange <- TokenRequest

E == INSTANCE EventTypes

C == INSTANCE Connections WITH
    MaxRequests <- MaxCalls,
    requests <- calls, form <- picker, crossed <- overtaken, astray <- moved

K == INSTANCE KeyVault

\* No link goes by the name that stands for none.
ASSUME LinkAssumption == S!NoId \notin Link

\* A host list gives each member one of the roles of the schema, or none.
Role == {"none", "required", "rotation", "optional"}

ASSUME HostsAssumption == Hosts \subseteq [E!Member -> Role]

\* The providers of calendar_connections.
ASSUME ProviderAssumption ==
    \A a \in DOMAIN Provider : Provider[a] \in {"google", "microsoft", "caldav"}

\* A calendar is a path, and an account is bound to one of its own at each site.
ASSUME CalendarsAssumption ==
    \A a \in DOMAIN Provider : \A s \in DOMAIN Calendars[a] :
        Calendars[a][s] \subseteq Seq(STRING) \ {<<>>} /\ Home[a][s] \in Calendars[a][s]

\* A picker sends calendars, and flags some of them.
ASSUME BodiesAssumption ==
    \A body \in Bodies :
        body.rows \subseteq Seq(STRING) \ {<<>>} /\ body.dests \subseteq body.rows

\* No secret has one of the two numbers that stand for no key and for an empty key file.
ASSUME VaultAssumption ==
    /\ Chosen \subseteq Nat \ {K!None, K!Empty}
    /\ FirstRandom \in Nat /\ FirstRandom > K!Empty
    /\ RecoveryKey \in Nat

sVars == <<account, session, link, visit, opened, doomed, dropped, spared, passwords>>
aVars == <<member, client, grant, held, exchange, astray>>
eVars == <<type, booked, ask, linked, crossed>>

cVars == <<cast, conn, age, saved, pick, picker, hand, event, filed, told, calls, latest,
           wanted, overtaken, revived, moved, strayed, spilled>>

kVars == <<env, escrow, file, primary, recovery, data, proc, fresh, starts, edits, escrowed,
           mishaps>>

accountsVars == <<vars, sVars, aVars, eVars, cVars, kVars>>

AccountsInit ==
    /\ Init /\ S!SessionsInit /\ A!AgentsInit /\ E!EventTypesInit /\ C!ConnectionsInit
    /\ K!VaultInit

MembersMove == Next /\ UNCHANGED <<sVars, aVars, eVars, cVars, kVars>>
SessionsMove == S!SessionsNext /\ UNCHANGED <<vars, aVars, eVars, cVars, kVars>>
AgentsMove == A!AgentsNext /\ UNCHANGED <<vars, sVars, eVars, cVars, kVars>>
TypesMove == E!EventTypesNext /\ UNCHANGED <<vars, sVars, aVars, cVars, kVars>>
CalendarsMove == C!ConnectionsNext /\ UNCHANGED <<vars, sVars, aVars, eVars, kVars>>
KeysMove == K!VaultNext /\ UNCHANGED <<vars, sVars, aVars, eVars, cVars>>

AccountsNext ==
    MembersMove \/ SessionsMove \/ AgentsMove \/ TypesMove \/ CalendarsMove \/ KeysMove

AccountsSpec == AccountsInit /\ [][AccountsNext]_accountsVars

-----------------------------------------------------------------------------
(* What each part promises, as the conjunction of the properties that its  *)
(* module states and explains.                                             *)

\* Sessions: a link that was mailed opens one session at most, and a new password ends the
\* sessions that were open before it, bar that of a cookie sent with an API key.
SignInIsSound == S!LinkOpensOne /\ S!NewPasswordSignsOut

\* Agents: in every step the client of a live connection can still refresh it, and a revoked
\* connection does not come back through a refresh that was under way.
ConnectionsAsGranted == [][A!ClientCanRefresh' /\ A!StaysRevoked]_accountsVars

\* EventTypes: the link of a booking keeps leading to its event type.
LinksHold == E!LinksHold

\* Connections: a host's bookings are written to one account, and the calendar that the
\* picker shows lies in it; an account is connected exactly if the host left it so, with a
\* calendar of its own; an update or a cancel that reports success has reached the event,
\* wherever the destination moved; and a CalDAV password goes to its own servers only; all
\* with the exceptions that Connections names.
AccountsInOrder ==
    /\ C!OneDestination
    /\ C!PickInDestination
    /\ C!AsTheHostLeftIt
    /\ C!CalendarOfAccount
    /\ C!ReportedDoneIsDone
    /\ C!CredentialsStayHome

\* KeyVault: the keystore holds the key that the data is encrypted under, the secret that
\* opens it is not lost, and the recovery secret opens it too where there is one.
DataStaysReadable == K!DataReadable /\ K!SecretKept /\ K!RecoveryOpens
=============================================================================
