---------------------------- MODULE Connections ----------------------------
(***************************************************************************)
(* The calendar accounts of one host: calendar_connections, the picker's   *)
(* rows of connection_calendars, and the operations that act through them  *)
(* (internal/calendar, connstore, oauthstore, gcal, calendar/microsoft,    *)
(* caldav, and internal/handler/calendar.go).                              *)
(*                                                                         *)
(* An operation on a calendar loads the row of an account, resolves the    *)
(* calendar, writes the token back (SavingTokenSource saves on its first   *)
(* use whether or not the token was refreshed) and only then calls the     *)
(* provider.  The host's own requests fall between those steps.            *)
(*                                                                         *)
(* A calendar is a path; CalDAV's are URLs, server first, and have more    *)
(* than one segment.  A CalDAV account goes by its user name alone, so it  *)
(* can be connected at one site and then at another: what it can reach     *)
(* depends on the site that its password is for.  An account of Google or  *)
(* Microsoft has one site.  check_conflicts is left out (free/busy asks    *)
(* any of the calendars), and so are the rows from before the provider of  *)
(* an event was stamped.  The two queries of eventConn are one step.       *)
(***************************************************************************)
EXTENDS Naturals, Sequences, SequencesExt

CONSTANTS
    Casts,       \* the sets of accounts that a host may have
    Provider,    \* the provider of every account
    Calendars,   \* the calendars of every account at each of its sites
    Home,        \* the calendar an account is bound to when it is connected at a site
    Bodies,      \* what a picker may send: [rows, dests], for whatever account
    MaxRequests  \* bound on the requests and operations

Accounts == DOMAIN Provider

Sites(a) == DOMAIN Calendars[a]

None == <<>>

VARIABLES
    cast,      \* the accounts of this host
    conn,      \* calendar_connections: on, is_destination, calendar_id, whose tokens, for which site
    age,       \* the connected accounts by created_at
    saved,     \* connection_calendars: the calendars saved for an account
    pick,      \* those of them with is_destination
    form,      \* a request of the picker, after it saw that the account exists
    hand,      \* an operation under way, with what it has read
    event,     \* a booking's event at the provider
    filed,     \* booking_hosts.external_provider and external_calendar_id
    told,      \* what the last update or cancel of the event reported
    requests,  \* how many there were
    latest,    \* how often each account was connected
    wanted,    \* the accounts the host connected and did not disconnect
    crossed,   \* did the picker save for an account that was disconnected meanwhile?
    revived,   \* accounts written back by an operation that had loaded an older row
    astray,    \* was the event's account not the destination when the operation loaded?
    strayed,   \* accounts whose saved calendars may be of another site than their password
    spilled    \* accounts whose password was sent to a server that it is not for

connVars == <<cast, conn, age, saved, pick, form, hand, event, filed, told, requests, latest,
              wanted, crossed, revived, astray, strayed, spilled>>

rowVars == <<conn, age>>

eventVars == <<event, filed, told, astray, spilled>>

hostVars == <<form, latest, wanted, crossed>>

NoRow == [on |-> FALSE, dest |-> FALSE, cal |-> None, grant |-> 0, site |-> "none"]

NoForm == [acct |-> "none", rows |-> {}, dests |-> {}]

NoHand == [op |-> "none", acct |-> "none", cal |-> None, row |-> None, grant |-> 0,
           site |-> "none", pc |-> "idle"]

NoEvent == [on |-> "none", cal |-> None, moved |-> FALSE]

NotYet == [op |-> "none", result |-> "none"]

NotFiled == [provider |-> "none", cal |-> None]

OAuth == {a \in Accounts : Provider[a] # "caldav"}

Connected(a) == conn[a].on

IsDestination(a) == conn[a].dest

ConnectionsInit ==
    /\ cast \in Casts
    /\ conn = [a \in Accounts |-> NoRow] /\ age = <<>>
    /\ saved = [a \in Accounts |-> {}] /\ pick = [a \in Accounts |-> {}]
    /\ form = NoForm /\ hand = NoHand
    /\ event = NoEvent /\ filed = NotFiled /\ told = NotYet
    /\ requests = 0 /\ latest = [a \in Accounts |-> 0] /\ wanted = {}
    /\ crossed = FALSE /\ revived = {} /\ astray = FALSE
    /\ strayed = {} /\ spilled = {}

Budget == requests < MaxRequests /\ requests' = requests + 1

-----------------------------------------------------------------------------
(* The rows.                                                               *)

\* A slip: the destination is looked for among the accounts of the same provider.
ResolveFlagsPerProvider(a) ==
    IF Connected(a) THEN IsDestination(a)
    ELSE \A b \in Accounts : Provider[b] = Provider[a] => ~IsDestination(b)

\* A row that exists keeps its flag; a new one is the destination if there is none.
ResolveFlags(a) == IF Connected(a) THEN IsDestination(a)
                   ELSE \A b \in Accounts : ~IsDestination(b)

\* The rows by created_at without the row of one account, which is there once at most.
Without(rows, a) ==
    IF \E i \in DOMAIN rows : rows[i] = a
    THEN RemoveAt(rows, CHOOSE i \in DOMAIN rows : rows[i] = a)
    ELSE rows

\* DELETE and INSERT in one transaction: the row is the youngest after it.
saveToken(a, calendar, grant, site) ==
    /\ conn' = [conn EXCEPT ![a] = [on |-> TRUE, dest |-> ResolveFlags(a), cal |-> calendar,
                                    grant |-> grant, site |-> site]]
    /\ age' = Append(Without(age, a), a)

\* The account may be known at another site, by its row or by an operation that loaded it: the
\* calendars saved for it stay.
Granted(a, s) ==
    /\ latest' = [latest EXCEPT ![a] = @ + 1]
    /\ wanted' = wanted \cup {a}
    /\ revived' = revived \ {a}
    /\ strayed' = IF \/ Connected(a) /\ conn[a].site # s
                     \/ hand.acct = a /\ hand.site # s
                  THEN strayed \cup {a} ELSE strayed

\* The callback of Google and Microsoft: tokens for a code, saved for the account they name.
Exchange(a, s) ==
    /\ Budget
    /\ a \in cast \cap OAuth
    /\ Granted(a, s)
    /\ saveToken(a, Home[a][s], latest[a] + 1, s)
    /\ UNCHANGED <<cast, saved, pick, form, hand, eventVars, crossed>>

\* CalDAV stores a password where the others store tokens.
saveConnection(a, s) == saveToken(a, Home[a][s], latest[a] + 1, s)

\* The calendars that were found join those of the account, whose flags are kept; a failure
\* leaves some of them out.
seedDiscoveredCalendars(a, s) ==
    \E found \in SUBSET Calendars[a][s] : saved' = [saved EXCEPT ![a] = @ \cup found]

Connect(a, s) ==
    /\ Budget
    /\ a \in cast \ OAuth
    /\ Granted(a, s)
    /\ saveConnection(a, s)
    /\ seedDiscoveredCalendars(a, s)
    /\ UNCHANGED <<cast, pick, form, hand, eventVars, crossed>>

-----------------------------------------------------------------------------
(* What the host does on the calendar page.                                *)

MoveDestination(a) ==
    conn' = [b \in Accounts |-> [conn[b] EXCEPT !.dest = (b = a /\ conn[b].on)]]

\* A slip: the pick inside another account stays.
SetDestinationOnly(a) ==
    /\ Budget
    /\ Connected(a)
    /\ MoveDestination(a)
    /\ crossed' = FALSE
    /\ UNCHANGED <<cast, age, saved, pick, form, hand, eventVars, latest, wanted, revived, strayed>>

SetDestination(a) ==
    /\ Budget
    /\ Connected(a)
    /\ MoveDestination(a)
    /\ pick' = [b \in Accounts |-> IF b = a THEN pick[b] ELSE {}]
    /\ crossed' = FALSE
    /\ UNCHANGED <<cast, age, saved, form, hand, eventVars, latest, wanted, revived, strayed>>

\* The first row by created_at of those that remain is promoted.
DisconnectOne(a) ==
    LET rest == Without(age, a) IN
    /\ Budget
    /\ Connected(a)
    /\ age' = rest
    /\ conn' = [b \in Accounts |->
                   IF b = a THEN NoRow
                   ELSE IF IsDestination(a) /\ rest # <<>> /\ b = Head(rest)
                        THEN [conn[b] EXCEPT !.dest = TRUE]
                        ELSE conn[b]]
    /\ saved' = [saved EXCEPT ![a] = {}] /\ pick' = [pick EXCEPT ![a] = {}]
    /\ wanted' = wanted \ {a} /\ revived' = revived \ {a}
    /\ UNCHANGED <<cast, form, hand, eventVars, latest, crossed, strayed>>

\* A slip: only the rows of one provider are deleted.
DisconnectPrimary ==
    /\ Budget
    /\ age # <<>>
    /\ conn' = [a \in Accounts |-> IF Provider[a] = "google" THEN NoRow ELSE conn[a]]
    /\ age' = SelectSeq(age, LAMBDA a : Provider[a] # "google")
    /\ saved' = [a \in Accounts |-> {}] /\ pick' = [a \in Accounts |-> {}]
    /\ wanted' = {} /\ revived' = {} /\ crossed' = FALSE
    /\ UNCHANGED <<cast, form, hand, eventVars, latest, strayed>>

Disconnect ==
    /\ Budget
    /\ age # <<>>
    /\ conn' = [a \in Accounts |-> NoRow] /\ age' = <<>>
    /\ saved' = [a \in Accounts |-> {}] /\ pick' = [a \in Accounts |-> {}]
    /\ wanted' = {} /\ revived' = {} /\ crossed' = FALSE
    /\ UNCHANGED <<cast, form, hand, eventVars, latest, strayed>>

\* The picker sends calendars and which of them are the destination; nobody compares them with
\* those of the account.
accountExists(a, body) ==
    /\ Budget
    /\ form = NoForm
    /\ Connected(a)
    /\ form' = [acct |-> a, rows |-> body.rows, dests |-> body.dests]
    /\ UNCHANGED <<cast, rowVars, saved, pick, hand, eventVars, latest, wanted, crossed, revived,
                   strayed>>

\* The transaction does not look again whether the account exists.
SetAccountCalendars ==
    LET a == form.acct
        claims == form.dests # {}
        theirs == Connected(a) /\ form.rows \subseteq Calendars[a][conn[a].site]
    IN
    /\ form # NoForm
    /\ IF claims THEN MoveDestination(a) ELSE UNCHANGED conn
    /\ pick' = [b \in Accounts |-> IF b = a THEN form.dests
                                   ELSE IF claims THEN {} ELSE pick[b]]
    /\ saved' = [saved EXCEPT ![a] = form.rows]
    /\ crossed' = IF Connected(a) THEN crossed /\ ~claims ELSE TRUE
    /\ strayed' = IF theirs THEN strayed ELSE strayed \cup {a}
    /\ form' = NoForm
    /\ UNCHANGED <<cast, requests, age, hand, eventVars, latest, wanted, revived>>

-----------------------------------------------------------------------------
(* Operations on the calendars, one at a time.                             *)

Take(op, a, pc) ==
    hand' = [op |-> op, acct |-> a, cal |-> conn[a].cal, row |-> conn[a].cal,
             grant |-> conn[a].grant, site |-> conn[a].site, pc |-> pc]

Answer(op, result) == told' = [op |-> op, result |-> result] /\ hand' = NoHand

\* Free/busy and the list of calendars: a client for a row, which saves the token.
freeBusyConnections(a) ==
    /\ Budget
    /\ hand = NoHand
    /\ Connected(a) /\ a \in OAuth
    /\ Take("read", a, "save")
    /\ UNCHANGED <<cast, rowVars, saved, pick, eventVars, hostVars, revived, strayed>>

\* Free/busy of CalDAV: the password of a row...
conflictConns(a) ==
    /\ Budget
    /\ hand = NoHand
    /\ Connected(a) /\ a \notin OAuth
    /\ Take("read", a, "resolve")
    /\ UNCHANGED <<cast, rowVars, saved, pick, eventVars, hostVars, revived, strayed>>

CreateEvent(a) ==
    /\ Budget
    /\ hand = NoHand
    /\ event = NoEvent /\ filed = NotFiled
    /\ IsDestination(a)
    /\ Take("create", a, "resolve")
    /\ UNCHANGED <<cast, rowVars, saved, pick, eventVars, hostVars, revived, strayed>>

\* An update or a cancel of a filed event, until a cancel was reported done.
Pending(op) ==
    /\ Budget
    /\ hand = NoHand
    /\ filed # NotFiled
    /\ told # [op |-> "cancel", result |-> "ok"]
    /\ event' = IF op = "update" THEN [event EXCEPT !.moved = FALSE] ELSE event

\* Google and Microsoft act as the destination, if it is one of theirs; if not, they report
\* success without a call.
DestinationClient(op) ==
    LET theirs == {a \in Accounts : IsDestination(a) /\ Provider[a] = filed.provider} IN
    /\ Pending(op)
    /\ filed.provider # "caldav"
    /\ astray' = (event # NoEvent /\ ~IsDestination(event.on))
    /\ \/ theirs = {} /\ Answer(op, "ok")
       \/ \E a \in theirs : Take(op, a, "resolve") /\ told' = NotYet
    /\ UNCHANGED <<cast, rowVars, saved, pick, filed, spilled, hostVars, revived,
                   strayed>>

Collections(a) == {conn[a].cal} \cup saved[a]

\* The accounts that can hold a resource: one of their collections contains it.
Holding(url) ==
    {a \in Accounts : /\ Connected(a) /\ Provider[a] = "caldav"
                      /\ \E c \in Collections(a) : IsPrefix(c, url)}

\* A slip: the account is the destination, as it is for a new event.
destinationOwner(url, calendar) ==
    {a \in Accounts : IsDestination(a) /\ Provider[a] = "caldav"}

\* The recorded calendar decides, then the deepest collection; a tie is refused.
pickEventOwner(url, calendar) ==
    LET exact == {a \in Holding(url) : calendar \in Collections(a)}
        best == IF exact # {} THEN exact ELSE Holding(url)
        depth(a) == {Len(c) : c \in {d \in Collections(a) : IsPrefix(d, url)}}
        deeper(a, b) == \E n \in depth(a) : \A k \in depth(b) : n > k
    IN {a \in best : \A b \in best : ~deeper(b, a)}

eventConn(op) ==
    LET owner == pickEventOwner(filed.cal, filed.cal)
        none == ~\E a \in Accounts : Connected(a) /\ Provider[a] = "caldav"
        known == \E a \in Holding(filed.cal) \ strayed : filed.cal \in Collections(a)
    IN
    /\ Pending(op)
    /\ filed.provider = "caldav"
    /\ astray' = (none \/ ~known)
    /\ \/ none /\ Answer(op, "ok")
       \/ ~none /\ (\A a \in Accounts : owner # {a}) /\ Answer(op, "refused")
       \/ ~none /\ told' = NotYet
          /\ \E a \in Accounts : owner = {a} /\ Take(op, a, "send")
    /\ UNCHANGED <<cast, rowVars, saved, pick, filed, spilled, hostVars, revived, strayed>>

\* A slip: the pick is looked for by user only.
AnyDestinationCalendarID(a, otherwise) ==
    IF \E b \in Accounts : pick[b] # {} THEN UNION {pick[b] : b \in Accounts}
    ELSE {otherwise}

\* Any calendar picked in an account, or the one given.
DestinationCalendarID(a, otherwise) == IF pick[a] # {} THEN pick[a] ELSE {otherwise}

Resolved ==
    UNCHANGED <<cast, requests, rowVars, saved, pick, eventVars, hostVars, revived, strayed>>

\* Google asks for the calendar picked in the account it loaded, and later writes it back with
\* the token.
httpClient ==
    /\ hand.pc = "resolve" /\ Provider[hand.acct] = "google"
    /\ \E calendar \in DestinationCalendarID(hand.acct, hand.cal) :
          hand' = [hand EXCEPT !.cal = calendar, !.row = calendar, !.pc = "save"]
    /\ Resolved

\* CalDAV does so too, and has no token to save.
loadConn ==
    /\ hand.pc = "resolve" /\ hand.op = "create" /\ Provider[hand.acct] = "caldav"
    /\ \E calendar \in DestinationCalendarID(hand.acct, hand.cal) :
          hand' = [hand EXCEPT !.cal = calendar, !.pc = "send"]
    /\ Resolved

\* Microsoft asks for the calendar picked in the account that is its destination by now.
destinationCalendarID ==
    LET home == Home[hand.acct][hand.site]
        dests == {b \in Accounts : IsDestination(b) /\ Provider[b] = "microsoft"}
    IN
    /\ hand.pc = "resolve" /\ Provider[hand.acct] = "microsoft"
    /\ \E calendar \in IF dests = {} THEN {home}
                        ELSE UNION {DestinationCalendarID(b, home) : b \in dests} :
          hand' = [hand EXCEPT !.cal = calendar, !.pc = "save"]
    /\ Resolved

\* SavingTokenSource: the token is saved under the account, whatever became of its row.
Token ==
    LET a == hand.acct IN
    /\ hand.pc = "save"
    /\ \/ /\ saveToken(a, hand.row, hand.grant, hand.site)
          /\ revived' = IF conn[a].grant = hand.grant THEN revived ELSE revived \cup {a}
       \/ UNCHANGED <<rowVars, revived>>
    /\ hand' = IF hand.op = "read" THEN NoHand ELSE [hand EXCEPT !.pc = "send"]
    /\ UNCHANGED <<cast, requests, saved, pick, eventVars, hostVars, strayed>>

Servers(a, s) == {Head(c) : c \in Calendars[a][s]}

\* A request with the credentials in hand, the password if they are CalDAV's.
Authenticate(url) ==
    spilled' = IF /\ Provider[hand.acct] = "caldav"
                  /\ Head(url) \notin Servers(hand.acct, hand.site)
               THEN spilled \cup {hand.acct} ELSE spilled

\* ...goes to the calendars saved for the account, of which none or any is checked, or to the
\* one it is bound to.
ConflictCalendarIDs ==
    LET a == hand.acct IN
    /\ hand.pc = "resolve" /\ hand.op = "read"
    /\ \/ \E url \in IF saved[a] # {} THEN saved[a] ELSE {hand.cal} : Authenticate(url)
       \/ UNCHANGED spilled
    /\ hand' = NoHand
    /\ UNCHANGED <<cast, requests, rowVars, saved, pick, event, filed, told, astray, hostVars,
                   revived, strayed>>

\* A slip: it is read from the destination when the event is filed.
StampDestination ==
    IF \E a \in Accounts : IsDestination(a)
    THEN Provider[CHOOSE a \in Accounts : IsDestination(a)] ELSE "none"

\* The provider stamped on the event is the one that wrote it.
Stamp == Provider[hand.acct]

SendCreate ==
    /\ hand.pc = "send" /\ hand.op = "create"
    /\ Authenticate(hand.cal)
    /\ \/ /\ hand.cal \in Calendars[hand.acct][hand.site]
          /\ event' = [on |-> hand.acct, cal |-> hand.cal, moved |-> FALSE]
          /\ filed' = [provider |-> Stamp, cal |-> hand.cal]
       \/ UNCHANGED <<event, filed>>
    /\ hand' = NoHand
    /\ UNCHANGED <<cast, requests, rowVars, saved, pick, told, astray, hostVars, revived,
                   strayed>>

\* Google asks for the event in the recorded calendar of the account; 410 is success for a
\* cancel, and 404, which another account gets, is not.
GoogleReaches == hand.acct = event.on /\ filed.cal = event.cal

GoogleGone(op) == op = "cancel" /\ event = NoEvent

\* Microsoft asks in the whole account; 404 is success for a cancel.
GraphReaches == hand.acct = event.on

GraphGone(op) == op = "cancel"

\* CalDAV asks at the event's URL; 404 is success, and a server may give it to an account that
\* has no access there.
DAVReaches == event.cal \in Calendars[hand.acct][hand.site]

DAVGone(op) == TRUE

Reached ==
    /\ event # NoEvent
    /\ CASE Provider[hand.acct] = "google" -> GoogleReaches
         [] Provider[hand.acct] = "microsoft" -> GraphReaches
         [] OTHER -> DAVReaches

NotFoundIsFine(op) ==
    CASE Provider[hand.acct] = "google" -> GoogleGone(op)
      [] Provider[hand.acct] = "microsoft" -> GraphGone(op)
      [] OTHER -> DAVGone(op)

\* The call may fail before it is made or after it took effect.
Send(op) ==
    /\ hand.pc = "send" /\ hand.op = op /\ op \in {"update", "cancel"}
    /\ Authenticate(filed.cal)
    /\ \/ /\ Reached
          /\ event' = IF op = "cancel" THEN NoEvent ELSE [event EXCEPT !.moved = TRUE]
          /\ \E result \in {"ok", "error"} : Answer(op, result)
       \/ ~Reached /\ UNCHANGED event
          /\ Answer(op, IF NotFoundIsFine(op) THEN "ok" ELSE "error")
       \/ UNCHANGED event /\ Answer(op, "error")
    /\ UNCHANGED <<cast, requests, rowVars, saved, pick, filed, astray, hostVars, revived,
                   strayed>>

ConnectionsNext ==
    \/ \E a \in Accounts : \/ \E s \in Sites(a) : Exchange(a, s) \/ Connect(a, s)
                           \/ SetDestination(a) \/ DisconnectOne(a)
                           \/ freeBusyConnections(a) \/ conflictConns(a) \/ CreateEvent(a)
                           \/ \E body \in Bodies : accountExists(a, body)
    \/ Disconnect \/ SetAccountCalendars
    \/ \E op \in {"update", "cancel"} : DestinationClient(op) \/ eventConn(op) \/ Send(op)
    \/ httpClient \/ loadConn \/ destinationCalendarID \/ ConflictCalendarIDs
    \/ Token \/ SendCreate

ConnectionsSpec == ConnectionsInit /\ [][ConnectionsNext]_connVars

-----------------------------------------------------------------------------

\* A host with a connected calendar has exactly one account that bookings are written to:
\* two first connects, a save of a token that overlaps a move of the destination, and a
\* disconnect that promotes another account all keep it.  The exception is a picker whose
\* account was disconnected between its check and its transaction: it clears the flag of
\* every account and sets it nowhere, until the host chooses again.
OneDestination ==
    /\ \A a, b \in Accounts : IsDestination(a) /\ IsDestination(b) => a = b
    /\ age # <<>> /\ ~crossed => \E a \in Accounts : IsDestination(a)

\* What the picker shows as the calendar bookings go to lies in the account they go to.
PickInDestination ==
    ~crossed => \A a \in Accounts : pick[a] # {} => IsDestination(a)

\* An account is connected, and with the tokens of its last connect, exactly if the host left
\* it so.  The exception is an operation that loaded the row before a disconnect or a reconnect
\* and saves its token after it: it brings the account, or its old tokens, back.
AsTheHostLeftIt ==
    \A a \in Accounts \ revived :
        /\ Connected(a) <=> a \in wanted
        /\ Connected(a) => conn[a].grant = latest[a]

\* The calendar stored with an account is one of its own, although every write to a picked
\* calendar stores the pick and the destination may move in the middle of it.  An account that
\* strayed is left out.
CalendarOfAccount ==
    \A a \in Accounts \ strayed :
        Connected(a) => conn[a].cal \in Calendars[a][conn[a].site]

\* The password of a CalDAV account goes to no server but its own, wherever the destination has
\* moved since the event was written.  The exception is an account that strayed: connected at a
\* second site under the same user name while the calendars of the first were saved for it or an
\* operation had its password in hand, or with calendars saved by the picker that are not of the
\* site it is connected at.
CredentialsStayHome == spilled \subseteq strayed

\* An update or a cancel that reports success has reached the event: a change of calendar
\* within the account, and for CalDAV of the account, does not strand it.  The exceptions are
\* Google and Microsoft once the destination is another account than the one that holds the
\* event, and CalDAV once no account that did not stray has the event's calendar.
ReportedDoneIsDone ==
    told.result = "ok" /\ ~astray => event = NoEvent \/ (told.op = "update" /\ event.moved)
=============================================================================
