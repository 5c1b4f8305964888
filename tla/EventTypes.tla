----------------------------- MODULE EventTypes -----------------------------
(***************************************************************************)
(* Event types, the public links (slugs) that lead to them, their hosts,   *)
(* and the bookings that pin them (internal/handler: event_type.go,        *)
(* event_type_duplicate.go, event_type_transfer.go, event_type_hosts.go).  *)
(*                                                                         *)
(* A request finds its event type by slug and goes on by id, so that other *)
(* requests run between the two.  Somebody may always edit: the owner or   *)
(* an admin.  Names, messages, prices and other columns that a request     *)
(* validates and stores are left out.                                      *)
(***************************************************************************)
EXTENDS Naturals, FiniteSets

CONSTANTS
    Type,       \* ids of event types
    Slug,       \* links
    Admin,      \* an admin, who is never archived
    Colleague,  \* a second member
    Hosts,      \* the host lists that an editor may save
    Asker,      \* requests of editors that may be served at the same time
    Visitor     \* requests that book

Member == {Admin, Colleague}

VARIABLES
    type,     \* event_types and event_type_hosts: [there, slug, owner, active, shelved, role]
    booked,   \* bookings of each type: none, upcoming, or only past and cancelled ones
    ask,      \* requests: [op, pc, type, slug]
    linked,   \* the slugs under which each type has been booked
    crossed   \* types booked while a rename of theirs was under way

eventVars == <<type, booked, ask, linked, crossed>>

None == [there |-> FALSE, slug |-> "", owner |-> Admin, active |-> FALSE,
         shelved |-> FALSE, role |-> [m \in Member |-> "none"]]

Quiet == [op |-> "none", pc |-> "idle", type |-> "", slug |-> ""]

There == {t \in Type : type[t].there}

Taken == {type[t].slug : t \in There}

\* Somebody who can take the booking.
HasAttendee(role) == \E m \in DOMAIN role : role[m] \in {"required", "rotation"}

EventTypesInit ==
    /\ type = [t \in Type |-> None]
    /\ booked = [t \in Type |-> "none"]
    /\ ask = [a \in Asker \cup Visitor |-> Quiet]
    /\ linked = [t \in Type |-> {}] /\ crossed = {}

Reply(a) == ask' = [ask EXCEPT ![a] = Quiet]

At(a, pc) == ask[a].pc = pc

\* eventTypeForEditor, and the lookup of PatchEventType: by slug.
Lookup(a, op, pc, t, s) ==
    /\ At(a, "idle") /\ t \in There
    /\ ask' = [ask EXCEPT ![a] = [op |-> op, pc |-> pc, type |-> t, slug |-> s]]
    /\ UNCHANGED <<type, booked, linked, crossed>>

-----------------------------------------------------------------------------

\* One transaction: the row, and its owner as the required host.
CreateEventType(t, s, m) ==
    /\ ~type[t].there /\ booked[t] = "none" /\ s \notin Taken
    /\ type' = [type EXCEPT ![t] =
           [there |-> TRUE, slug |-> s, owner |-> m, active |-> TRUE, shelved |-> FALSE,
            role |-> [h \in Member |-> IF h = m THEN "required" ELSE "none"]]]
    /\ UNCHANGED <<booked, ask, linked, crossed>>

\* What a patch may ask for, the new slug apart.
Changes == {"rename", "open", "close", "shelve", "unshelve"}

PatchEventType(a, op, t, s) ==
    /\ (op = "rename") = (s # type[t].slug)
    /\ Lookup(a, op, IF op = "rename" THEN "count" ELSE "update", t, s)

\* Slip: bookings that are over or cancelled do not hold the link.
CountUpcoming(a) ==
    /\ At(a, "count")
    /\ IF booked[ask[a].type] = "upcoming" THEN Reply(a)
       ELSE ask' = [ask EXCEPT ![a].pc = "update"]
    /\ UNCHANGED <<type, booked, linked, crossed>>

\* A slug that has bookings is in circulation: the rename is refused.
CountBookings(a) ==
    /\ At(a, "count")
    /\ IF booked[ask[a].type] # "none" THEN Reply(a)
       ELSE ask' = [ask EXCEPT ![a].pc = "update"]
    /\ UNCHANGED <<type, booked, linked, crossed>>

Patched(row, op, s) ==
    CASE op = "rename"   -> [row EXCEPT !.slug = s]
      [] op = "open"     -> [row EXCEPT !.active = TRUE]
      [] op = "close"    -> [row EXCEPT !.active = FALSE]
      [] op = "shelve"   -> [row EXCEPT !.active = FALSE, !.shelved = TRUE]
      [] op = "unshelve" -> [row EXCEPT !.shelved = FALSE]

\* The UPDATE by id: not found when the row is gone, refused when the slug is taken.
\* The reminders that the patch may bring are replaced next, in their own transaction.
UpdateEventType(a) ==
    /\ At(a, "update")
    /\ LET t == ask[a].type
           s == ask[a].slug
       IN  IF t \in There /\ ~(ask[a].op = "rename" /\ s \in Taken)
           THEN type' = [type EXCEPT ![t] = Patched(@, ask[a].op, s)]
           ELSE UNCHANGED type
    /\ Reply(a)
    /\ UNCHANGED <<booked, linked, crossed>>

\* The foreign key of bookings refuses to delete a type with any booking.
DeleteEventType(a) ==
    /\ At(a, "delete")
    /\ IF booked[ask[a].type] = "none" THEN type' = [type EXCEPT ![ask[a].type] = None]
       ELSE UNCHANGED type
    /\ Reply(a)
    /\ UNCHANGED <<booked, linked, crossed>>

\* loadEventTypeChildren, uniqueCopySlug and INSERT ... SELECT in one transaction: a
\* closed copy under a free slug.  A source deleted meanwhile leaves nothing to copy.
DuplicateEventType(a) ==
    /\ At(a, "copy")
    /\ \/ ask[a].type \notin There /\ UNCHANGED type
       \/ \E t \in Type, s \in Slug \ Taken :
             /\ ask[a].type \in There /\ ~type[t].there /\ booked[t] = "none"
             /\ type' = [type EXCEPT ![t] = [type[ask[a].type] EXCEPT
                             !.slug = s, !.active = FALSE, !.shelved = FALSE]]
       \/ Slug = Taken /\ UNCHANGED type
    /\ Reply(a)
    /\ UNCHANGED <<booked, linked, crossed>>

\* One transaction: the admin who owns it gives it to a required host.
TransferEventType(t, m) ==
    /\ t \in There /\ type[t].owner = Admin /\ m # Admin /\ ~type[t].shelved
    /\ type[t].role[m] = "required"
    /\ booked[t] # "upcoming"
    /\ type' = [type EXCEPT ![t].owner = m]
    /\ UNCHANGED <<booked, ask, linked, crossed>>

\* The list is replaced as a whole, by members that are not archived.
SetEventTypeHosts(a, role) ==
    /\ At(a, "hosts") /\ HasAttendee(role)
    /\ ask[a].type \in There
    /\ type' = [type EXCEPT ![ask[a].type].role = role]
    /\ Reply(a)
    /\ UNCHANGED <<booked, linked, crossed>>

\* The event type of a host list was deleted: the insert violates a foreign key.
HostsOfNothing(a) ==
    /\ At(a, "hosts") /\ ask[a].type \notin There
    /\ Reply(a)
    /\ UNCHANGED <<type, booked, linked, crossed>>

-----------------------------------------------------------------------------

\* DeleteUser cascades to the member's event types, which bookings hosted by others
\* refuse, and to the member's places in other host lists.
DeleteUser(m) ==
    /\ m = Colleague
    /\ \A t \in There : type[t].owner = m => booked[t] = "none"
    /\ type' = [t \in Type |-> IF type[t].owner = m THEN None
                               ELSE [type[t] EXCEPT !.role[m] = "none"]]
    /\ UNCHANGED <<booked, ask, linked, crossed>>

-----------------------------------------------------------------------------

\* loadBookableEventType finds an active type by the slug of the link; the booking is
\* inserted by id, later.  Somebody who can take it has to be there.
FindEventType(a, t) ==
    /\ t \in There /\ type[t].active
    /\ Lookup(a, "book", "book", t, type[t].slug)

Renaming(t) == \E a \in Asker : At(a, "update") /\ ask[a].op = "rename" /\ ask[a].type = t

CreateBooking(a) ==
    /\ At(a, "book")
    /\ LET t == ask[a].type
           s == ask[a].slug
       IN  IF t \in There /\ HasAttendee(type[t].role)
           THEN /\ booked' = [booked EXCEPT ![t] = "upcoming"]
                /\ IF Renaming(t) \/ type[t].slug # s
                   THEN crossed' = crossed \cup {t} /\ UNCHANGED linked
                   ELSE linked' = [linked EXCEPT ![t] = @ \cup {s}] /\ UNCHANGED crossed
           ELSE UNCHANGED <<booked, linked, crossed>>
    /\ Reply(a)
    /\ UNCHANGED type

BookingsEnd(t) ==
    /\ booked[t] = "upcoming"
    /\ booked' = [booked EXCEPT ![t] = "over"]
    /\ UNCHANGED <<type, ask, linked, crossed>>

EventTypesNext ==
    \/ DeleteUser(Colleague)
    \/ \E t \in Type : BookingsEnd(t) \/ TransferEventType(t, Colleague)
    \/ \E v \in Visitor : CreateBooking(v) \/ \E t \in Type : FindEventType(v, t)
    \/ \E t \in Type, s \in Slug, m \in Member : CreateEventType(t, s, m)
    \/ \E a \in Asker :
          \/ CountBookings(a) \/ UpdateEventType(a) \/ DeleteEventType(a)
          \/ DuplicateEventType(a) \/ HostsOfNothing(a)
          \/ \E role \in Hosts : SetEventTypeHosts(a, role)
          \/ \E t \in Type :
                \/ \E s \in Slug, op \in Changes : PatchEventType(a, op, t, s)
                \/ \E op \in {"delete", "copy", "hosts"} : Lookup(a, op, op, t, type[t].slug)

EventTypesSpec == EventTypesInit /\ [][EventTypesNext]_eventVars

-----------------------------------------------------------------------------
(* Properties.                                                             *)

\* The link in a booker's confirmation keeps leading to the event type that was booked:
\* an event type with bookings, cancelled and past ones too, is never deleted, whoever
\* deletes it or its owner, and keeps the slug it was booked under, unless the booking
\* was made while a rename was being saved.
LinksHold ==
    \A t \in Type \ crossed :
        linked[t] # {} => t \in There /\ linked[t] = {type[t].slug}
=============================================================================
