------------------------------ MODULE Members ------------------------------
(***************************************************************************)
(* The members of a workspace: its founding, their tiers (member, admin,   *)
(* owner), archiving, removal and the invites that bring new ones in       *)
(* (internal/handler: setup.go, claim.go, auth.go, roles.go, archive.go,   *)
(* users.go, invites.go).                                                  *)
(*                                                                         *)
(* A request is served in steps: RequireAuth reads the actor's tier, the   *)
(* handler reads the target and decides, then it writes.  Requests         *)
(* overlap, so what was read may be stale at the write.  A transaction is  *)
(* one step: the pool has one connection.  An account and its email        *)
(* address are one name, since the column is UNIQUE.                       *)
(***************************************************************************)
EXTENDS Naturals, FiniteSets

CONSTANTS
    User,     \* accounts, and their email addresses
    Invite,   \* ids of invites
    Request,  \* requests that may be served at the same time
    Nobody    \* stands for no account

ASSUME MembersAssumption == Nobody \notin User

VARIABLES
    present,     \* the rows of users
    admin,       \* those with is_admin
    owner,       \* those with is_owner
    archivedBy,  \* archived_by, Nobody while archived_at is NULL
    invite,      \* the rows of invite_tokens
    state,       \* whether each is there, and can be claimed
    claimed,     \* how many accounts each invite has made
    stage,       \* where each request is
    call,        \* its operation and its actor, with the tier that was read
    on,          \* its target: an account, an address or an invite
    founded,     \* how the workspace was founded
    raced        \* has ownership moved while another request was being served?

people == <<present, admin, owner, archivedBy>>
invites == <<invite, state, claimed>>
requests == <<stage, call, on>>
vars == <<people, invites, requests, founded, raced>>

UserOp == {"promote", "demote", "transfer", "archive", "restore", "delete", "invite"}
InviteOp == {"resend", "revoke"}

NoCall == [op |-> "none", actor |-> Nobody, isAdmin |-> FALSE, isOwner |-> FALSE]

NoRow == [email |-> Nobody, by |-> Nobody]

Archived(u) == archivedBy[u] # Nobody

\* used_at IS NULL
Unused(i) == state[i] \in {"live", "expired"}

\* A set of invites is deleted.
Drop(gone) ==
    /\ invite' = [i \in Invite |-> IF i \in gone THEN NoRow ELSE invite[i]]
    /\ state' = [i \in Invite |-> IF i \in gone THEN "absent" ELSE state[i]]

-----------------------------------------------------------------------------
Init ==
    /\ present = {} /\ admin = {} /\ owner = {}
    /\ archivedBy = [u \in User |-> Nobody]
    /\ invite = [i \in Invite |-> NoRow]
    /\ state = [i \in Invite |-> "absent"]
    /\ claimed = [i \in Invite |-> 0]
    /\ stage = [r \in Request |-> "idle"]
    /\ call = [r \in Request |-> NoCall]
    /\ on = [r \in Request |-> Nobody]
    /\ founded = "no"
    /\ raced = FALSE

\* The first account, made by Setup (an owner) or by Claim (an admin); both
\* count the users in the transaction that inserts.
Found(u, how) ==
    /\ present = {}
    /\ present' = {u}
    /\ admin' = {u}
    /\ founded' = how
    /\ UNCHANGED <<archivedBy, invites, requests, raced>>

Setup(u) == Found(u, "setup") /\ owner' = {u}

Claim(u) == Found(u, "claim") /\ owner' = {}

-----------------------------------------------------------------------------
(* The steps of a request.                                                 *)

\* RequireAuth: an account that is not archived, with its tier.  Sessions and
\* API keys are left out: whoever may sign in has one.
RequireAuth(r, actor, op, target) ==
    /\ stage[r] = "idle"
    /\ actor \in present /\ ~Archived(actor)
    /\ stage' = [stage EXCEPT ![r] = "begun"]
    /\ call' = [call EXCEPT ![r] = [op |-> op, actor |-> actor,
                                    isAdmin |-> actor \in admin,
                                    isOwner |-> actor \in owner]]
    /\ on' = [on EXCEPT ![r] = target]
    /\ UNCHANGED <<people, invites, founded, raced>>

\* The guards that ArchiveUser and DeleteUser share: an admin, not oneself, not
\* the owner, and an admin only by the owner.
MayRemove(r) ==
    /\ call[r].isAdmin /\ on[r] # call[r].actor
    /\ on[r] \in present \ owner
    /\ on[r] \in admin => call[r].isOwner

\* Slip: archiving does not look at the target's tier.
MayArchiveAnyone(r) ==
    call[r].isAdmin /\ on[r] # call[r].actor /\ on[r] \in present /\ ~Archived(on[r])

\* ArchiveUser also refuses a member who is archived.
MayArchive(r) == MayRemove(r) /\ ~Archived(on[r])

\* RestoreUser: the owner restores anyone, an admin the members it archived.
MayRestore(r) ==
    /\ call[r].isAdmin
    /\ on[r] \in present /\ Archived(on[r])
    /\ call[r].isOwner \/ (on[r] \notin admin /\ archivedBy[on[r]] = call[r].actor)

\* SetUserRole: the owner only, not one's own role, not the owner's.
MaySetRole(r) ==
    call[r].isOwner /\ on[r] # call[r].actor /\ on[r] \in present \ owner

\* What each handler decides from the actor's tier and from what it reads.
Permitted(r) ==
    \/ call[r].op \in {"promote", "demote"} /\ MaySetRole(r)
    \/ call[r].op = "archive" /\ MayArchive(r)
    \/ call[r].op = "delete" /\ MayRemove(r)
    \/ call[r].op = "restore" /\ MayRestore(r)
    \/ call[r].op = "transfer" /\ call[r].isOwner /\ on[r] # call[r].actor
    \/ call[r].op = "invite" /\ call[r].isAdmin /\ on[r] \notin present
    \/ call[r].op = "resend" /\ call[r].isAdmin /\ Unused(on[r])
    \/ call[r].op = "revoke" /\ call[r].isAdmin

\* Slip: a resend goes on with the invite's id.
CheckKeepsId(r) ==
    /\ stage[r] = "begun"
    /\ Permitted(r)
    /\ stage' = [stage EXCEPT ![r] = "checked"]
    /\ UNCHANGED <<people, invites, call, on, founded, raced>>

\* The handler goes on; a resend goes on with the invite's address.
Check(r) ==
    /\ stage[r] = "begun"
    /\ Permitted(r)
    /\ stage' = [stage EXCEPT ![r] = "checked"]
    /\ on' = [on EXCEPT ![r] = IF call[r].op = "resend" THEN invite[@].email ELSE @]
    /\ UNCHANGED <<people, invites, call, founded, raced>>

Ends(r) ==
    /\ stage' = [stage EXCEPT ![r] = "idle"]
    /\ call' = [call EXCEPT ![r] = NoCall]
    /\ on' = [on EXCEPT ![r] = Nobody]

\* The request ends without a write: it is refused, or a statement fails, or
\* the target of an archive or a removal has bookings (see Bookings).
Refuse(r) ==
    /\ stage[r] # "idle"
    /\ Ends(r)
    /\ UNCHANGED <<people, invites, founded, raced>>

\* The write that ends request r, which was admitted for operation op.
Writes(r, op) ==
    /\ stage[r] = "checked" /\ call[r].op = op
    /\ Ends(r)
    /\ UNCHANGED founded

-----------------------------------------------------------------------------
(* The writes.  An UPDATE of a row that is gone by then matches nothing.   *)

SetUserRole(r) ==
    /\ \/ Writes(r, "promote") /\ admin' = admin \cup ({on[r]} \cap present)
       \/ Writes(r, "demote") /\ admin' = admin \ {on[r]}
    /\ UNCHANGED <<present, owner, archivedBy, invites, raced>>

\* Slip: the present owner keeps the tier.
TransferAndKeep(r) ==
    /\ Writes(r, "transfer")
    /\ on[r] \in present
    /\ owner' = owner \cup {on[r]}
    /\ admin' = admin \cup {on[r]}
    /\ UNCHANGED <<present, archivedBy, invites, raced>>

\* One transaction: the target must exist, the actor is demoted to admin, the
\* target becomes owner and admin.
TransferOwnership(r) ==
    /\ Writes(r, "transfer")
    /\ on[r] \in present
    /\ owner' = (owner \ {call[r].actor}) \cup {on[r]}
    /\ admin' = admin \cup {on[r]}
    /\ raced' = (raced \/ \E s \in Request \ {r} : stage[s] # "idle")
    /\ UNCHANGED <<present, archivedBy, invites>>

\* The member's event types are deactivated in the same transaction; they are
\* not part of this module.
ArchiveUser(r) ==
    /\ Writes(r, "archive")
    /\ archivedBy' = [archivedBy EXCEPT ![on[r]] =
                        IF on[r] \in present THEN call[r].actor ELSE @]
    /\ UNCHANGED <<present, admin, owner, invites, raced>>

RestoreUser(r) ==
    /\ Writes(r, "restore")
    /\ archivedBy' = [archivedBy EXCEPT ![on[r]] = Nobody]
    /\ UNCHANGED <<present, admin, owner, invites, raced>>

\* The row goes, and the invites it created with it (ON DELETE CASCADE).
DeleteUser(r) ==
    /\ Writes(r, "delete")
    /\ present' = present \ {on[r]}
    /\ admin' = admin \ {on[r]}
    /\ owner' = owner \ {on[r]}
    /\ archivedBy' = [archivedBy EXCEPT ![on[r]] = Nobody]
    /\ Drop({i \in Invite : invite[i].by = on[r]})
    /\ UNCHANGED <<claimed, raced>>

\* issueInvite's DELETE of the unused invites of the address, for CreateInvite
\* and ResendInvite; its error is ignored.
ClearInvites(r) ==
    /\ stage[r] = "checked" /\ call[r].op \in {"invite", "resend"}
    /\ stage' = [stage EXCEPT ![r] = "cleared"]
    /\ \/ Drop({i \in Invite : Unused(i) /\ invite[i].email = on[r]})
       \/ UNCHANGED <<invite, state>>
    /\ UNCHANGED <<people, claimed, call, on, founded, raced>>

\* issueInvite's INSERT, which needs its creator to exist.
InsertInvite(r, i) ==
    /\ stage[r] = "cleared"
    /\ state[i] = "absent"
    /\ call[r].actor \in present
    /\ Ends(r)
    /\ invite' = [invite EXCEPT ![i] = [email |-> on[r], by |-> call[r].actor]]
    /\ state' = [state EXCEPT ![i] = "live"]
    /\ claimed' = [claimed EXCEPT ![i] = 0]
    /\ UNCHANGED <<people, founded, raced>>

RevokeInvite(r) ==
    /\ Writes(r, "revoke")
    /\ Drop({on[r]} \cap {i \in Invite : Unused(i)})
    /\ UNCHANGED <<people, claimed, raced>>

-----------------------------------------------------------------------------
(* Invites in use.                                                         *)

\* expires_at passes.
Expire(i) ==
    /\ state[i] = "live"
    /\ state' = [state EXCEPT ![i] = "expired"]
    /\ UNCHANGED <<people, invite, claimed, requests, founded, raced>>

\* Slip: the invite is not marked as used.
ClaimInviteAgain(i) ==
    /\ state[i] = "live"
    /\ invite[i].email \notin present
    /\ present' = present \cup {invite[i].email}
    /\ claimed' = [claimed EXCEPT ![i] = @ + 1]
    /\ UNCHANGED <<admin, owner, archivedBy, invite, state, requests, founded, raced>>

\* ClaimInvite, one transaction: a valid invite makes a member of its address,
\* unless the address has an account, and is used up.
ClaimInvite(i) ==
    /\ state[i] = "live"
    /\ invite[i].email \notin present
    /\ present' = present \cup {invite[i].email}
    /\ state' = [state EXCEPT ![i] = "used"]
    /\ claimed' = [claimed EXCEPT ![i] = @ + 1]
    /\ UNCHANGED <<admin, owner, archivedBy, invite, requests, founded, raced>>

-----------------------------------------------------------------------------
Begin(r) ==
    \E actor \in User :
       \/ \E op \in UserOp, u \in User : RequireAuth(r, actor, op, u)
       \/ \E op \in InviteOp, i \in Invite : RequireAuth(r, actor, op, i)

Serve(r) ==
    \/ Begin(r) \/ Check(r) \/ Refuse(r)
    \/ SetUserRole(r) \/ TransferOwnership(r)
    \/ ArchiveUser(r) \/ RestoreUser(r) \/ DeleteUser(r)
    \/ ClearInvites(r) \/ RevokeInvite(r)
    \/ \E i \in Invite : InsertInvite(r, i)

Next ==
    \/ \E u \in User : Setup(u) \/ Claim(u)
    \/ \E r \in Request : Serve(r)
    \/ \E i \in Invite : Expire(i) \/ ClaimInvite(i)

Spec == Init /\ [][Next]_vars

-----------------------------------------------------------------------------
(* Properties.                                                             *)

Call ==
    [op : UserOp \cup InviteOp \cup {"none"}, actor : User \cup {Nobody},
     isAdmin : BOOLEAN, isOwner : BOOLEAN]

\* What a request is about: an invite, or by the time it writes the account or
\* address it was admitted for.
Target(r) ==
    IF call[r].op = "revoke" \/ (call[r].op = "resend" /\ stage[r] = "begun")
    THEN Invite ELSE User

\* The tables and the requests have their types, only an absent invite has no
\* address, and every request that is served has an actor and its target.
TypeOK ==
    /\ present \subseteq User /\ admin \subseteq present /\ owner \subseteq present
    /\ archivedBy \in [User -> User \cup {Nobody}]
    /\ invite \in [Invite -> [email : User \cup {Nobody}, by : User \cup {Nobody}]]
    /\ state \in [Invite -> {"absent", "live", "expired", "used"}]
    /\ \A i \in Invite : state[i] # "absent" => invite[i].email \in User /\ invite[i].by \in User
    /\ claimed \in [Invite -> Nat]
    /\ stage \in [Request -> {"idle", "begun", "checked", "cleared"}]
    /\ call \in [Request -> Call]
    /\ on \in [Request -> User \cup Invite \cup {Nobody}]
    /\ \A r \in Request : stage[r] # "idle" => call[r].actor \in User /\ on[r] \in Target(r)
    /\ \A r \in Request : stage[r] = "cleared" => call[r].op \in {"invite", "resend"}
    /\ founded \in {"no", "setup", "claim"}
    /\ raced \in BOOLEAN

\* A workspace that was set up has exactly one owner, who is an admin
\* (TransferOwnership's promise), whatever requests overlap, as long as
\* ownership never moves while another request is between its check and its
\* write: then the checks of the others are stale.
OneOwner ==
    founded = "setup" /\ ~raced =>
        \E u \in present : owner = {u} /\ u \in admin

\* Under the same condition a workspace is never locked out: some admin can
\* sign in, through any sequence of demotions, transfers (even to an archived
\* account), archivings and removals, whichever way it was founded.
NotLockedOut ==
    founded # "no" /\ ~raced => \E u \in admin : ~Archived(u)

\* An invite makes one account in its life: a member who was removed does not
\* come back by the old link (ClaimInvite's UPDATE of used_at).
InviteMakesOne == \A i \in Invite : claimed[i] <= 1
=============================================================================
