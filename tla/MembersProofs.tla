--------------------------- MODULE MembersProofs ---------------------------
(***************************************************************************)
(* Proofs about Members, for any number of accounts, invites and requests. *)
(***************************************************************************)
EXTENDS Members, TLAPS

Open(r) == stage[r] # "idle"

\* The request is past its check and about to perform one of ops.
About(r, ops) == stage[r] = "checked" /\ call[r].op \in ops

-----------------------------------------------------------------------------
(* The inductive invariant.                                                *)

\* Before the founding there is nobody, no invite and no request.
BeforeFounding ==
    founded = "no" =>
        /\ present = {} /\ admin = {} /\ owner = {}
        /\ \A i \in Invite : state[i] = "absent"
        /\ \A r \in Request : ~Open(r)

\* Only rows of the table are archived.
NoGhost == \A u \in User \ present : ~Archived(u)

\* Role changes and transfers are past their check only for the owner.
ByOwner ==
    \A r \in Request :
        About(r, {"promote", "demote", "transfer"}) => call[r].isOwner /\ on[r] # call[r].actor

\* What was read about owners still holds: an actor who was the owner is, and
\* can sign in; the owner is nobody's target.
Fresh ==
    \A r \in Request :
        /\ Open(r) /\ call[r].isOwner => call[r].actor \in owner /\ ~Archived(call[r].actor)
        /\ About(r, {"demote", "archive", "delete"}) => on[r] \notin owner

\* One owner, who is an admin, or none where none was set up.
OwnerShape ==
    /\ founded = "setup" => \E u \in present : owner = {u}
    /\ founded # "setup" => owner = {}
    /\ owner \subseteq admin

\* While no owner can sign in, some admin can, and no admin is a target.
AdminShape ==
    (\A u \in owner : Archived(u)) =>
        /\ founded # "no" => \E u \in admin : ~Archived(u)
        /\ \A r \in Request :
              About(r, {"demote", "archive", "delete"}) => on[r] \notin admin

Tiers == ~raced => Fresh /\ OwnerShape /\ AdminShape

\* An invite that can still be claimed has made no account.
UsedUp == \A i \in Invite : claimed[i] <= 1 /\ (Unused(i) => claimed[i] = 0)

Guarded == BeforeFounding /\ NoGhost /\ ByOwner /\ Tiers

-----------------------------------------------------------------------------
(* Typing.                                                                 *)

\* Every step of the system keeps the types.
LEMMA TypeStep == TypeOK /\ [Next]_vars => TypeOK'
<1> SUFFICES ASSUME TypeOK, [Next]_vars PROVE TypeOK'
    OBVIOUS
<1> USE DEF people, invites, requests
<1>1. CASE UNCHANGED vars
    BY <1>1 DEF vars, TypeOK, Target
<1>2. ASSUME NEW u \in User, Setup(u) \/ Claim(u) PROVE TypeOK'
    BY <1>2 DEF Setup, Claim, Found, TypeOK, Target
<1>3. ASSUME NEW r \in Request, NEW a \in User, NEW op \in UserOp, NEW u \in User,
             RequireAuth(r, a, op, u)
      PROVE  TypeOK'
    BY <1>3 DEF RequireAuth, TypeOK, Target, Call, UserOp, InviteOp
<1>4. ASSUME NEW r \in Request, NEW a \in User, NEW op \in InviteOp, NEW i \in Invite,
             RequireAuth(r, a, op, i)
      PROVE  TypeOK'
    BY <1>4 DEF RequireAuth, TypeOK, Target, Call, UserOp, InviteOp
<1>5. ASSUME NEW r \in Request, Check(r) PROVE TypeOK'
    BY <1>5 DEF Check, Permitted, Unused, TypeOK, Target, Call
<1>6. ASSUME NEW r \in Request, Ends(r), UNCHANGED <<people, invites, founded, raced>>
      PROVE  TypeOK'
    BY <1>6 DEF Ends, NoCall, TypeOK, Target, Call
<1>7. ASSUME NEW r \in Request, SetUserRole(r) PROVE TypeOK'
    <2>1. admin' \subseteq present'
        BY <1>7 DEF SetUserRole, TypeOK
    <2>2. Ends(r) /\ UNCHANGED <<present, owner, archivedBy, invites, founded, raced>>
        BY <1>7 DEF SetUserRole, Writes
    <2> QED
        BY <2>1, <2>2 DEF Ends, NoCall, TypeOK, Target, Call
<1>8. ASSUME NEW r \in Request, TransferOwnership(r) PROVE TypeOK'
    BY <1>8 DEF TransferOwnership, Writes, Ends, NoCall, TypeOK, Target, Call
<1>9. ASSUME NEW r \in Request, ArchiveUser(r) PROVE TypeOK'
    BY <1>9 DEF ArchiveUser, Writes, Ends, NoCall, TypeOK, Target, Call
<1>10. ASSUME NEW r \in Request, RestoreUser(r) PROVE TypeOK'
    BY <1>10 DEF RestoreUser, Writes, Ends, NoCall, TypeOK, Target, Call
<1>11. ASSUME NEW r \in Request, DeleteUser(r) PROVE TypeOK'
    BY <1>11 DEF DeleteUser, Drop, NoRow, Writes, Ends, NoCall, TypeOK, Target, Call
<1>12. ASSUME NEW r \in Request, ClearInvites(r) PROVE TypeOK'
    BY <1>12 DEF ClearInvites, Drop, NoRow, TypeOK, Target
<1>13. ASSUME NEW r \in Request, RevokeInvite(r) PROVE TypeOK'
    BY <1>13 DEF RevokeInvite, Drop, NoRow, Writes, Ends, NoCall, TypeOK, Target, Call
<1>14. ASSUME NEW r \in Request, NEW i \in Invite, InsertInvite(r, i) PROVE TypeOK'
    BY <1>14 DEF InsertInvite, Ends, NoCall, TypeOK, Target, Call
<1>15. ASSUME NEW i \in Invite, Expire(i) PROVE TypeOK'
    BY <1>15 DEF Expire, TypeOK, Target
<1>16. ASSUME NEW i \in Invite, ClaimInvite(i) PROVE TypeOK'
    BY <1>16 DEF ClaimInvite, TypeOK, Target
<1> QED
    BY <1>1, <1>2, <1>3, <1>4, <1>5, <1>6, <1>7, <1>8, <1>9, <1>10, <1>11, <1>12,
       <1>13, <1>14, <1>15, <1>16 DEF Next, Serve, Begin, Refuse

-----------------------------------------------------------------------------
(* Owners and admins.                                                      *)

\* A step that leaves the accounts and the founding alone, and at most ends
\* requests or moves one that none of the invariant's parts is about.
LEMMA QuietStep ==
    ASSUME TypeOK, Guarded, UNCHANGED <<people, founded, raced>>,
           founded # "no" \/ \A i \in Invite : state'[i] = "absent",
           \A r \in Request :
              \/ UNCHANGED <<stage[r], call[r], on[r]>>
              \/ stage'[r] = "idle"
              \/ Open(r) /\ stage'[r] = "cleared" /\ call'[r] = call[r]
    PROVE  Guarded'
<1> USE DEF people, Archived, Open, About
<1>1. BeforeFounding'
    BY DEF Guarded, BeforeFounding
<1>2. NoGhost'
    BY DEF Guarded, NoGhost
<1>3. ByOwner'
    BY DEF Guarded, ByOwner
<1>4. Tiers'
    BY DEF Guarded, Tiers, Fresh, OwnerShape, AdminShape
<1> QED
    BY <1>1, <1>2, <1>3, <1>4 DEF Guarded

\* Every step keeps the facts about owners and admins.
LEMMA GuardedStep == TypeOK /\ Guarded /\ [Next]_vars => Guarded'
<1> SUFFICES ASSUME TypeOK, Guarded, [Next]_vars PROVE Guarded'
    OBVIOUS
<1> USE DEF people, invites, requests, Archived, Open, About
<1>1. CASE UNCHANGED vars
    BY <1>1, QuietStep DEF vars, Guarded, BeforeFounding
<1>2. ASSUME NEW u \in User, Setup(u) \/ Claim(u) PROVE Guarded'
    <2>1. present = {} /\ admin = {} /\ owner = {} /\ ~Archived(u)
        BY <1>2 DEF Setup, Claim, Found, TypeOK, Guarded, NoGhost
    <2>2. ~raced => founded = "no" /\ \A r \in Request : ~Open(r)
        BY <2>1 DEF TypeOK, Guarded, Tiers, OwnerShape, AdminShape, BeforeFounding
    <2>3. BeforeFounding' /\ NoGhost' /\ ByOwner'
        BY <1>2 DEF Setup, Claim, Found, Guarded, BeforeFounding, NoGhost, ByOwner
    <2>4. Tiers'
        BY <1>2, <2>1, <2>2 DEF Setup, Claim, Found, Tiers, Fresh, OwnerShape, AdminShape
    <2> QED
        BY <2>3, <2>4 DEF Guarded
<1>3. ASSUME NEW r \in Request, NEW a \in User, NEW op, NEW t, RequireAuth(r, a, op, t)
      PROVE  Guarded'
    <2>1. BeforeFounding' /\ NoGhost' /\ ByOwner'
        BY <1>3 DEF RequireAuth, TypeOK, Guarded, BeforeFounding, NoGhost, ByOwner
    <2>2. Tiers'
        BY <1>3 DEF RequireAuth, TypeOK, Guarded, Tiers, Fresh, OwnerShape, AdminShape
    <2> QED
        BY <2>1, <2>2 DEF Guarded
<1>4. ASSUME NEW r \in Request, Check(r) PROVE Guarded'
    <2>1. BeforeFounding' /\ NoGhost'
        BY <1>4 DEF Check, TypeOK, Guarded, BeforeFounding, NoGhost
    <2>2. ByOwner'
        BY <1>4 DEF Check, Permitted, MaySetRole, TypeOK, Guarded, ByOwner
    <2>3. Tiers'
        BY <1>4 DEF Check, Permitted, MaySetRole, MayArchive, MayRemove, TypeOK, Guarded,
                    Tiers, Fresh, OwnerShape, AdminShape
    <2> QED
        BY <2>1, <2>2, <2>3 DEF Guarded
<1>5. ASSUME NEW r \in Request, Ends(r), Open(r), UNCHANGED <<people, founded, raced>>
      PROVE  Guarded'
    BY <1>5, QuietStep DEF Ends, TypeOK, Guarded, BeforeFounding
<1>6. ASSUME NEW r \in Request, SetUserRole(r) PROVE Guarded'
    <2>1. BeforeFounding' /\ NoGhost' /\ ByOwner'
        BY <1>6 DEF SetUserRole, Writes, Ends, TypeOK, Guarded, BeforeFounding, NoGhost, ByOwner
    <2>2. ASSUME ~raced'
          PROVE  Fresh' /\ OwnerShape'
        BY <1>6, <2>2 DEF SetUserRole, Writes, Ends, TypeOK, Guarded, Tiers, Fresh, OwnerShape
    <2>3. ASSUME ~raced'
          PROVE  \E u \in owner : ~Archived(u)
        BY <1>6, <2>3 DEF SetUserRole, Writes, TypeOK, Guarded, ByOwner, Tiers, Fresh
    <2>4. ASSUME ~raced'
          PROVE  AdminShape'
        BY <1>6, <2>3, <2>4 DEF SetUserRole, AdminShape
    <2> QED
        BY <2>1, <2>2, <2>4 DEF Guarded, Tiers
<1>7. ASSUME NEW r \in Request, TransferOwnership(r) PROVE Guarded'
    <2>1. BeforeFounding' /\ NoGhost' /\ ByOwner'
        BY <1>7 DEF TransferOwnership, Writes, Ends, TypeOK, Guarded, BeforeFounding, NoGhost, ByOwner
    <2>2. ASSUME ~raced'
          PROVE  /\ \A s \in Request : ~Open(s)'
                 /\ call[r].actor \in owner /\ ~Archived(call[r].actor)
        BY <1>7, <2>2 DEF TransferOwnership, Writes, Ends, TypeOK, Guarded, ByOwner, Tiers, Fresh
    <2>3. ASSUME ~raced'
          PROVE  founded = "setup" /\ owner = {call[r].actor}
        BY <1>7, <2>2, <2>3 DEF TransferOwnership, Guarded, Tiers, OwnerShape
    <2>4. ASSUME ~raced'
          PROVE  Fresh' /\ OwnerShape'
        BY <1>7, <2>2, <2>3, <2>4
           DEF TransferOwnership, Writes, Guarded, Tiers, Fresh, OwnerShape
    <2>5. ASSUME ~raced'
          PROVE  AdminShape'
        BY <1>7, <2>2, <2>3, <2>5
           DEF TransferOwnership, Writes, Guarded, Tiers, OwnerShape, AdminShape
    <2> QED
        BY <2>1, <2>4, <2>5 DEF Guarded, Tiers
<1>8. ASSUME NEW r \in Request, ArchiveUser(r) \/ RestoreUser(r) PROVE Guarded'
    <2>1. BeforeFounding' /\ NoGhost' /\ ByOwner'
        BY <1>8 DEF ArchiveUser, RestoreUser, Writes, Ends, TypeOK, Guarded,
                    BeforeFounding, NoGhost, ByOwner
    <2>2. UNCHANGED <<present, admin, owner, founded, raced>> /\ Ends(r)
        BY <1>8 DEF ArchiveUser, RestoreUser, Writes
    <2>3. CASE ArchiveUser(r)
        <3>1. ASSUME ~raced
              PROVE  on[r] \notin owner /\ \A u \in User \ {on[r]} : Archived(u)' = Archived(u)
            BY <2>3, <3>1 DEF ArchiveUser, Writes, TypeOK, Guarded, Tiers, Fresh
        <3>2. ASSUME ~raced
              PROVE  Fresh' /\ OwnerShape'
            BY <2>2, <3>1, <3>2 DEF Ends, TypeOK, Guarded, Tiers, Fresh, OwnerShape
        <3>3. ASSUME ~raced
              PROVE  AdminShape'
            BY <2>2, <2>3, <3>1, <3>3
               DEF ArchiveUser, Writes, Ends, TypeOK, Guarded, Tiers, OwnerShape, AdminShape
        <3>4. raced' = raced
            BY <2>2
        <3> QED
            BY <2>1, <3>2, <3>3, <3>4 DEF Guarded, Tiers
    <2>4. CASE RestoreUser(r)
        <3>1. \A u \in User : Archived(u)' => Archived(u)
            BY <2>4 DEF RestoreUser, TypeOK
        <3>2. ASSUME ~raced
              PROVE  Fresh' /\ OwnerShape'
            BY <2>2, <3>1, <3>2 DEF Ends, TypeOK, Guarded, Tiers, Fresh, OwnerShape
        <3>3. ASSUME ~raced
              PROVE  AdminShape'
            BY <2>2, <3>1, <3>3 DEF Ends, TypeOK, Guarded, Tiers, AdminShape
        <3>4. raced' = raced
            BY <2>2
        <3> QED
            BY <2>1, <3>2, <3>3, <3>4 DEF Guarded, Tiers
    <2> QED
        BY <1>8, <2>1, <2>3, <2>4 DEF Guarded
<1>9. ASSUME NEW r \in Request, DeleteUser(r) PROVE Guarded'
    <2>1. BeforeFounding' /\ NoGhost' /\ ByOwner'
        BY <1>9 DEF DeleteUser, Writes, Ends, TypeOK, Guarded, BeforeFounding, NoGhost, ByOwner
    <2>2. Tiers'
        BY <1>9 DEF DeleteUser, Writes, Ends, TypeOK, Target, Guarded,
                    Tiers, Fresh, OwnerShape, AdminShape
    <2> QED
        BY <2>1, <2>2 DEF Guarded
<1>10. ASSUME NEW r \in Request, ClearInvites(r) PROVE Guarded'
    BY <1>10, QuietStep DEF ClearInvites, TypeOK, Guarded, BeforeFounding
<1>11. ASSUME NEW i \in Invite, Expire(i) PROVE Guarded'
    BY <1>11, QuietStep DEF Expire, TypeOK, Guarded, BeforeFounding
<1>12. ASSUME NEW i \in Invite, ClaimInvite(i) PROVE Guarded'
    <2>1. BeforeFounding' /\ NoGhost' /\ ByOwner'
        BY <1>12 DEF ClaimInvite, TypeOK, Guarded, BeforeFounding, NoGhost, ByOwner
    <2>2. Tiers'
        BY <1>12 DEF ClaimInvite, Guarded, Tiers, Fresh, OwnerShape, AdminShape
    <2> QED
        BY <2>1, <2>2 DEF Guarded
<1>13. ASSUME NEW r \in Request,
              Refuse(r) \/ RevokeInvite(r) \/ \E i \in Invite : InsertInvite(r, i)
       PROVE  Guarded'
    BY <1>5, <1>13 DEF Refuse, RevokeInvite, InsertInvite, Writes
<1> QED
    BY <1>1, <1>2, <1>3, <1>4, <1>6, <1>7, <1>8, <1>9, <1>10, <1>11, <1>12, <1>13
       DEF Next, Serve, Begin

-----------------------------------------------------------------------------
(* Invites.                                                                *)

\* Every step keeps an invite that can be claimed from having made an account.
LEMMA UsedUpStep == TypeOK /\ UsedUp /\ [Next]_vars => UsedUp'
<1> SUFFICES ASSUME TypeOK, UsedUp, [Next]_vars PROVE UsedUp'
    OBVIOUS
<1> USE DEF invites, Unused
<1>1. ASSUME UNCHANGED claimed,
             \A i \in Invite : \/ state'[i] \in {state[i], "absent"}
                               \/ state[i] = "live" /\ state'[i] = "expired"
      PROVE  UsedUp'
    BY <1>1 DEF UsedUp
<1>2. ASSUME UNCHANGED invites PROVE UsedUp'
    BY <1>2 DEF UsedUp
<1>3. ASSUME NEW r \in Request, NEW i \in Invite, InsertInvite(r, i) PROVE UsedUp'
    BY <1>3 DEF InsertInvite, TypeOK, UsedUp
<1>4. ASSUME NEW i \in Invite, ClaimInvite(i) PROVE UsedUp'
    BY <1>4 DEF ClaimInvite, TypeOK, UsedUp
<1>5. ASSUME NEW r \in Request, DeleteUser(r) \/ ClearInvites(r) \/ RevokeInvite(r)
      PROVE  UsedUp'
    BY <1>1, <1>5 DEF DeleteUser, ClearInvites, RevokeInvite, Drop, TypeOK
<1>6. ASSUME NEW i \in Invite, Expire(i) PROVE UsedUp'
    BY <1>1, <1>6 DEF Expire, TypeOK
<1>7. CASE UNCHANGED vars
    BY <1>2, <1>7 DEF vars
<1>8. ASSUME NEW u \in User, Setup(u) \/ Claim(u) PROVE UsedUp'
    BY <1>2, <1>8 DEF Setup, Claim, Found
<1>9. ASSUME NEW r \in Request,
             \/ Begin(r) \/ Check(r) \/ Refuse(r) \/ SetUserRole(r)
             \/ TransferOwnership(r) \/ ArchiveUser(r) \/ RestoreUser(r)
      PROVE  UsedUp'
    BY <1>2, <1>9 DEF Begin, RequireAuth, Check, Refuse, SetUserRole, TransferOwnership,
                      ArchiveUser, RestoreUser
<1> QED
    BY <1>3, <1>4, <1>5, <1>6, <1>7, <1>8, <1>9 DEF Next, Serve

-----------------------------------------------------------------------------
(* Theorems.                                                               *)

\* The initial state satisfies every part of the invariant.
LEMMA InitHolds == Init => TypeOK /\ Guarded /\ UsedUp
<1> SUFFICES ASSUME Init PROVE TypeOK /\ Guarded /\ UsedUp
    OBVIOUS
<1>1. TypeOK
    BY DEF Init, TypeOK, Target, Call, NoCall, NoRow, UserOp, InviteOp
<1>2. Guarded
    BY DEF Init, Guarded, BeforeFounding, NoGhost, ByOwner, Tiers, Fresh, OwnerShape,
           AdminShape, Open, About, Archived
<1>3. UsedUp
    BY DEF Init, UsedUp, Unused
<1> QED
    BY <1>1, <1>2, <1>3

\* Tables and requests are well typed in every reachable state, however many
\* requests overlap.
THEOREM TypeCorrect == Spec => []TypeOK
    BY InitHolds, TypeStep, PTL DEF Spec

\* The inductive invariant holds in every reachable state.
THEOREM Invariance == Spec => [](TypeOK /\ Guarded /\ UsedUp)
<1>1. TypeOK /\ Guarded /\ UsedUp /\ [Next]_vars => (TypeOK /\ Guarded /\ UsedUp)'
    BY TypeStep, GuardedStep, UsedUpStep
<1> QED
    BY <1>1, InitHolds, PTL DEF Spec

\* A workspace that was set up has exactly one owner, an admin, as long as no
\* transfer of ownership (TransferOwnership) overlaps another request.
THEOREM ExactlyOneOwner == Spec => []OneOwner
<1>1. TypeOK /\ Guarded => OneOwner
    BY DEF Guarded, Tiers, OwnerShape, OneOwner
<1> QED
    BY <1>1, Invariance, PTL

\* Under the same condition some admin can always sign in, whatever ArchiveUser,
\* DeleteUser, SetUserRole and TransferOwnership did.
THEOREM NeverLockedOut == Spec => []NotLockedOut
<1>1. TypeOK /\ Guarded => NotLockedOut
    BY DEF Guarded, Tiers, OwnerShape, AdminShape, NotLockedOut, TypeOK
<1> QED
    BY <1>1, Invariance, PTL

\* An invite makes at most one account (ClaimInvite), also when its account is
\* removed again.
THEOREM InvitesAreSingleUse == Spec => []InviteMakesOne
<1>1. UsedUp => InviteMakesOne
    BY DEF UsedUp, InviteMakesOne
<1> QED
    BY <1>1, Invariance, PTL
=============================================================================
