------------------------------ MODULE Sessions ------------------------------
(***************************************************************************)
(* How one account signs in and is signed out: passwords, magic links,     *)
(* reset links, Google and Microsoft, and the sessions they open           *)
(* (internal/handler: session.go, email_auth.go, magic_link.go,            *)
(* password_reset.go, auth_oauth.go, auth_google.go, auth_microsoft.go).   *)
(*                                                                         *)
(* Every statement of a request is a step, so requests overlap between     *)
(* their reads and their writes.  A caller who presents a secret is one    *)
(* who knows it; hashing and the cookies' attributes are left out.         *)
(***************************************************************************)
EXTENDS Naturals

CONSTANTS
    Cookie,       \* ids of sessions
    Link,         \* emailed links
    Visit,        \* requests that may be served at the same time
    MaxPasswords  \* bound on the passwords ever written

NoId == "none"

VARIABLES
    account,   \* the row of users: [archived, emailLogin]
    session,   \* sessions: absent, live or gone (deleted or expired)
    link,      \* magic_link_tokens and password_reset_tokens: [kind, state]
    visit,     \* requests: [op, pc, keep, link]
    opened,    \* how many sessions each link has opened
    doomed,    \* sessions that were there when a request wrote a new password
    dropped,   \* was a request cut short after it had written the password?
    spared,    \* sessions that a request with an API key passed over for its cookie
    passwords  \* passwords written so far

history == <<doomed, dropped, spared, passwords>>
sessionVars == <<account, session, link, visit, opened, history>>

Idle == [op |-> "none", pc |-> "idle", keep |-> NoId, link |-> NoId]

Live == {c \in Cookie : session[c] = "live"}

\* RequireAuth and sessionUser, session branch.
SignedIn(c) == c \in Live /\ ~account.archived

Begin(v, op, pc, keep, l) ==
    /\ visit[v].pc = "idle"
    /\ visit' = [visit EXCEPT ![v] = [op |-> op, pc |-> pc, keep |-> keep, link |-> l]]

At(v, pc) == visit[v].pc = pc

Goto(v, pc) == visit' = [visit EXCEPT ![v].pc = pc]

End(v) == visit' = [visit EXCEPT ![v] = Idle]

Ended(gone) == session' = [c \in Cookie |-> IF c \in gone THEN "gone" ELSE session[c]]

SessionsInit ==
    /\ account \in [archived: {FALSE}, emailLogin: BOOLEAN]
    /\ session = [c \in Cookie |-> "absent"]
    /\ link = [l \in Link |-> [kind |-> "magic", state |-> "absent"]]
    /\ visit = [v \in Visit |-> Idle]
    /\ opened = [l \in Link |-> 0]
    /\ doomed = {} /\ dropped = FALSE /\ spared = {} /\ passwords = 0

-----------------------------------------------------------------------------
(* Signing in.                                                             *)

LoginEmail(v) ==
    /\ account.emailLogin /\ ~account.archived
    /\ Begin(v, "login", "session", NoId, NoId)
    /\ UNCHANGED <<account, session, link, opened, history>>

\* The account of an address that a provider vouches for.
finishOAuthLogin(v) ==
    /\ ~account.archived
    /\ Begin(v, "sso", "session", NoId, NoId)
    /\ UNCHANGED <<account, session, link, opened, history>>

CallbackGoogle(v) == finishOAuthLogin(v)

CallbackMicrosoft(v) == finishOAuthLogin(v)

\* A goroutine is started that stores and mails the link.
RequestLink(l, kind) ==
    /\ link[l].state = "absent" /\ ~account.archived
    /\ link' = [link EXCEPT ![l] = [kind |-> kind, state |-> "sending"]]
    /\ UNCHANGED <<account, session, visit, opened, history>>

RequestMagicLink(l) == RequestLink(l, "magic")

RequestPasswordReset(l) == account.emailLogin /\ RequestLink(l, "reset")

SendLink(l, kind) ==
    /\ link[l] = [kind |-> kind, state |-> "sending"]
    /\ link' = [link EXCEPT ![l].state = "sent"]
    /\ UNCHANGED <<account, session, visit, opened, history>>

sendMagicLink(l) == SendLink(l, "magic")

sendPasswordReset(l) == SendLink(l, "reset")

ExpireLink(l) ==
    /\ link[l].state = "sent"
    /\ link' = [link EXCEPT ![l].state = "expired"]
    /\ UNCHANGED <<account, session, visit, opened, history>>

\* Slip: the UPDATE does not ask for used_at IS NULL.
ConsumeAgain(v, l) ==
    /\ link[l].state \in {"sent", "used"}
    /\ link' = [link EXCEPT ![l].state = "used"]
    /\ Begin(v, link[l].kind, "load", NoId, l)
    /\ UNCHANGED <<account, session, opened, history>>

\* The link is consumed in one UPDATE.
Consume(v, l) ==
    /\ link[l].state = "sent"
    /\ link' = [link EXCEPT ![l].state = "used"]
    /\ Begin(v, link[l].kind, "load", NoId, l)
    /\ UNCHANGED <<account, session, opened, history>>

VerifyMagicLink(v, l) == link[l].kind = "magic" /\ Consume(v, l)

ResetPassword(v, l) == link[l].kind = "reset" /\ Consume(v, l)

LoadUser(v) ==
    /\ At(v, "load")
    /\ LET reset == visit[v].op = "reset"
           refused == account.archived \/ (reset /\ ~account.emailLogin)
       IN  IF refused THEN End(v) ELSE Goto(v, IF reset THEN "hash" ELSE "session")
    /\ UNCHANGED <<account, session, link, opened, history>>

\* createSession inserts a row, whatever happened to the account meanwhile.
createSession(v) ==
    /\ At(v, "session")
    /\ \E c \in Cookie : session[c] = "absent" /\ session' = [session EXCEPT ![c] = "live"]
    /\ opened' = [l \in Link |-> opened[l] + IF visit[v].link = l THEN 1 ELSE 0]
    /\ End(v)
    /\ UNCHANGED <<account, link, history>>

-----------------------------------------------------------------------------
(* New passwords.                                                          *)

\* With a session; or with an API key, which RequireAuth tries first, whatever
\* cookie comes along.
ChangePassword(v, c) ==
    /\ account.emailLogin /\ ~account.archived
    /\ \/ SignedIn(c) /\ Begin(v, "change", "hash", c, NoId)
       \/ /\ c # NoId => session[c] # "absent"
          /\ Begin(v, "key", "hash", c, NoId)
    /\ UNCHANGED <<account, session, link, opened, history>>

\* By an admin (the tiers are those of Members).
AdminSetPassword(v) ==
    /\ Begin(v, "admin", "hash", NoId, NoId)
    /\ UNCHANGED <<account, session, link, opened, history>>

\* The session that request v is authenticated with, if any.
Own(v) == IF visit[v].op = "key" THEN {} ELSE {visit[v].keep}

WriteHash(v) ==
    /\ At(v, "hash") /\ passwords < MaxPasswords
    /\ passwords' = passwords + 1
    /\ account' = [account EXCEPT !.emailLogin = @ \/ visit[v].op = "admin"]
    /\ doomed' = doomed \cup (Live \ Own(v))
    /\ spared' = spared \ (Live \ Own(v))
    /\ Goto(v, "signout")
    /\ UNCHANGED <<session, link, opened, dropped>>

\* Slip: revokeOtherSessions ends the session of the caller instead of the others.
SignOutOwn(v) ==
    /\ At(v, "signout")
    /\ Ended(Live \cap {visit[v].keep})
    /\ IF visit[v].op = "reset" THEN Goto(v, "session") ELSE End(v)
    /\ UNCHANGED <<account, link, opened, history>>

\* revokeOtherSessions, and the DELETEs of AdminSetPassword and ResetPassword.  The
\* first keeps the session of the cookie, also when an API key authenticates.
SignOut(v) ==
    /\ At(v, "signout")
    /\ Ended(Live \ {visit[v].keep})
    /\ spared' = spared \cup ((Live \cap {visit[v].keep}) \ Own(v))
    /\ IF visit[v].op = "reset" THEN Goto(v, "session") ELSE End(v)
    /\ UNCHANGED <<account, link, opened, doomed, dropped, passwords>>

\* The client disconnects, the process stops, or a statement fails: the request is
\* not taken up again.  ResetPassword signs in even if it could not sign out.
CutShort(v) ==
    /\ visit[v].pc # "idle"
    /\ dropped' = (dropped \/ At(v, "signout"))
    /\ End(v) \/ (At(v, "signout") /\ visit[v].op = "reset" /\ Goto(v, "session"))
    /\ UNCHANGED <<account, session, link, opened, doomed, spared, passwords>>

\* calnode reset-admin leaves the sessions alone.
runResetAdmin ==
    /\ passwords < MaxPasswords
    /\ passwords' = passwords + 1
    /\ account' = [account EXCEPT !.emailLogin = TRUE]
    /\ UNCHANGED <<session, link, visit, opened, doomed, dropped, spared>>

-----------------------------------------------------------------------------
(* Signing out and archiving.                                              *)

\* Logout, or the session expires.
EndSession(c) ==
    /\ c \in Live
    /\ Ended({c})
    /\ UNCHANGED <<account, link, visit, opened, history>>

\* One transaction.  The caller's session is spared; an admin spares none, nor does a
\* caller with an API key, whose cookie is not looked at here.  (The connections of
\* agents are those of Agents.)
RevokeAllSessions(c) ==
    /\ c # NoId => SignedIn(c)
    /\ Live \ {c} # {}
    /\ Ended(Live \ {c})
    /\ UNCHANGED <<account, link, visit, opened, history>>

\* ArchiveUser and RestoreUser, of which Members has the conditions.
Archiving ==
    /\ account' = [account EXCEPT !.archived = ~@]
    /\ UNCHANGED <<session, link, visit, opened, history>>

-----------------------------------------------------------------------------

SignInStep ==
    \/ \E l \in Link : \/ RequestMagicLink(l) \/ RequestPasswordReset(l)
                       \/ sendMagicLink(l) \/ sendPasswordReset(l) \/ ExpireLink(l)
    \/ \E v \in Visit : \/ LoginEmail(v) \/ CallbackGoogle(v) \/ CallbackMicrosoft(v)
                        \/ LoadUser(v) \/ createSession(v)
                        \/ \E l \in Link : VerifyMagicLink(v, l) \/ ResetPassword(v, l)

PasswordStep ==
    \/ runResetAdmin
    \/ \E v \in Visit : \/ AdminSetPassword(v) \/ WriteHash(v) \/ SignOut(v) \/ CutShort(v)
                        \/ \E c \in Cookie \cup {NoId} : ChangePassword(v, c)

SignOutStep ==
    \/ Archiving
    \/ \E c \in Cookie : EndSession(c)
    \/ \E c \in Cookie \cup {NoId} : RevokeAllSessions(c)

SessionsNext == SignInStep \/ PasswordStep \/ SignOutStep

SessionsSpec == SessionsInit /\ [][SessionsNext]_sessionVars

-----------------------------------------------------------------------------
(* Properties.                                                             *)

\* A link opens one session, however many clicks, prefetches and retries overlap.
LinkOpensOne == \A l \in Link : opened[l] <= 1

\* A new password ends the sessions that were there when it was written, except the
\* one that its request is authenticated with, by the time that request has been
\* served; unless it was cut short in between.  One session is left out by name: that
\* of a cookie sent along with an API key, which revokeOtherSessions passes over.
NewPasswordSignsOut ==
    (doomed \ spared) \cap Live # {} => dropped \/ \E v \in Visit : At(v, "signout")
=============================================================================
