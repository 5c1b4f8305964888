--------------------------- MODULE AccountsProofs ---------------------------
(***************************************************************************)
(* The parts of Accounts keep their promises, for every value of the       *)
(* constants.  Each part has an inductive invariant over its own           *)
(* variables, which the steps of the other parts leave alone: SessionsInv, *)
(* AgentsInv, TypesInv, VaultInv and ConnectionsInv, in this order.  What  *)
(* Members promises is proved in MembersProofs.                            *)
(***************************************************************************)
EXTENDS Accounts, SequenceTheorems, TLAPS

-----------------------------------------------------------------------------
(* Signing in.                                                             *)

VisitRow == [op: {"none", "login", "sso", "magic", "reset", "change", "key", "admin"},
             pc: {"idle", "session", "load", "hash", "signout"},
             keep: Cookie \cup {S!NoId}, link: Link \cup {S!NoId}]

LinkRow == [kind: {"magic", "reset"},
            state: {"absent", "sending", "sent", "expired", "used"}]

SessionsType ==
    /\ session \in [Cookie -> {"absent", "live", "gone"}]
    /\ link \in [Link -> LinkRow]
    /\ opened \in [Link -> Nat]
    /\ visit \in [Visit -> VisitRow]
    /\ doomed \subseteq Cookie

\* A link that was consumed is with one request, or has opened its session.
LinksSpent ==
    /\ \A l \in Link : opened[l] <= 1 /\ (link[l].state # "used" => opened[l] = 0)
    /\ \A v \in Visit : visit[v].link \in Link =>
          /\ link[visit[v].link].state = "used" /\ opened[visit[v].link] = 0
          /\ \A w \in Visit : visit[w].link = visit[v].link => w = v

\* A session that a new password should end is still to be ended by a request that does
\* not spare it, or that will be seen to spare it for a cookie: another request that
\* spares it may be faster.
DoomPending ==
    /\ \A c \in doomed : session[c] # "absent"
    /\ \A c \in doomed \ spared : session[c] = "live" =>
          dropped \/ \E v \in Visit : /\ visit[v].pc = "signout"
                                      /\ visit[v].keep # c \/ visit[v].op = "key"

SessionsInv == SessionsType /\ LinksSpent /\ DoomPending

\* What Begin, Goto and End do to the requests.
LEMMA VisitMoves ==
    ASSUME SessionsType, NEW v \in Visit
    PROVE  /\ \A r \in VisitRow : visit' = [visit EXCEPT ![v] = r] =>
                 /\ visit' \in [Visit -> VisitRow] /\ visit'[v] = r
                 /\ \A w \in Visit \ {v} : visit'[w] = visit[w]
           /\ S!End(v) =>
                 /\ visit' \in [Visit -> VisitRow]
                 /\ visit'[v].link = S!NoId /\ visit'[v].pc = "idle"
                 /\ \A w \in Visit \ {v} : visit'[w] = visit[w]
           /\ \A pc \in {"idle", "session", "load", "hash", "signout"} : S!Goto(v, pc) =>
                 /\ visit' \in [Visit -> VisitRow]
                 /\ visit'[v].pc = pc /\ visit'[v].link = visit[v].link
                 /\ visit'[v].keep = visit[v].keep /\ visit'[v].op = visit[v].op
                 /\ \A w \in Visit \ {v} : visit'[w] = visit[w]
  <1>1. visit \in [Visit -> VisitRow]
    BY DEF SessionsType
  <1>2. \A r \in VisitRow : visit' = [visit EXCEPT ![v] = r] =>
                 /\ visit' \in [Visit -> VisitRow] /\ visit'[v] = r
                 /\ \A w \in Visit \ {v} : visit'[w] = visit[w]
    BY <1>1
  <1>3. S!Idle \in VisitRow /\ S!Idle.link = S!NoId /\ S!Idle.pc = "idle"
    BY DEF S!Idle, VisitRow
  <1>4. ASSUME S!End(v)
        PROVE  /\ visit' \in [Visit -> VisitRow]
               /\ visit'[v].link = S!NoId /\ visit'[v].pc = "idle"
               /\ \A w \in Visit \ {v} : visit'[w] = visit[w]
    BY <1>2, <1>3, <1>4 DEF S!End
  <1>5. ASSUME NEW pc \in {"idle", "session", "load", "hash", "signout"}, S!Goto(v, pc)
        PROVE  /\ visit' \in [Visit -> VisitRow]
               /\ visit'[v].pc = pc /\ visit'[v].link = visit[v].link
               /\ visit'[v].keep = visit[v].keep /\ visit'[v].op = visit[v].op
               /\ \A w \in Visit \ {v} : visit'[w] = visit[w]
    BY <1>1, <1>5 DEF S!Goto, VisitRow
  <1>6. QED
    BY <1>2, <1>4, <1>5

\* A request that starts without a link disturbs nothing.
LEMMA BeginKeeps ==
    ASSUME SessionsInv, NEW v \in Visit, NEW op \in {"login", "sso", "change", "key", "admin"},
           NEW pc \in {"session", "hash"}, NEW k \in Cookie \cup {S!NoId},
           S!Begin(v, op, pc, k, S!NoId), UNCHANGED <<session, link, opened, doomed, dropped, spared>>
    PROVE  SessionsInv'
  <1> DEFINE r == [op |-> op, pc |-> pc, keep |-> k, link |-> S!NoId]
  <1>1. r \in VisitRow /\ visit' = [visit EXCEPT ![v] = r] /\ visit[v].pc = "idle"
    BY DEF VisitRow, S!Begin
  <1>2. /\ visit' \in [Visit -> VisitRow] /\ visit'[v] = r
        /\ \A w \in Visit \ {v} : visit'[w] = visit[w]
    BY <1>1, VisitMoves DEF SessionsInv
  <1>3. SessionsType'
    BY <1>2 DEF SessionsInv, SessionsType
  <1>4. LinksSpent'
    BY <1>2, LinkAssumption DEF SessionsInv, LinksSpent
  <1>5. DoomPending'
    BY <1>1, <1>2 DEF SessionsInv, DoomPending
  <1>6. QED
    BY <1>3, <1>4, <1>5 DEF SessionsInv

\* Links are requested, mailed, expire and are consumed.
LEMMA LinkStep ==
    ASSUME SessionsInv, NEW l \in Link,
           \/ S!RequestMagicLink(l) \/ S!RequestPasswordReset(l)
           \/ S!sendMagicLink(l) \/ S!sendPasswordReset(l) \/ S!ExpireLink(l)
           \/ \E v \in Visit : S!Consume(v, l)
    PROVE  SessionsInv'
  <1>1. /\ link \in [Link -> LinkRow] /\ link[l] \in LinkRow
        /\ UNCHANGED <<session, opened, doomed, dropped, spared>>
    BY DEF SessionsInv, SessionsType, S!RequestMagicLink, S!RequestPasswordReset, S!RequestLink,
           S!sendMagicLink, S!sendPasswordReset, S!SendLink, S!ExpireLink, S!Consume, S!history
  <1>2. ASSUME link[l].state # "used", UNCHANGED visit, link' \in [Link -> LinkRow],
               \A k \in Link \ {l} : link'[k] = link[k]
        PROVE  SessionsInv'
    <2>1. SessionsType'
      BY <1>1, <1>2 DEF SessionsInv, SessionsType
    <2>2. LinksSpent'
      BY <1>1, <1>2 DEF SessionsInv, LinksSpent
    <2>3. DoomPending'
      BY <1>1, <1>2 DEF SessionsInv, DoomPending
    <2>4. QED
      BY <2>1, <2>2, <2>3 DEF SessionsInv
  <1>3. CASE S!RequestMagicLink(l) \/ S!RequestPasswordReset(l)
    <2>1. PICK kind \in {"magic", "reset"} :
             link' = [link EXCEPT ![l] = [kind |-> kind, state |-> "sending"]]
      BY <1>3 DEF S!RequestMagicLink, S!RequestPasswordReset, S!RequestLink
    <2>2. link[l].state # "used" /\ UNCHANGED visit
      BY <1>3 DEF S!RequestMagicLink, S!RequestPasswordReset, S!RequestLink
    <2>3. link' \in [Link -> LinkRow] /\ \A k \in Link \ {l} : link'[k] = link[k]
      BY <1>1, <2>1 DEF LinkRow
    <2>4. QED
      BY <1>2, <2>2, <2>3
  <1>4. CASE S!sendMagicLink(l) \/ S!sendPasswordReset(l)
    <2>1. /\ link[l].state = "sending" /\ UNCHANGED visit
          /\ link' = [link EXCEPT ![l].state = "sent"]
      BY <1>4 DEF S!sendMagicLink, S!sendPasswordReset, S!SendLink
    <2>2. link' \in [Link -> LinkRow] /\ \A k \in Link \ {l} : link'[k] = link[k]
      BY <1>1, <2>1 DEF LinkRow
    <2>3. QED
      BY <1>2, <2>1, <2>2
  <1>5. CASE S!ExpireLink(l)
    <2>1. /\ link[l].state = "sent" /\ UNCHANGED visit
          /\ link' = [link EXCEPT ![l].state = "expired"]
      BY <1>5 DEF S!ExpireLink
    <2>2. link' \in [Link -> LinkRow] /\ \A k \in Link \ {l} : link'[k] = link[k]
      BY <1>1, <2>1 DEF LinkRow
    <2>3. QED
      BY <1>2, <2>1, <2>2
  <1>6. ASSUME NEW v \in Visit, S!Consume(v, l) PROVE SessionsInv'
    <2> DEFINE r == [op |-> link[l].kind, pc |-> "load", keep |-> S!NoId, link |-> l]
    <2>1. /\ link[l].state = "sent" /\ link' = [link EXCEPT ![l].state = "used"]
          /\ visit[v].pc = "idle" /\ visit' = [visit EXCEPT ![v] = r]
      BY <1>6 DEF S!Consume, S!Begin
    <2>2. /\ link' \in [Link -> LinkRow] /\ link'[l].state = "used"
          /\ \A k \in Link \ {l} : link'[k] = link[k]
      BY <1>1, <2>1 DEF LinkRow
    <2>3. r \in VisitRow
      BY <1>1 DEF LinkRow, VisitRow
    <2>4. /\ visit' \in [Visit -> VisitRow] /\ visit'[v] = r
          /\ \A w \in Visit \ {v} : visit'[w] = visit[w]
      BY <2>1, <2>3, VisitMoves DEF SessionsInv
    <2>5. \A w \in Visit : visit[w].link # l
      BY <2>1 DEF SessionsInv, LinksSpent
    <2>6. SessionsType'
      BY <1>1, <2>2, <2>4 DEF SessionsInv, SessionsType
    <2>7. LinksSpent'
      BY <1>1, <2>1, <2>2, <2>4, <2>5 DEF SessionsInv, LinksSpent
    <2>8. DoomPending'
      BY <1>1, <2>1, <2>4 DEF SessionsInv, DoomPending
    <2>9. QED
      BY <2>6, <2>7, <2>8 DEF SessionsInv
  <1>7. QED
    BY <1>3, <1>4, <1>5, <1>6

\* The steps of a request that is being served.
LEMMA ServeStep ==
    ASSUME SessionsInv, NEW v \in Visit,
           \/ S!LoadUser(v) \/ S!createSession(v) \/ S!WriteHash(v) \/ S!SignOut(v)
           \/ S!CutShort(v)
    PROVE  SessionsInv'
  <1>1. /\ visit \in [Visit -> VisitRow] /\ session \in [Cookie -> {"absent", "live", "gone"}]
        /\ opened \in [Link -> Nat] /\ doomed \subseteq Cookie
    BY DEF SessionsInv, SessionsType
  <1> DEFINE Moved == /\ visit' \in [Visit -> VisitRow]
                      /\ visit'[v].link \in {visit[v].link, S!NoId}
                      /\ \A w \in Visit \ {v} : visit'[w] = visit[w]
  <1>2. ASSUME S!End(v) \/ \E pc \in {"session", "hash", "signout"} : S!Goto(v, pc)
        PROVE  Moved
    BY <1>2, VisitMoves DEF SessionsInv
  <1>3. ASSUME Moved, UNCHANGED <<link, opened>> PROVE LinksSpent'
    BY <1>3, LinkAssumption DEF SessionsInv, LinksSpent
  <1>4. CASE S!LoadUser(v)
    <2>1. /\ visit[v].pc = "load" /\ UNCHANGED <<session, link, opened, doomed, dropped, spared>>
          /\ S!End(v) \/ S!Goto(v, "hash") \/ S!Goto(v, "session")
      BY <1>4 DEF S!LoadUser, S!At, S!history
    <2>2. Moved
      BY <1>2, <2>1
    <2>3. SessionsType'
      BY <2>1, <2>2 DEF SessionsInv, SessionsType
    <2>4. DoomPending'
      BY <2>1, <2>2 DEF SessionsInv, DoomPending
    <2>5. QED
      BY <1>3, <2>1, <2>2, <2>3, <2>4 DEF SessionsInv
  <1>5. CASE S!createSession(v)
    <2>1. /\ visit[v].pc = "session" /\ UNCHANGED <<link, doomed, dropped, spared>> /\ S!End(v)
          /\ opened' = [l \in Link |-> opened[l] + IF visit[v].link = l THEN 1 ELSE 0]
      BY <1>5 DEF S!createSession, S!At, S!history
    <2>2. PICK c \in Cookie : session[c] = "absent" /\ session' = [session EXCEPT ![c] = "live"]
      BY <1>5 DEF S!createSession
    <2>3. Moved /\ visit'[v].link = S!NoId
      BY <1>2, <2>1, VisitMoves DEF SessionsInv
    <2>4. SessionsType'
      BY <1>1, <2>1, <2>2, <2>3 DEF SessionsInv, SessionsType
    <2>5. /\ \A l \in Link : visit[v].link # l => opened'[l] = opened[l]
          /\ \A l \in Link : visit[v].link = l => opened'[l] = opened[l] + 1
      BY <1>1, <2>1
    <2>6. LinksSpent'
      <3>1. ASSUME NEW l \in Link
            PROVE  opened'[l] <= 1 /\ (link'[l].state # "used" => opened'[l] = 0)
        BY <1>1, <2>1, <2>5 DEF SessionsInv, LinksSpent
      <3>2. ASSUME NEW w \in Visit, visit'[w].link \in Link
            PROVE  /\ w # v /\ visit[w].link # visit[v].link /\ visit'[w] = visit[w]
                   /\ link[visit[w].link].state = "used" /\ opened[visit[w].link] = 0
        BY <2>3, <3>2, LinkAssumption DEF SessionsInv, LinksSpent
      <3>3. ASSUME NEW w \in Visit, visit'[w].link \in Link
            PROVE  /\ link'[visit'[w].link].state = "used" /\ opened'[visit'[w].link] = 0
                   /\ \A u \in Visit : visit'[u].link = visit'[w].link => u = w
        BY <2>1, <2>3, <2>5, <3>2, <3>3, LinkAssumption DEF SessionsInv, LinksSpent
      <3>4. QED
        BY <3>1, <3>3 DEF LinksSpent
    <2>7. DoomPending'
      BY <1>1, <2>1, <2>2, <2>3 DEF SessionsInv, DoomPending
    <2>8. QED
      BY <2>4, <2>6, <2>7 DEF SessionsInv
  <1>6. CASE S!WriteHash(v)
    <2>1. /\ visit[v].pc = "hash" /\ UNCHANGED <<session, link, opened, dropped>>
          /\ S!Goto(v, "signout")
          /\ doomed' = doomed \cup ({c \in Cookie : session[c] = "live"} \ S!Own(v))
          /\ spared' = spared \ ({c \in Cookie : session[c] = "live"} \ S!Own(v))
      BY <1>6 DEF S!WriteHash, S!At, S!Live
    <2>2. /\ Moved /\ visit'[v].pc = "signout"
          /\ visit'[v].keep = visit[v].keep /\ visit'[v].op = visit[v].op
      BY <1>2, <2>1, VisitMoves DEF SessionsInv
    <2>3. SessionsType'
      BY <1>1, <2>1, <2>2 DEF SessionsInv, SessionsType
    <2>4. ASSUME NEW c \in doomed' PROVE session'[c] # "absent"
      BY <1>1, <2>1, <2>4 DEF SessionsInv, DoomPending
    <2>5. \A c \in doomed' \ spared' : session'[c] = "live" =>
             dropped' \/ \E w \in Visit : /\ visit'[w].pc = "signout"
                                          /\ visit'[w].keep # c \/ visit'[w].op = "key"
      <3> TAKE c \in doomed' \ spared'
      <3> HAVE session'[c] = "live"
      <3>1. CASE c \notin S!Own(v)
        BY <2>2, <3>1 DEF S!Own
      <3>2. CASE c \in S!Own(v)
        BY <1>1, <2>1, <2>2, <3>2 DEF SessionsInv, DoomPending
      <3>3. QED
        BY <3>1, <3>2
    <2>6. DoomPending'
      BY <2>4, <2>5, Zenon DEF DoomPending
    <2>7. QED
      BY <1>3, <2>1, <2>2, <2>3, <2>6 DEF SessionsInv
  <1>7. CASE S!SignOut(v)
    <2>1. /\ visit[v].pc = "signout" /\ UNCHANGED <<link, opened, doomed, dropped>>
          /\ S!End(v) \/ S!Goto(v, "session")
          /\ session' = [c \in Cookie |-> IF session[c] = "live" /\ c # visit[v].keep
                                          THEN "gone" ELSE session[c]]
          /\ spared' = spared \cup (({c \in Cookie : session[c] = "live"}
                                        \cap {visit[v].keep}) \ S!Own(v))
      BY <1>1, <1>7 DEF S!SignOut, S!At, S!Ended, S!Live
    <2>2. Moved
      BY <1>2, <2>1
    <2>3. SessionsType'
      BY <1>1, <2>1, <2>2 DEF SessionsInv, SessionsType
    <2>4. ASSUME NEW c \in doomed', session'[c] = "live", c \notin spared'
          PROVE  c \in doomed \ spared /\ session[c] = "live"
                 /\ c = visit[v].keep /\ visit[v].op # "key"
      <3>1. c \in doomed /\ c \in Cookie
        BY <1>1, <2>1, <2>4
      <3>2. session[c] = "live" /\ c = visit[v].keep
        BY <2>1, <2>4, <3>1
      <3>3. visit[v].op = "key" => c \in spared'
        BY <2>1, <3>1, <3>2 DEF S!Own
      <3>4. c \notin spared
        BY <2>1, <2>4
      <3>5. QED
        BY <2>4, <3>1, <3>2, <3>3, <3>4
    <2>5. \A c \in doomed' : session'[c] # "absent"
      BY <1>1, <2>1 DEF SessionsInv, DoomPending
    <2>6. DoomPending'
      BY <2>1, <2>2, <2>4, <2>5 DEF SessionsInv, DoomPending
    <2>7. QED
      BY <1>3, <2>1, <2>2, <2>3, <2>6 DEF SessionsInv
  <1>8. CASE S!CutShort(v)
    <2>1. /\ UNCHANGED <<session, link, opened, doomed, spared>>
          /\ dropped' = (dropped \/ visit[v].pc = "signout")
          /\ S!End(v) \/ S!Goto(v, "session")
      BY <1>8 DEF S!CutShort, S!At
    <2>2. Moved
      BY <1>2, <2>1
    <2>3. SessionsType'
      BY <2>1, <2>2 DEF SessionsInv, SessionsType
    <2>4. DoomPending'
      <3>1. (dropped => dropped') /\ (visit[v].pc = "signout" => dropped')
        BY <2>1, Zenon
      <3>2. QED
        BY <1>1, <2>1, <2>2, <3>1 DEF SessionsInv, DoomPending
    <2>5. QED
      BY <1>3, <2>1, <2>2, <2>3, <2>4 DEF SessionsInv
  <1>9. QED
    BY <1>4, <1>5, <1>6, <1>7, <1>8

\* Sessions end.
LEMMA EndedKeeps ==
    ASSUME SessionsInv, NEW gone \in SUBSET {c \in Cookie : session[c] = "live"},
           S!Ended(gone), UNCHANGED <<link, visit, opened, doomed, dropped, spared>>
    PROVE  SessionsInv'
  <1>1. /\ session' \in [Cookie -> {"absent", "live", "gone"}]
        /\ \A c \in Cookie : session'[c] = IF c \in gone THEN "gone" ELSE session[c]
    BY DEF SessionsInv, SessionsType, S!Ended
  <1>2. SessionsType'
    BY <1>1 DEF SessionsInv, SessionsType
  <1>3. LinksSpent'
    BY DEF SessionsInv, LinksSpent
  <1>4. DoomPending'
    BY <1>1 DEF SessionsInv, SessionsType, DoomPending
  <1>5. QED
    BY <1>2, <1>3, <1>4 DEF SessionsInv

\* Every step of Sessions keeps its invariant.
LEMMA SessionsStep ==
    ASSUME SessionsInv, S!SessionsNext \/ UNCHANGED sVars
    PROVE  SessionsInv'
  <1>1. CASE S!SignInStep
    <2>1. ASSUME NEW v \in Visit,
                 S!LoginEmail(v) \/ S!CallbackGoogle(v) \/ S!CallbackMicrosoft(v)
          PROVE  SessionsInv'
      <3>1. /\ S!Begin(v, "login", "session", S!NoId, S!NoId)
                  \/ S!Begin(v, "sso", "session", S!NoId, S!NoId)
            /\ UNCHANGED <<session, link, opened, doomed, dropped, spared>>
        BY <2>1 DEF S!LoginEmail, S!CallbackGoogle, S!CallbackMicrosoft, S!finishOAuthLogin,
                    S!history
      <3>2. QED
        BY <3>1, BeginKeeps
    <2>2. QED
      BY <1>1, <2>1, LinkStep, ServeStep DEF S!SignInStep, S!VerifyMagicLink, S!ResetPassword
  <1>2. CASE S!PasswordStep
    <2>1. ASSUME NEW v \in Visit, S!AdminSetPassword(v) PROVE SessionsInv'
      <3>1. /\ S!Begin(v, "admin", "hash", S!NoId, S!NoId)
            /\ UNCHANGED <<session, link, opened, doomed, dropped, spared>>
        BY <2>1 DEF S!AdminSetPassword, S!history
      <3>2. QED
        BY <3>1, BeginKeeps
    <2>2. ASSUME NEW v \in Visit, NEW c \in Cookie \cup {S!NoId}, S!ChangePassword(v, c)
          PROVE  SessionsInv'
      <3>1. /\ S!Begin(v, "change", "hash", c, S!NoId) \/ S!Begin(v, "key", "hash", c, S!NoId)
            /\ UNCHANGED <<session, link, opened, doomed, dropped, spared>>
        BY <2>2 DEF S!ChangePassword, S!history
      <3>2. QED
        BY <3>1, BeginKeeps
    <2>3. CASE S!runResetAdmin
      BY <2>3 DEF S!runResetAdmin, SessionsInv, SessionsType, LinksSpent, DoomPending
    <2>4. QED
      BY <1>2, <2>1, <2>2, <2>3, ServeStep DEF S!PasswordStep
  <1>3. CASE S!SignOutStep
    <2>1. ASSUME NEW c \in Cookie, S!EndSession(c) PROVE SessionsInv'
      <3>1. {c} \in SUBSET {d \in Cookie : session[d] = "live"}
        BY <2>1 DEF S!EndSession, S!Live
      <3>2. S!Ended({c}) /\ UNCHANGED <<link, visit, opened, doomed, dropped, spared>>
        BY <2>1 DEF S!EndSession, S!history
      <3>3. QED
        BY <3>1, <3>2, EndedKeeps
    <2>2. ASSUME NEW c \in Cookie \cup {S!NoId}, S!RevokeAllSessions(c) PROVE SessionsInv'
      <3>1. S!Live \ {c} \in SUBSET {d \in Cookie : session[d] = "live"}
        BY DEF S!Live
      <3>2. S!Ended(S!Live \ {c}) /\ UNCHANGED <<link, visit, opened, doomed, dropped, spared>>
        BY <2>2 DEF S!RevokeAllSessions, S!history
      <3>3. QED
        BY <3>1, <3>2, EndedKeeps
    <2>3. CASE S!Archiving
      BY <2>3 DEF S!Archiving, S!history, SessionsInv, SessionsType, LinksSpent, DoomPending
    <2>4. QED
      BY <1>3, <2>1, <2>2, <2>3 DEF S!SignOutStep
  <1>4. CASE UNCHANGED sVars
    BY <1>4 DEF sVars, SessionsInv, SessionsType, LinksSpent, DoomPending
  <1>5. QED
    BY <1>1, <1>2, <1>3, <1>4 DEF S!SessionsNext

\* A link opens one session however its clicks overlap, and a new password ends the sessions
\* that were open before it but for the one whose cookie came with the request, for any number
\* of sessions, links and overlapping requests, with a session or an API key.
THEOREM SignInHolds == AccountsSpec => []SignInIsSound
  <1>1. AccountsInit => SessionsInv
    <2> SUFFICES ASSUME S!SessionsInit PROVE SessionsInv
      BY DEF AccountsInit
    <2>1. S!Idle \in VisitRow /\ S!Idle.link = S!NoId
      BY DEF S!Idle, VisitRow
    <2>2. SessionsType
      BY <2>1 DEF S!SessionsInit, SessionsType, LinkRow
    <2>3. LinksSpent
      BY <2>1, LinkAssumption DEF S!SessionsInit, LinksSpent
    <2>4. QED
      BY <2>2, <2>3 DEF S!SessionsInit, SessionsInv, DoomPending
  <1>2. SessionsInv /\ [AccountsNext]_accountsVars => SessionsInv'
    BY SessionsStep
       DEF AccountsNext, accountsVars, MembersMove, SessionsMove, AgentsMove, TypesMove,
           CalendarsMove, KeysMove
  <1>3. SessionsInv => SignInIsSound
    <2> SUFFICES ASSUME SessionsInv PROVE SignInIsSound
      OBVIOUS
    <2>1. S!LinkOpensOne
      BY DEF SessionsInv, LinksSpent, S!LinkOpensOne
    <2>2. S!NewPasswordSignsOut
      BY DEF SessionsInv, DoomPending, S!NewPasswordSignsOut, S!Live, S!At
    <2>3. QED
      BY <2>1, <2>2 DEF SignInIsSound
  <1>4. QED
    BY <1>1, <1>2, <1>3, PTL DEF AccountsSpec
-----------------------------------------------------------------------------
(* Agents.                                                                 *)

GrantRow == [state: {"absent", "live", "revoked"}, refresh: Nat, fresh: BOOLEAN]

TokenRow == [pc: {"idle", "consume", "insert", "rotate"}, grant: Grant \cup {A!NoGrant}]

AgentsType ==
    /\ grant \in [Grant -> GrantRow]
    /\ held \in [Grant -> Nat]
    /\ exchange \in [TokenRequest -> TokenRow]

\* A refresh under way has a connection that was there once, and the client holds nothing of
\* one that never was.
Traceable ==
    /\ \A x \in TokenRequest : exchange[x].pc = "rotate" =>
          exchange[x].grant \in Grant /\ grant[exchange[x].grant].state # "absent"
    /\ \A g \in Grant : grant[g].state = "absent" => held[g] = 0

AgentsInv == AgentsType /\ Traceable /\ A!ClientCanRefresh

RevokedStays == \A g \in Grant : grant[g].state = "revoked" => grant'[g].state = "revoked"

\* Every step of Agents keeps the invariant, and what is revoked stays so.
LEMMA AgentsStep ==
    ASSUME AgentsInv, A!AgentsNext \/ UNCHANGED aVars
    PROVE  AgentsInv' /\ RevokedStays
  <1>1. /\ grant \in [Grant -> GrantRow] /\ held \in [Grant -> Nat]
        /\ exchange \in [TokenRequest -> TokenRow]
    BY DEF AgentsInv, AgentsType
  <1>2. A!Waiting \in TokenRow /\ A!Waiting.pc = "idle"
    BY DEF A!Waiting, TokenRow
  <1>3. CASE UNCHANGED <<grant, held, exchange, astray>>
    BY <1>3 DEF AgentsInv, AgentsType, Traceable, RevokedStays, A!ClientCanRefresh
  \* Only the requests change.
  <1>4. ASSUME NEW x \in TokenRequest, exchange' \in [TokenRequest -> TokenRow],
               UNCHANGED <<grant, held>>, astray \subseteq astray',
               \A y \in TokenRequest \ {x} : exchange'[y] = exchange[y],
               exchange'[x].pc = "rotate" =>
                   exchange'[x].grant \in Grant /\ grant[exchange'[x].grant].state # "absent"
        PROVE  AgentsInv' /\ RevokedStays
    <2>1. Traceable'
      BY <1>4 DEF AgentsInv, Traceable
    <2>2. QED
      BY <1>4, <2>1 DEF AgentsInv, AgentsType, RevokedStays, A!ClientCanRefresh
  \* Connections are revoked or expire.
  <1>5. ASSUME grant' \in [Grant -> GrantRow], UNCHANGED <<held, exchange, astray>>,
               \A g \in Grant : /\ grant'[g].refresh = grant[g].refresh
                                /\ \/ grant'[g].state = grant[g].state
                                   \/ grant[g].state = "live" /\ grant'[g].state = "revoked"
        PROVE  AgentsInv' /\ RevokedStays
    <2>1. Traceable'
      BY <1>5 DEF AgentsInv, Traceable
    <2>2. A!ClientCanRefresh'
      BY <1>5 DEF AgentsInv, A!ClientCanRefresh
    <2>3. QED
      BY <1>5, <2>1, <2>2 DEF AgentsInv, AgentsType, RevokedStays
  <1>6. ASSUME NEW x \in TokenRequest, A!SelectCode(x) PROVE AgentsInv' /\ RevokedStays
    <2> DEFINE r == [pc |-> "consume", grant |-> A!NoGrant]
    <2>1. exchange' = [exchange EXCEPT ![x] = r] /\ UNCHANGED <<grant, held, astray>>
      BY <1>6 DEF A!SelectCode, A!Serve
    <2>2. r \in TokenRow
      BY DEF TokenRow
    <2>3. QED
      BY <1>1, <1>4, <2>1, <2>2
  <1>7. ASSUME NEW x \in TokenRequest, A!DeleteCode(x) PROVE AgentsInv' /\ RevokedStays
    <2>1. UNCHANGED <<grant, held, astray>>
      BY <1>7 DEF A!DeleteCode
    <2>2. CASE exchange' = [exchange EXCEPT ![x].pc = "insert"]
      <3>1. /\ exchange' \in [TokenRequest -> TokenRow] /\ exchange'[x].pc = "insert"
            /\ \A y \in TokenRequest \ {x} : exchange'[y] = exchange[y]
        BY <1>1, <2>2 DEF TokenRow
      <3>2. QED
        BY <1>4, <2>1, <3>1
    <2>3. CASE A!Return(x)
      BY <1>1, <1>2, <1>4, <2>1, <2>3 DEF A!Return
    <2>4. QED
      BY <1>7, <2>2, <2>3 DEF A!DeleteCode
  <1>8. ASSUME NEW x \in TokenRequest, A!InsertGrant(x) PROVE AgentsInv' /\ RevokedStays
    <2> DEFINE r == [state |-> "live", refresh |-> 0, fresh |-> TRUE]
    <2>1. PICK g \in Grant : grant[g].state = "absent" /\ grant' = [grant EXCEPT ![g] = r]
      BY <1>8 DEF A!InsertGrant
    <2>2. UNCHANGED <<held, astray>> /\ exchange' = [exchange EXCEPT ![x] = A!Waiting]
      BY <1>8 DEF A!InsertGrant, A!Return
    <2>3. r \in GrantRow
      BY DEF GrantRow
    <2>4. /\ grant' \in [Grant -> GrantRow] /\ grant'[g] = r
          /\ \A h \in Grant \ {g} : grant'[h] = grant[h]
      BY <1>1, <2>1, <2>3
    <2>5. /\ exchange' \in [TokenRequest -> TokenRow] /\ exchange'[x].pc = "idle"
          /\ \A y \in TokenRequest \ {x} : exchange'[y] = exchange[y]
      BY <1>1, <1>2, <2>2
    <2>6. Traceable'
      BY <2>1, <2>2, <2>4, <2>5 DEF AgentsInv, Traceable
    <2>7. A!ClientCanRefresh'
      BY <2>1, <2>2, <2>4 DEF AgentsInv, Traceable, A!ClientCanRefresh
    <2>8. QED
      BY <1>1, <2>1, <2>2, <2>4, <2>5, <2>6, <2>7 DEF AgentsInv, AgentsType, RevokedStays
  <1>9. ASSUME NEW x \in TokenRequest, NEW g \in Grant, A!SelectGrant(x, g)
        PROVE  AgentsInv' /\ RevokedStays
    <2> DEFINE r == [pc |-> "rotate", grant |-> g]
    <2>1. /\ exchange' = [exchange EXCEPT ![x] = r] /\ UNCHANGED <<grant, held>>
          /\ astray \subseteq astray' /\ grant[g].state = "live"
      BY <1>9 DEF A!SelectGrant, A!Serve
    <2>2. r \in TokenRow
      BY DEF TokenRow
    <2>3. QED
      BY <1>1, <1>4, <2>1, <2>2
  <1>10. ASSUME NEW x \in TokenRequest, A!Rotate(x) PROVE AgentsInv' /\ RevokedStays
    <2>1. PICK g \in Grant : g = exchange[x].grant
      BY <1>10 DEF A!Rotate, AgentsInv, Traceable
    <2>2. PICK n : n = grant[g].refresh + 1
      OBVIOUS
    <2>3. grant[g] \in GrantRow /\ grant[g].state # "absent" /\ n \in Nat
      BY <1>1, <1>10, <2>1, <2>2 DEF A!Rotate, AgentsInv, Traceable, GrantRow
    <2>4. /\ IF grant[g].state = "live"
             THEN grant' = [grant EXCEPT ![g].refresh = n, ![g].fresh = TRUE]
             ELSE UNCHANGED grant
          /\ \/ held' = [held EXCEPT ![g] = n] /\ UNCHANGED astray
             \/ UNCHANGED held /\ astray' = astray \cup {g}
          /\ exchange' = [exchange EXCEPT ![x] = A!Waiting]
      BY <1>10, <2>1, <2>2 DEF A!Rotate, A!Return
    <2>5. /\ exchange' \in [TokenRequest -> TokenRow] /\ exchange'[x].pc = "idle"
          /\ \A y \in TokenRequest \ {x} : exchange'[y] = exchange[y]
      BY <1>1, <1>2, <2>4
    <2>6. /\ grant' \in [Grant -> GrantRow] /\ grant'[g].state = grant[g].state
          /\ grant[g].state = "live" => grant'[g].refresh = n
          /\ \A h \in Grant \ {g} : grant'[h] = grant[h]
      <3>1. CASE grant[g].state = "live"
        <4>1. grant' = [grant EXCEPT ![g].refresh = n, ![g].fresh = TRUE]
          BY <2>4, <3>1
        <4>2. DOMAIN grant' = Grant /\ \A h \in Grant \ {g} : grant'[h] = grant[h]
          BY <1>1, <4>1
        <4>3. grant'[g] = [grant[g] EXCEPT !.refresh = n, !.fresh = TRUE]
          BY <1>1, <4>1
        <4>4. grant'[g] \in GrantRow
          BY <2>3, <4>3 DEF GrantRow
        <4>5. grant'[g].state = grant[g].state /\ grant'[g].refresh = n
          BY <2>3, <4>3, <4>4 DEF GrantRow
        <4>6. grant' \in [Grant -> GrantRow]
          BY <1>1, <4>1, <4>2, <4>4
        <4>7. QED
          BY <4>2, <4>5, <4>6
      <3>2. CASE grant[g].state # "live"
        BY <1>1, <2>4, <3>2
      <3>3. QED
        BY <3>1, <3>2
    <2>7. held' \in [Grant -> Nat] /\ \A h \in Grant \ {g} : held'[h] = held[h]
      BY <1>1, <2>3, <2>4
    <2>8. Traceable'
      BY <2>3, <2>5, <2>6, <2>7 DEF AgentsInv, Traceable
    <2>9. A!ClientCanRefresh'
      BY <1>1, <2>4, <2>6, <2>7 DEF AgentsInv, A!ClientCanRefresh
    <2>10. QED
      BY <2>5, <2>6, <2>7, <2>8, <2>9 DEF AgentsInv, AgentsType, RevokedStays
  <1>11. ASSUME NEW g \in Grant, A!AccessExpires(g) PROVE AgentsInv' /\ RevokedStays
    <2>1. /\ grant' = [grant EXCEPT ![g].fresh = FALSE] /\ UNCHANGED <<held, exchange, astray>>
      BY <1>11 DEF A!AccessExpires
    <2>2. /\ grant' \in [Grant -> GrantRow]
          /\ \A h \in Grant : grant'[h].refresh = grant[h].refresh
                              /\ grant'[h].state = grant[h].state
      BY <1>1, <2>1 DEF GrantRow
    <2>3. QED
      BY <1>5, <2>1, <2>2
  <1>12. ASSUME NEW g \in Grant
         PROVE  /\ A!Revoked(g) \in GrantRow /\ A!Revoked(g).refresh = grant[g].refresh
                /\ \/ A!Revoked(g).state = grant[g].state
                   \/ grant[g].state = "live" /\ A!Revoked(g).state = "revoked"
    <2>1. grant[g] \in GrantRow
      BY <1>1
    <2>2. CASE grant[g].state = "live"
      <3>1. A!Revoked(g) = [grant[g] EXCEPT !.state = "revoked", !.fresh = FALSE]
        BY <2>2 DEF A!Revoked
      <3>2. A!Revoked(g) \in GrantRow
        BY <2>1, <3>1 DEF GrantRow
      <3>3. QED
        BY <2>1, <2>2, <3>1, <3>2 DEF GrantRow
    <2>3. CASE grant[g].state # "live"
      BY <2>1, <2>3 DEF A!Revoked
    <2>4. QED
      BY <2>2, <2>3
  <1>13. ASSUME NEW g \in Grant, A!RevokeOAuthConnection(g) PROVE AgentsInv' /\ RevokedStays
    <2>1. grant' = [grant EXCEPT ![g] = A!Revoked(g)] /\ UNCHANGED <<held, exchange, astray>>
      BY <1>13 DEF A!RevokeOAuthConnection
    <2>2. QED
      BY <1>1, <1>5, <1>12, <2>1
  <1>14. CASE A!RevokeAllConnections
    <2>1. grant' = [g \in Grant |-> A!Revoked(g)] /\ UNCHANGED <<held, exchange, astray>>
      BY <1>14 DEF A!RevokeAllConnections
    <2>2. QED
      BY <1>1, <1>5, <1>12, <2>1
  <1>15. QED
    BY <1>3, <1>6, <1>7, <1>8, <1>9, <1>10, <1>11, <1>13, <1>14
       DEF A!AgentsNext, aVars, A!MemberChanges, A!CreateAPIKey, A!DeleteAPIKey,
           A!RegisterOAuthClient, A!AuthorizeMCPDecision

\* The client of a live connection can refresh it, and no token of a revoked one is let in,
\* for any number of connections, overlapping requests and refreshes.
THEOREM GrantsHold == AccountsSpec => ConnectionsAsGranted
  <1>1. AccountsInit => AgentsInv
    <2> SUFFICES ASSUME A!AgentsInit PROVE AgentsInv
      BY DEF AccountsInit
    <2>1. A!Waiting \in TokenRow /\ A!Waiting.pc = "idle"
      BY DEF A!Waiting, TokenRow
    <2>2. AgentsType
      BY <2>1 DEF A!AgentsInit, AgentsType, GrantRow
    <2>3. Traceable
      BY <2>1 DEF A!AgentsInit, Traceable
    <2>4. QED
      BY <2>2, <2>3 DEF A!AgentsInit, AgentsInv, A!ClientCanRefresh
  <1>2. AgentsInv /\ [AccountsNext]_accountsVars => AgentsInv' /\ RevokedStays
    BY AgentsStep
       DEF AccountsNext, accountsVars, MembersMove, SessionsMove, AgentsMove, TypesMove,
           CalendarsMove, KeysMove
  <1>3. RevokedStays => A!StaysRevoked
    BY DEF RevokedStays, A!StaysRevoked, A!VerifyMCPBearer
  <1>4. AgentsInv' => A!ClientCanRefresh'
    BY DEF AgentsInv
  <1>5. AgentsInv /\ [AccountsNext]_accountsVars
           => [A!ClientCanRefresh' /\ A!StaysRevoked]_accountsVars
    BY <1>2, <1>3, <1>4
  <1>6. QED
    BY <1>1, <1>2, <1>5, PTL DEF AccountsSpec, ConnectionsAsGranted
-----------------------------------------------------------------------------
(* Event types.                                                            *)

TypeRow == [there: BOOLEAN, slug: Slug \cup {""}, owner: E!Member, active: BOOLEAN,
            shelved: BOOLEAN, role: [E!Member -> Role]]

AskRow == [op: E!Changes \cup {"none", "book", "delete", "copy", "hosts"},
           pc: {"idle", "count", "update", "delete", "copy", "hosts", "book"},
           type: Type \cup {""}, slug: Slug \cup {""}]

TypesType ==
    /\ type \in [Type -> TypeRow]
    /\ booked \in [Type -> {"none", "upcoming", "over"}]
    /\ ask \in [Asker \cup Visitor -> AskRow]
    /\ linked \in [Type -> SUBSET (Slug \cup {""})] /\ crossed \subseteq Type

\* A request at work has an event type, and a patch something to change; a type that was
\* booked under a link has bookings, and one with bookings is there; and a rename that is
\* about to be saved is one of a type without bookings, but for the crossed.
Pinned ==
    /\ \A a \in Asker \cup Visitor :
          /\ ask[a].pc # "idle" => ask[a].type \in Type
          /\ ask[a].pc \in {"count", "update"} => ask[a].op \in E!Changes
    /\ \A t \in Type : /\ linked[t] # {} => booked[t] # "none"
                       /\ booked[t] # "none" => type[t].there
    /\ \A t \in Type \ crossed : booked[t] # "none" => ~E!Renaming(t)

TypesInv == TypesType /\ Pinned /\ E!LinksHold

\* A patch gives a row again, and only a rename changes the slug.
LEMMA PatchedRow ==
    ASSUME NEW row \in TypeRow, NEW op \in E!Changes, NEW s \in Slug \cup {""}
    PROVE  /\ E!Patched(row, op, s) \in TypeRow
           /\ E!Patched(row, op, s).there = row.there
           /\ op # "rename" => E!Patched(row, op, s).slug = row.slug
  <1>1. CASE op = "rename"
    <2>1. E!Patched(row, op, s) = [row EXCEPT !.slug = s]
      BY <1>1, Zenon DEF E!Patched
    <2>2. QED
      BY <1>1, <2>1 DEF TypeRow
  <1>2. CASE op = "open"
    <2>1. E!Patched(row, op, s) = [row EXCEPT !.active = TRUE]
      BY <1>2, Zenon DEF E!Patched
    <2>2. QED
      BY <1>2, <2>1 DEF TypeRow
  <1>3. CASE op = "close"
    <2>1. E!Patched(row, op, s) = [row EXCEPT !.active = FALSE]
      BY <1>3, Zenon DEF E!Patched
    <2>2. QED
      BY <1>3, <2>1 DEF TypeRow
  <1>4. CASE op = "shelve"
    <2>1. E!Patched(row, op, s) = [row EXCEPT !.active = FALSE, !.shelved = TRUE]
      BY <1>4, Zenon DEF E!Patched
    <2>2. QED
      BY <1>4, <2>1 DEF TypeRow
  <1>5. CASE op = "unshelve"
    <2>1. E!Patched(row, op, s) = [row EXCEPT !.shelved = FALSE]
      BY <1>5, Zenon DEF E!Patched
    <2>2. QED
      BY <1>5, <2>1 DEF TypeRow
  <1>6. QED
    BY <1>1, <1>2, <1>3, <1>4, <1>5 DEF E!Changes

\* What an empty row and an idle request look like.
LEMMA EmptyRows ==
    /\ E!None \in TypeRow /\ E!None.there = FALSE
    /\ E!Quiet \in AskRow /\ E!Quiet.pc = "idle"
  BY DEF E!None, E!Quiet, TypeRow, AskRow, E!Member, Role

\* The steps that book nothing: rows and requests change, a row with bookings keeps its place
\* and its link, and a rename gets to its update only while there are no bookings.
LEMMA EditStep ==
    ASSUME TypesInv, UNCHANGED <<booked, linked, crossed>>,
           type' \in [Type -> TypeRow], ask' \in [Asker \cup Visitor -> AskRow],
           \A t \in Type : booked[t] # "none" =>
               type'[t].there /\ (t \notin crossed => type'[t].slug = type[t].slug),
           \A a \in Asker \cup Visitor :
               \/ ask'[a] = ask[a]
               \/ /\ ask'[a].pc # "idle" => ask'[a].type \in Type
                  /\ ask'[a].pc \in {"count", "update"} => ask'[a].op \in E!Changes
                  /\ ask'[a].pc = "update" /\ ask'[a].op = "rename" =>
                         booked[ask'[a].type] = "none"
    PROVE  TypesInv'
  <1>1. TypesType'
    BY DEF TypesInv, TypesType
  <1>2. Pinned'
    <2>1. \A a \in Asker \cup Visitor :
             /\ ask'[a].pc # "idle" => ask'[a].type \in Type
             /\ ask'[a].pc \in {"count", "update"} => ask'[a].op \in E!Changes
      BY DEF TypesInv, Pinned
    <2>2. ASSUME NEW t \in Type \ crossed', booked'[t] # "none", NEW a \in Asker,
                 ask'[a].pc = "update", ask'[a].op = "rename", ask'[a].type = t
          PROVE  FALSE
      BY <2>2 DEF TypesInv, Pinned, E!Renaming, E!At
    <2>3. \A t \in Type \ crossed' : booked'[t] # "none" => ~E!Renaming(t)'
      BY <2>2 DEF E!Renaming, E!At
    <2>4. QED
      BY <2>1, <2>3 DEF TypesInv, Pinned
  <1>3. E!LinksHold'
    BY DEF TypesInv, Pinned, E!LinksHold, E!There
  <1>4. QED
    BY <1>1, <1>2, <1>3 DEF TypesInv

\* A request that a lookup starts is none that is about to save a new slug.
LEMMA LookupStep ==
    ASSUME TypesInv, NEW a \in Asker \cup Visitor, NEW t \in Type,
           NEW op \in E!Changes \cup {"book", "delete", "copy", "hosts"},
           NEW pc \in {"count", "update", "delete", "copy", "hosts", "book"},
           NEW s \in Slug \cup {""}, op = "rename" => pc # "update",
           pc \in {"count", "update"} => op \in E!Changes,
           E!Lookup(a, op, pc, t, s)
    PROVE  TypesInv'
  <1> DEFINE r == [op |-> op, pc |-> pc, type |-> t, slug |-> s]
  <1>1. r \in AskRow /\ r.type = t /\ r.op = op /\ r.pc = pc
    BY DEF AskRow
  <1>2. ask' = [ask EXCEPT ![a] = r] /\ UNCHANGED <<type, booked, linked, crossed>>
    BY DEF E!Lookup
  <1> HIDE DEF r
  <1>3. /\ ask' \in [Asker \cup Visitor -> AskRow] /\ ask'[a] = r
        /\ \A b \in Asker \cup Visitor : b # a => ask'[b] = ask[b]
    BY <1>1, <1>2 DEF TypesInv, TypesType
  <1>4. type' \in [Type -> TypeRow] /\ \A u \in Type : booked[u] # "none" => type'[u].there
    BY <1>2 DEF TypesInv, TypesType, Pinned
  <1>5. QED
    BY <1>1, <1>2, <1>3, <1>4, EditStep

\* A request that answers, and what it may do to the rows.
LEMMA ReplyStep ==
    ASSUME TypesInv, NEW a \in Asker, E!Reply(a), UNCHANGED <<booked, linked, crossed>>,
           type' \in [Type -> TypeRow],
           \A t \in Type : booked[t] # "none" =>
               type'[t].there /\ (t \notin crossed => type'[t].slug = type[t].slug)
    PROVE  TypesInv'
  <1>1. /\ ask' \in [Asker \cup Visitor -> AskRow] /\ ask'[a].pc = "idle"
        /\ \A b \in Asker \cup Visitor : b # a => ask'[b] = ask[b]
    BY EmptyRows DEF TypesInv, TypesType, E!Reply
  <1>2. QED
    BY <1>1, EditStep

\* Every step of EventTypes keeps the invariant.
LEMMA TypesStep ==
    ASSUME TypesInv, E!EventTypesNext \/ UNCHANGED eVars
    PROVE  TypesInv'
  <1>1. /\ type \in [Type -> TypeRow] /\ booked \in [Type -> {"none", "upcoming", "over"}]
        /\ ask \in [Asker \cup Visitor -> AskRow]
        /\ linked \in [Type -> SUBSET (Slug \cup {""})] /\ crossed \subseteq Type
    BY DEF TypesInv, TypesType
  <1>there. \A t \in Type : booked[t] # "none" => type[t].there
    BY DEF TypesInv, Pinned
  <1>2. CASE UNCHANGED eVars
    BY <1>1, <1>2, <1>there, EditStep DEF eVars
  <1>3. CASE E!DeleteUser(Colleague)
    <2>1. /\ type' = [t \in Type |-> IF type[t].owner = Colleague THEN E!None
                                     ELSE [type[t] EXCEPT !.role[Colleague] = "none"]]
          /\ UNCHANGED <<booked, ask, linked, crossed>>
          /\ \A t \in Type : type[t].there /\ type[t].owner = Colleague => booked[t] = "none"
      BY <1>3 DEF E!DeleteUser, E!There
    <2>2. ASSUME NEW row \in TypeRow
          PROVE  LET new == [row EXCEPT !.role[Colleague] = "none"]
                 IN  new \in TypeRow /\ new.there = row.there /\ new.slug = row.slug
      BY <2>2 DEF TypeRow, Role, E!Member
    <2>3. type' \in [Type -> TypeRow]
      BY <1>1, <2>1, <2>2, EmptyRows
    <2>4. ASSUME NEW t \in Type, booked[t] # "none"
          PROVE  type'[t].there = type[t].there /\ type'[t].slug = type[t].slug
      BY <1>1, <1>there, <2>1, <2>2, <2>4
    <2>5. QED
      BY <1>1, <2>1, <2>3, <2>4, <1>there, EditStep
  <1>4. ASSUME NEW t \in Type, E!TransferEventType(t, Colleague) PROVE TypesInv'
    <2>1. /\ type' = [type EXCEPT ![t].owner = Colleague]
          /\ UNCHANGED <<booked, ask, linked, crossed>>
      BY <1>4 DEF E!TransferEventType
    <2>2. /\ type' \in [Type -> TypeRow]
          /\ \A u \in Type : type'[u].there = type[u].there /\ type'[u].slug = type[u].slug
      BY <1>1, <2>1, ZenonT(40) DEF TypeRow, E!Member
    <2>3. QED
      BY <1>1, <2>1, <2>2, <1>there, EditStep
  <1>5. ASSUME NEW t \in Type, NEW s \in Slug, NEW m \in E!Member, E!CreateEventType(t, s, m)
        PROVE  TypesInv'
    <2> DEFINE r == [there |-> TRUE, slug |-> s, owner |-> m, active |-> TRUE, shelved |-> FALSE,
                     role |-> [h \in E!Member |-> IF h = m THEN "required" ELSE "none"]]
    <2>1. r \in TypeRow
      BY DEF TypeRow, Role
    <2>2. /\ type' = [type EXCEPT ![t] = r] /\ booked[t] = "none"
          /\ UNCHANGED <<booked, ask, linked, crossed>>
      BY <1>5 DEF E!CreateEventType
    <2> HIDE DEF r
    <2>3. type' \in [Type -> TypeRow] /\ \A u \in Type : u # t => type'[u] = type[u]
      BY <1>1, <2>1, <2>2
    <2>4. QED
      BY <1>1, <2>2, <2>3, <1>there, EditStep
  <1>6. ASSUME NEW a \in Asker, NEW t \in Type, NEW s \in Slug, NEW op \in E!Changes,
               E!PatchEventType(a, op, t, s)
        PROVE  TypesInv'
    <2>1. PICK pc \in {"count", "update"} :
             (op = "rename" => pc # "update") /\ E!Lookup(a, op, pc, t, s)
      BY <1>6 DEF E!PatchEventType
    <2>2. QED
      BY <2>1, LookupStep
  <1>7. ASSUME NEW a \in Asker, NEW t \in Type, NEW op \in {"delete", "copy", "hosts"},
               E!Lookup(a, op, op, t, type[t].slug)
        PROVE  TypesInv'
    <2>1. PICK s \in Slug \cup {""} : s = type[t].slug
      BY <1>1 DEF TypeRow
    <2>2. QED
      BY <1>7, <2>1, LookupStep
  <1>8. ASSUME NEW v \in Visitor, NEW t \in Type, E!FindEventType(v, t) PROVE TypesInv'
    <2>1. PICK s \in Slug \cup {""} : s = type[t].slug
      BY <1>1 DEF TypeRow
    <2>2. E!Lookup(v, "book", "book", t, s)
      BY <1>8, <2>1 DEF E!FindEventType
    <2>3. QED
      BY <2>2, LookupStep
  <1>9. ASSUME NEW a \in Asker, E!CountBookings(a) PROVE TypesInv'
    <2>1. /\ ask[a].pc = "count" /\ UNCHANGED <<type, booked, linked, crossed>>
          /\ \/ E!Reply(a)
             \/ booked[ask[a].type] = "none" /\ ask' = [ask EXCEPT ![a].pc = "update"]
      BY <1>9 DEF E!CountBookings, E!At
    <2>2. CASE E!Reply(a)
      BY <1>1, <2>1, <2>2, <1>there, ReplyStep
    <2>3. CASE booked[ask[a].type] = "none" /\ ask' = [ask EXCEPT ![a].pc = "update"]
      <3>1. /\ ask' \in [Asker \cup Visitor -> AskRow]
            /\ ask'[a].type = ask[a].type /\ ask'[a].op = ask[a].op
            /\ \A b \in Asker \cup Visitor : b # a => ask'[b] = ask[b]
        BY <1>1, <2>3, ZenonT(40) DEF AskRow
      <3>2. ask[a].type \in Type /\ ask[a].op \in E!Changes
        BY <2>1 DEF TypesInv, Pinned
      <3>3. QED
        BY <1>1, <2>1, <2>3, <3>1, <3>2, <1>there, EditStep
    <2>4. QED
      BY <2>1, <2>2, <2>3
  <1>10. ASSUME NEW a \in Asker, E!UpdateEventType(a) PROVE TypesInv'
    <2> DEFINE t == ask[a].type
               s == ask[a].slug
               op == ask[a].op
    <2>1. t \in Type /\ s \in Slug \cup {""} /\ ask[a].pc = "update"
      BY <1>1, <1>10 DEF TypesInv, Pinned, AskRow, E!UpdateEventType, E!At
    <2>2. /\ E!Reply(a) /\ UNCHANGED <<booked, linked, crossed>>
          /\ UNCHANGED type \/ type' = [type EXCEPT ![t] = E!Patched(@, op, s)]
      BY <1>10 DEF E!UpdateEventType
    <2>3. CASE UNCHANGED type
      BY <1>1, <2>2, <2>3, <1>there, ReplyStep
    <2>4. CASE op \in E!Changes /\ type' = [type EXCEPT ![t] = E!Patched(@, op, s)]
      <3>1. PICK row \in TypeRow : row = type[t]
        BY <1>1, <2>1
      <3>2. PICK new : new = E!Patched(row, op, s)
        OBVIOUS
      <3>3. new \in TypeRow /\ new.there = row.there /\ (op # "rename" => new.slug = row.slug)
        BY <2>1, <2>4, <3>1, <3>2, PatchedRow
      <3>4. type' = [type EXCEPT ![t] = new]
        BY <2>4, <3>1, <3>2
      <3>5. /\ type' \in [Type -> TypeRow] /\ type'[t] = new
            /\ \A u \in Type : u # t => type'[u] = type[u]
        BY <1>1, <2>1, <3>3, <3>4
      <3>6. op = "rename" => E!Renaming(t)
        BY <2>1 DEF E!Renaming, E!At
      <3>7. t \in Type \ crossed /\ booked[t] # "none" => op # "rename"
        BY <2>1, <3>6 DEF TypesInv, Pinned
      <3>8. QED
        BY <2>2, <3>1, <3>3, <3>5, <3>7, <1>there, ReplyStep
    <2>5. op \in E!Changes
      BY <2>1 DEF TypesInv, Pinned
    <2>6. QED
      BY <2>2, <2>3, <2>4, <2>5
  <1>11. ASSUME NEW a \in Asker, E!DeleteEventType(a) PROVE TypesInv'
    <2>1. ask[a].type \in Type
      BY <1>11 DEF TypesInv, Pinned, E!DeleteEventType, E!At
    <2>2. /\ E!Reply(a) /\ UNCHANGED <<booked, linked, crossed>>
          /\ \/ UNCHANGED type
             \/ booked[ask[a].type] = "none" /\ type' = [type EXCEPT ![ask[a].type] = E!None]
      BY <1>11 DEF E!DeleteEventType
    <2>3. /\ type' \in [Type -> TypeRow]
          /\ \A u \in Type : type'[u] = type[u] \/ booked[u] = "none"
      BY <1>1, <2>1, <2>2, EmptyRows, ZenonT(40)
    <2>4. QED
      BY <2>2, <2>3, <1>there, ReplyStep
  <1>12. ASSUME NEW a \in Asker, E!DuplicateEventType(a) PROVE TypesInv'
    <2>1. ask[a].type \in Type /\ E!Reply(a) /\ UNCHANGED <<booked, linked, crossed>>
      BY <1>12 DEF TypesInv, Pinned, E!DuplicateEventType, E!At
    <2>2. CASE UNCHANGED type
      BY <1>1, <2>1, <2>2, <1>there, ReplyStep
    <2>3. ASSUME NEW t \in Type, NEW s \in Slug, booked[t] = "none",
                 type' = [type EXCEPT ![t] = [type[ask[a].type] EXCEPT
                             !.slug = s, !.active = FALSE, !.shelved = FALSE]]
          PROVE  TypesInv'
      <3>1. ASSUME NEW row \in TypeRow
            PROVE  [row EXCEPT !.slug = s, !.active = FALSE, !.shelved = FALSE] \in TypeRow
        BY DEF TypeRow
      <3>2. type' \in [Type -> TypeRow] /\ \A u \in Type : u # t => type'[u] = type[u]
        BY <1>1, <2>1, <2>3, <3>1
      <3>3. QED
        BY <2>1, <2>3, <3>2, <1>there, ReplyStep
    <2>4. QED
      BY <1>12, <2>2, <2>3 DEF E!DuplicateEventType
  <1>13. ASSUME NEW a \in Asker, NEW role \in Hosts, E!SetEventTypeHosts(a, role)
         PROVE  TypesInv'
    <2>1. /\ ask[a].type \in Type /\ E!Reply(a) /\ UNCHANGED <<booked, linked, crossed>>
          /\ type' = [type EXCEPT ![ask[a].type].role = role]
      BY <1>13 DEF E!SetEventTypeHosts, E!There
    <2>2. role \in [E!Member -> Role]
      BY HostsAssumption
    <2>3. ASSUME NEW row \in TypeRow
          PROVE  LET new == [row EXCEPT !.role = role]
                 IN  new \in TypeRow /\ new.there = row.there /\ new.slug = row.slug
      BY <2>2 DEF TypeRow
    <2>4. type' = [type EXCEPT ![ask[a].type] = [type[ask[a].type] EXCEPT !.role = role]]
      BY <2>1
    <2>5. PICK new \in TypeRow : /\ type' = [type EXCEPT ![ask[a].type] = new]
                                 /\ new.there = type[ask[a].type].there
                                 /\ new.slug = type[ask[a].type].slug
      BY <1>1, <2>1, <2>3, <2>4, Zenon
    <2>6. /\ type' \in [Type -> TypeRow]
          /\ \A u \in Type : type'[u].there = type[u].there /\ type'[u].slug = type[u].slug
      BY <1>1, <2>1, <2>5
    <2>7. QED
      BY <2>1, <2>6, <1>there, ReplyStep
  <1>14. ASSUME NEW a \in Asker, E!HostsOfNothing(a) PROVE TypesInv'
    BY <1>1, <1>14, <1>there, ReplyStep DEF E!HostsOfNothing
  <1>15. ASSUME NEW t \in Type, E!BookingsEnd(t) PROVE TypesInv'
    <2>1. /\ booked[t] = "upcoming" /\ booked' = [booked EXCEPT ![t] = "over"]
          /\ UNCHANGED <<type, ask, linked, crossed>>
      BY <1>15 DEF E!BookingsEnd
    <2>2. \A u \in Type : booked'[u] = "none" <=> booked[u] = "none"
      BY <1>1, <2>1
    <2>3. TypesType'
      BY <1>1, <2>1 DEF TypesType
    <2>4. \A u \in Type : E!Renaming(u)' <=> E!Renaming(u)
      BY <2>1 DEF E!Renaming, E!At
    <2>5. Pinned' /\ E!LinksHold'
      BY <2>1, <2>2, <2>4 DEF TypesInv, Pinned, E!LinksHold, E!There
    <2>6. QED
      BY <2>3, <2>5 DEF TypesInv
  <1>16. ASSUME NEW v \in Visitor, E!CreateBooking(v) PROVE TypesInv'
    <2> DEFINE t == ask[v].type
    <2>1. ask[v].type \in Type /\ E!Reply(v) /\ UNCHANGED type
      BY <1>16 DEF TypesInv, Pinned, E!CreateBooking, E!At
    <2>2. /\ ask' \in [Asker \cup Visitor -> AskRow] /\ ask'[v].pc = "idle"
          /\ \A b \in Asker \cup Visitor : b # v => ask'[b] = ask[b]
      BY <1>1, <2>1, EmptyRows DEF E!Reply
    <2>3. \A u \in Type : E!Renaming(u)' => E!Renaming(u)
      BY <2>2 DEF E!Renaming, E!At
    <2>4. CASE UNCHANGED <<booked, linked, crossed>>
      BY <1>1, <1>there, <2>1, <2>2, <2>4, EditStep
    <2>5. CASE /\ type[t].there /\ booked' = [booked EXCEPT ![t] = "upcoming"]
               /\ crossed' = crossed \cup {t} /\ UNCHANGED linked
      <3>1. TypesType'
        BY <1>1, <2>1, <2>2, <2>5 DEF TypesType
      <3>2. Pinned'
        BY <1>1, <2>1, <2>2, <2>3, <2>5 DEF TypesInv, Pinned
      <3>3. E!LinksHold'
        BY <2>1, <2>5 DEF TypesInv, E!LinksHold, E!There
      <3>4. QED
        BY <3>1, <3>2, <3>3 DEF TypesInv
    <2>6. CASE /\ type[t].there /\ booked' = [booked EXCEPT ![t] = "upcoming"]
               /\ ~E!Renaming(t) /\ type[t].slug = ask[v].slug
               /\ linked' = [linked EXCEPT ![t] = @ \cup {ask[v].slug}] /\ UNCHANGED crossed
      <3>1. ask[v].slug \in Slug \cup {""}
        BY <1>1 DEF AskRow
      <3>2. TypesType'
        BY <1>1, <2>1, <2>2, <2>6, <3>1 DEF TypesType
      <3>3. Pinned'
        BY <1>1, <2>1, <2>2, <2>3, <2>6 DEF TypesInv, Pinned
      <3>4. E!LinksHold'
        BY <1>1, <2>1, <2>6 DEF TypesInv, E!LinksHold, E!There
      <3>5. QED
        BY <3>2, <3>3, <3>4 DEF TypesInv
    <2>7. QED
      BY <1>16, <2>4, <2>5, <2>6 DEF E!CreateBooking, E!There
  <1>17. QED
    BY <1>2, <1>3, <1>4, <1>5, <1>6, <1>7, <1>8, <1>9, <1>10, <1>11, <1>12, <1>13, <1>14,
       <1>15, <1>16 DEF E!EventTypesNext

\* The link of a booking keeps leading to its event type, for any number of types, links,
\* editors and bookers whose requests overlap.
THEOREM LinksLast == AccountsSpec => []LinksHold
  <1>1. AccountsInit => TypesInv
    <2> SUFFICES ASSUME E!EventTypesInit PROVE TypesInv
      BY DEF AccountsInit
    <2>1. TypesType
      BY EmptyRows DEF E!EventTypesInit, TypesType
    <2>2. Pinned
      BY EmptyRows DEF E!EventTypesInit, Pinned
    <2>3. QED
      BY <2>1, <2>2 DEF E!EventTypesInit, TypesInv, E!LinksHold
  <1>2. TypesInv /\ [AccountsNext]_accountsVars => TypesInv'
    BY TypesStep
       DEF AccountsNext, accountsVars, MembersMove, SessionsMove, AgentsMove, TypesMove,
           CalendarsMove, KeysMove
  <1>3. TypesInv => LinksHold
    BY DEF TypesInv, LinksHold
  <1>4. QED
    BY <1>1, <1>2, <1>3, PTL DEF AccountsSpec
-----------------------------------------------------------------------------
(* The key vault.                                                          *)

KeyRow == [secret: Nat, dek: Nat]

ProcRow == [pc: {"down", "create", "write", "close", "open", "detect", "primary", "recovery",
                 "up"},
            secret: Nat, dek: Nat, escrow: BOOLEAN, wrap: BOOLEAN, first: BOOLEAN]

VaultType ==
    /\ env \in Chosen \cup {K!None} /\ escrow \in BOOLEAN /\ file \in Nat
    /\ primary \in KeyRow /\ recovery \in KeyRow
    /\ proc \in [Process -> ProcRow]
    /\ fresh \in Nat /\ fresh > K!Empty

\* What a process knows at each step, and a row has a secret.
Started ==
    /\ \A p \in Process :
          /\ proc[p].pc # "down" => proc[p].secret > K!Empty
          /\ proc[p].pc \in {"detect", "primary"} => proc[p].first
          /\ proc[p].pc = "primary" => proc[p].wrap = proc[p].escrow
    /\ primary # K!NoRow => primary.secret > K!Empty

\* The steps at which a process has settled on its secret.
Settled == {"open", "detect", "primary", "recovery", "up"}

\* One process at most is making the key file, and the file shows how far it got; whoever
\* has settled on a secret has one of the operator or that of the file.
FileInv ==
    /\ \A p \in Process :
          /\ proc[p].pc = "write" => file = K!Empty
          /\ proc[p].pc = "close" => file = proc[p].secret
    /\ \A p, q \in Process :
          proc[p].pc \in {"write", "close"} /\ proc[q].pc \in {"write", "close"} => p = q
    /\ "withdrawn" \notin mishaps =>
          /\ \A p \in Process : proc[p].pc \in Settled => proc[p].secret \in Chosen \cup {file}
          /\ primary # K!NoRow => primary.secret \in Chosen \cup {file}

\* As long as no two first boots have raced, all who run have the key of the keystore.
KeyInv ==
    "raced" \notin mishaps =>
        /\ \A p \in Process : proc[p].pc \in {"recovery", "up"} =>
              primary # K!NoRow /\ proc[p].dek = primary.dek
        /\ recovery # K!NoRow \/ escrowed =>
              primary # K!NoRow /\ recovery = [secret |-> RecoveryKey, dek |-> primary.dek]

\* Before there is a keystore, a process about to make it has the key of the data.
DataInv ==
    mishaps \cap {"raced", "adopted", "blind"} = {} =>
        /\ primary # K!NoRow => data \subseteq {primary.dek}
        /\ primary = K!NoRow =>
              \A p \in Process : proc[p].pc = "primary" => data \subseteq {proc[p].dek}

VaultInv == VaultType /\ Started /\ FileInv /\ KeyInv /\ DataInv

\* A row that is inserted is one, with what went into it.
LEMMA RowMade ==
    ASSUME NEW s \in Nat, s > K!Empty, NEW d \in Nat
    PROVE  LET row == K!insertKeystoreRow(s, d)
           IN  row \in KeyRow /\ row # K!NoRow /\ row.secret = s /\ row.dek = d
  BY DEF K!insertKeystoreRow, KeyRow, K!NoRow, K!None, K!Empty

\* A process that is down has a row too.
LEMMA DownRow ==
    K!Down \in ProcRow /\ K!Down.pc = "down"
  BY DEF K!Down, ProcRow, K!None

\* One process moves.
LEMMA OneMoves ==
    ASSUME VaultType, NEW p \in Process, NEW r \in ProcRow, proc' = [proc EXCEPT ![p] = r]
    PROVE  /\ proc' \in [Process -> ProcRow] /\ proc'[p] = r
           /\ \A q \in Process : q # p => proc'[q] = proc[q]
  BY DEF VaultType

\* A process gets to another step and keeps the rest of its row.
LEMMA BecomeRow ==
    ASSUME VaultType, NEW p \in Process,
           NEW pc \in {"write", "close", "open", "detect", "recovery", "up"}, K!Become(p, pc)
    PROVE  \E r \in ProcRow :
              /\ proc' = [proc EXCEPT ![p] = r]
              /\ r.pc = pc /\ r.secret = proc[p].secret /\ r.dek = proc[p].dek
              /\ r.escrow = proc[p].escrow /\ r.wrap = proc[p].wrap /\ r.first = proc[p].first
  <1>1. PICK row \in ProcRow : row = proc[p]
    BY DEF VaultType
  <1>2. DEFINE r == [row EXCEPT !.pc = pc]
  <1>3. /\ r \in ProcRow /\ r.pc = pc /\ r.secret = row.secret /\ r.dek = row.dek
        /\ r.escrow = row.escrow /\ r.wrap = row.wrap /\ r.first = row.first
    BY DEF ProcRow
  <1>4. proc' = [proc EXCEPT ![p] = r]
    BY <1>1 DEF K!Become
  <1>5. QED
    BY <1>1, <1>3, <1>4

\* The steps of a process that change neither the file, nor a row, nor the data.
LEMMA MoveStep ==
    ASSUME VaultInv, NEW p \in Process, NEW r \in ProcRow, proc' = [proc EXCEPT ![p] = r],
           UNCHANGED <<env, escrow, file, primary, recovery, data, escrowed>>,
           fresh' \in Nat, fresh' > K!Empty, mishaps \subseteq mishaps',
           r.pc \notin {"write", "close", "recovery"},
           r.pc # "down" => r.secret > K!Empty,
           r.pc \in {"detect", "primary"} => r.first,
           r.pc = "primary" => r.wrap = r.escrow,
           r.pc \in Settled /\ "withdrawn" \notin mishaps => r.secret \in Chosen \cup {file},
           r.pc = "up" => primary # K!NoRow /\ r.dek = primary.dek,
           r.pc = "primary" /\ mishaps' \cap {"raced", "adopted", "blind"} = {} =>
               data \subseteq {r.dek}
    PROVE  VaultInv'
  <1>1. /\ proc' \in [Process -> ProcRow] /\ proc'[p] = r
        /\ \A q \in Process : q # p => proc'[q] = proc[q]
    BY OneMoves DEF VaultInv
  <1>2. VaultType'
    BY <1>1 DEF VaultInv, VaultType
  <1>3. Started'
    BY <1>1 DEF VaultInv, Started
  <1>4. FileInv'
    BY <1>1 DEF VaultInv, FileInv
  <1>5. KeyInv'
    BY <1>1 DEF VaultInv, KeyInv
  <1>6. DataInv'
    BY <1>1 DEF VaultInv, DataInv
  <1>7. QED
    BY <1>2, <1>3, <1>4, <1>5, <1>6 DEF VaultInv

\* A process that exits.
LEMMA ExitStep ==
    ASSUME VaultInv, NEW p \in Process, K!Exit(p),
           UNCHANGED <<env, escrow, file, primary, recovery, data, fresh, escrowed, mishaps>>
    PROVE  VaultInv'
  <1>1. fresh \in Nat /\ fresh > K!Empty /\ proc' = [proc EXCEPT ![p] = K!Down]
    BY DEF VaultInv, VaultType, K!Exit
  <1>2. PICK r \in ProcRow : r = K!Down /\ r.pc = "down"
    BY DownRow
  <1>3. QED
    BY <1>1, <1>2, MoveStep DEF Settled

\* The steps of a process that touch the key file, and the operator who deletes it.
LEMMA FileStep ==
    ASSUME VaultInv,
           UNCHANGED <<env, escrow, primary, recovery, data, fresh, escrowed>>,
           file' \in Nat, proc' \in [Process -> ProcRow],
           mishaps \subseteq mishaps', mishaps' \subseteq mishaps \cup {"withdrawn"},
           \A q \in Process :
              \/ proc'[q] = proc[q]
              \/ /\ proc'[q].pc \in {"down", "write", "close"}
                 /\ proc'[q].pc # "down" => proc'[q].secret > K!Empty,
           FileInv'
    PROVE  VaultInv'
  <1>1. VaultType'
    BY DEF VaultInv, VaultType
  <1>2. Started'
    BY DEF VaultInv, Started
  <1>3. KeyInv'
    BY DEF VaultInv, KeyInv
  <1>4. DataInv'
    BY DEF VaultInv, DataInv
  <1>5. QED
    BY <1>1, <1>2, <1>3, <1>4 DEF VaultInv

\* ResolvePlatformSecret: a secret of the operator, of the file, or a new one.
LEMMA ResolveStep ==
    ASSUME VaultInv, NEW p \in Process, K!ResolvePlatformSecret(p)
    PROVE  VaultInv'
  <1>1. VaultType /\ UNCHANGED <<env, escrow, file, primary, recovery, data, escrowed, mishaps>>
    BY DEF VaultInv, K!ResolvePlatformSecret, K!settings, K!rows
  <1>2. ASSUME NEW pc \in {"open", "create"}, NEW s \in Nat, s > K!Empty,
               pc = "open" => s \in Chosen \cup {file},
               proc' = [proc EXCEPT ![p] = [K!Down EXCEPT !.pc = pc, !.secret = s,
                                                          !.escrow = escrow]],
               fresh' \in {fresh, fresh + 1}
        PROVE  VaultInv'
    <2> DEFINE r == [K!Down EXCEPT !.pc = pc, !.secret = s, !.escrow = escrow]
    <2>1. r \in ProcRow /\ r.pc = pc /\ r.secret = s
      BY <1>1 DEF ProcRow, K!Down, K!None, VaultType
    <2>2. proc' = [proc EXCEPT ![p] = r]
      BY <1>2
    <2> HIDE DEF r
    <2>3. fresh' \in Nat /\ fresh' > K!Empty
      BY <1>1, <1>2 DEF VaultType, K!Empty
    <2>4. QED
      BY <1>1, <1>2, <2>1, <2>2, <2>3, MoveStep DEF Settled
  <1>3. CASE UNCHANGED <<proc, fresh>>
    BY <1>1, <1>3 DEF VaultInv, VaultType, Started, FileInv, KeyInv, DataInv
  <1>4. /\ env # K!None => env \in Chosen /\ env \in Nat /\ env > K!Empty
        /\ file \notin {K!None, K!Empty} => file \in Nat /\ file > K!Empty
        /\ fresh \in Nat /\ fresh > K!Empty
    BY <1>1, VaultAssumption DEF VaultType, K!None, K!Empty
  <1>5. QED
    BY <1>2, <1>3, <1>4 DEF K!ResolvePlatformSecret

\* Open: the process has the key of the row, exits, or goes on to a first boot.
LEMMA OpenStep ==
    ASSUME VaultInv, NEW p \in Process, K!Open(p)
    PROVE  VaultInv'
  <1>1. /\ UNCHANGED <<env, escrow, file, primary, recovery, data, fresh, escrowed, mishaps>>
        /\ proc[p].pc = "open" /\ fresh \in Nat /\ fresh > K!Empty
    BY DEF VaultInv, VaultType, K!Open, K!settings, K!rows
  <1>2. PICK row \in ProcRow : row = proc[p]
    BY DEF VaultInv, VaultType
  <1>3. /\ row.pc = "open" /\ row.secret > K!Empty /\ primary.dek \in Nat
        /\ "withdrawn" \notin mishaps => row.secret \in Chosen \cup {file}
    BY <1>1, <1>2 DEF VaultInv, VaultType, Started, FileInv, Settled, KeyRow
  <1>4. CASE K!Exit(p)
    BY <1>1, <1>4, ExitStep
  <1>5. CASE primary # K!NoRow /\ proc' = [proc EXCEPT ![p].dek = primary.dek, ![p].pc = "up"]
    <2> DEFINE r == [row EXCEPT !.dek = primary.dek, !.pc = "up"]
    <2>1. r \in ProcRow /\ r.pc = "up" /\ r.secret = row.secret /\ r.dek = primary.dek
      BY <1>3 DEF ProcRow
    <2>2. proc' = [proc EXCEPT ![p] = r]
      BY <1>2, <1>5
    <2> HIDE DEF r
    <2>3. QED
      BY <1>1, <1>3, <1>5, <2>1, <2>2, MoveStep
  <1>6. CASE proc' = [proc EXCEPT ![p].first = TRUE, ![p].pc = "detect"]
    <2> DEFINE r == [row EXCEPT !.first = TRUE, !.pc = "detect"]
    <2>1. r \in ProcRow /\ r.pc = "detect" /\ r.secret = row.secret /\ r.first
      BY DEF ProcRow
    <2>2. proc' = [proc EXCEPT ![p] = r]
      BY <1>2, <1>6
    <2> HIDE DEF r
    <2>3. QED
      BY <1>1, <1>3, <2>1, <2>2, MoveStep
  <1>7. QED
    BY <1>4, <1>5, <1>6 DEF K!Open, K!openExisting

\* The first boot: a new key, or the secret as the key of the data that is there.
LEMMA DetectStep ==
    ASSUME VaultInv, NEW p \in Process, K!Detect(p)
    PROVE  VaultInv'
  <1>1. /\ UNCHANGED <<env, escrow, file, primary, recovery, data, escrowed>>
        /\ proc[p].pc = "detect" /\ fresh \in Nat /\ fresh > K!Empty
    BY DEF VaultInv, VaultType, K!Detect, K!settings, K!rows
  <1>2. PICK row \in ProcRow : row = proc[p]
    BY DEF VaultInv, VaultType
  <1>3. /\ row.pc = "detect" /\ row.secret > K!Empty /\ row.first
        /\ "withdrawn" \notin mishaps => row.secret \in Chosen \cup {file}
    BY <1>1, <1>2 DEF VaultInv, Started, FileInv, Settled
  <1>4. CASE K!Exit(p) /\ UNCHANGED <<fresh, mishaps>>
    BY <1>1, <1>4, ExitStep
  <1>5. ASSUME NEW key \in Nat,
               proc' = [proc EXCEPT ![p].dek = key, ![p].wrap = proc[p].escrow,
                                    ![p].pc = "primary"],
               fresh' \in {fresh, fresh + 1}, mishaps \subseteq mishaps',
               mishaps' \cap {"raced", "adopted", "blind"} = {} => data \subseteq {key}
        PROVE  VaultInv'
    <2> DEFINE r == [row EXCEPT !.dek = key, !.wrap = row.escrow, !.pc = "primary"]
    <2>1. /\ r \in ProcRow /\ r.pc = "primary" /\ r.secret = row.secret /\ r.dek = key
          /\ r.first = row.first /\ r.wrap = r.escrow
      BY DEF ProcRow
    <2>2. proc' = [proc EXCEPT ![p] = r]
      BY <1>2, <1>5
    <2> HIDE DEF r
    <2>3. fresh' \in Nat /\ fresh' > K!Empty
      BY <1>1, <1>5 DEF K!Empty
    <2>4. QED
      BY <1>1, <1>3, <1>5, <2>1, <2>2, <2>3, MoveStep DEF Settled
  <1>6. CASE K!freshInstall(p) /\ data = {} /\ UNCHANGED mishaps
    BY <1>1, <1>5, <1>6 DEF K!freshInstall
  <1>7. CASE K!freshInstall(p) /\ mishaps' = mishaps \cup {"blind"}
    BY <1>1, <1>5, <1>7 DEF K!freshInstall
  <1>8. CASE /\ K!migrateLegacy(p)
             /\ mishaps' = IF data = {proc[p].secret} THEN mishaps ELSE mishaps \cup {"adopted"}
    <2>1. row.secret \in Nat
      BY DEF ProcRow
    <2>2. QED
      BY <1>1, <1>2, <1>5, <1>8, <2>1 DEF K!migrateLegacy
  <1>9. QED
    BY <1>4, <1>6, <1>7, <1>8 DEF K!Detect

\* The key file is created by one process, which writes and closes it or removes it.
LEMMA CreateStep ==
    ASSUME VaultInv, NEW p \in Process, K!CreateFile(p)
    PROVE  VaultInv'
  <1>1. /\ UNCHANGED <<env, escrow, primary, recovery, data, fresh, escrowed, mishaps>>
        /\ proc[p].pc = "create" /\ file \in Nat /\ fresh \in Nat /\ fresh > K!Empty
    BY DEF VaultInv, VaultType, K!CreateFile, K!settings, K!rows
  <1>2. PICK row \in ProcRow : row = proc[p]
    BY DEF VaultInv, VaultType
  <1>3. row.secret > K!Empty
    BY <1>1, <1>2 DEF VaultInv, Started
  <1>4. CASE file = K!None /\ file' = K!Empty /\ K!Become(p, "write")
    <2>1. PICK r \in ProcRow : /\ proc' = [proc EXCEPT ![p] = r]
                               /\ r.pc = "write" /\ r.secret = row.secret
      BY <1>2, <1>4, BecomeRow DEF VaultInv
    <2>2. /\ proc' \in [Process -> ProcRow] /\ proc'[p] = r
          /\ \A q \in Process : q # p => proc'[q] = proc[q]
      BY <2>1, OneMoves DEF VaultInv
    <2>3. \A q \in Process : proc[q].pc \notin {"write", "close"}
      BY <1>4 DEF VaultInv, FileInv, Started, K!None, K!Empty
    <2>4. /\ \A q \in Process : proc[q].pc \in Settled => proc[q].secret # file
          /\ primary # K!NoRow => primary.secret # file
      BY <1>4 DEF VaultInv, VaultType, Started, K!None, K!Empty, Settled
    <2>5. FileInv'
      BY <1>1, <1>4, <2>1, <2>2, <2>3, <2>4 DEF VaultInv, FileInv, Settled
    <2>6. file' \in Nat
      BY <1>4 DEF K!Empty
    <2>7. QED
      BY <1>1, <1>3, <2>1, <2>2, <2>5, <2>6, FileStep
  <1>5. CASE K!Exit(p) /\ UNCHANGED file
    BY <1>1, <1>5, ExitStep
  <1>6. CASE /\ file \notin {K!None, K!Empty} /\ UNCHANGED file
             /\ proc' = [proc EXCEPT ![p].secret = file, ![p].pc = "open"]
    <2> DEFINE r == [row EXCEPT !.secret = file, !.pc = "open"]
    <2>1. r \in ProcRow /\ r.pc = "open" /\ r.secret = file
      BY <1>1 DEF ProcRow
    <2>2. proc' = [proc EXCEPT ![p] = r]
      BY <1>2, <1>6
    <2> HIDE DEF r
    <2>3. file > K!Empty
      BY <1>1, <1>6 DEF K!None, K!Empty
    <2>4. QED
      BY <1>1, <1>6, <2>1, <2>2, <2>3, MoveStep
  <1>7. QED
    BY <1>4, <1>5, <1>6 DEF K!CreateFile

\* The file is written, closed, or removed by the process that made it.
LEMMA WriteStep ==
    ASSUME VaultInv, NEW p \in Process, K!WriteFile(p)
    PROVE  VaultInv'
  <1>1. /\ UNCHANGED <<env, escrow, primary, recovery, data, fresh, escrowed>>
        /\ proc[p].pc \in {"write", "close"} /\ file \in Nat /\ fresh \in Nat /\ fresh > K!Empty
    BY DEF VaultInv, VaultType, K!WriteFile, K!settings, K!rows
  <1>2. PICK row \in ProcRow : row = proc[p]
    BY DEF VaultInv, VaultType
  <1>3. row.secret > K!Empty /\ row.secret \in Nat
    BY <1>1, <1>2 DEF VaultInv, Started, ProcRow
  <1>4. \A q \in Process : q # p => proc[q].pc \notin {"write", "close"}
    BY <1>1 DEF VaultInv, FileInv
  <1>5. CASE /\ proc[p].pc = "write"
             /\ file' = proc[p].secret /\ K!Become(p, "close") /\ UNCHANGED mishaps
    <2>1. PICK r \in ProcRow : /\ proc' = [proc EXCEPT ![p] = r]
                               /\ r.pc = "close" /\ r.secret = row.secret
      BY <1>2, <1>5, BecomeRow DEF VaultInv
    <2>2. /\ proc' \in [Process -> ProcRow] /\ proc'[p] = r
          /\ \A q \in Process : q # p => proc'[q] = proc[q]
      BY <2>1, OneMoves DEF VaultInv
    <2>3. file = K!Empty
      BY <1>5 DEF VaultInv, FileInv
    <2>4. /\ \A q \in Process : proc[q].pc \in Settled => proc[q].secret # file
          /\ primary # K!NoRow => primary.secret # file
      BY <2>3 DEF VaultInv, VaultType, Started, K!None, K!Empty, Settled
    <2>5. FileInv'
      BY <1>1, <1>2, <1>4, <1>5, <2>1, <2>2, <2>4 DEF VaultInv, FileInv, Settled
    <2>6. QED
      BY <1>1, <1>2, <1>3, <1>5, <2>1, <2>2, <2>5, FileStep
  <1>6. CASE proc[p].pc = "close" /\ K!Become(p, "open") /\ UNCHANGED <<file, mishaps>>
    <2>1. PICK r \in ProcRow : /\ proc' = [proc EXCEPT ![p] = r]
                               /\ r.pc = "open" /\ r.secret = row.secret
      BY <1>2, <1>6, BecomeRow DEF VaultInv
    <2>2. row.secret = file
      BY <1>2, <1>6 DEF VaultInv, FileInv
    <2>3. QED
      BY <1>1, <1>3, <1>6, <2>1, <2>2, MoveStep
  <1>7. CASE /\ file' = K!None /\ K!Exit(p)
             /\ mishaps' = IF K!Shared(p) THEN mishaps \cup {"withdrawn"} ELSE mishaps
    <2>1. PICK r \in ProcRow : proc' = [proc EXCEPT ![p] = r] /\ r.pc = "down"
      BY <1>7, DownRow DEF K!Exit
    <2>2. /\ proc' \in [Process -> ProcRow] /\ proc'[p] = r
          /\ \A q \in Process : q # p => proc'[q] = proc[q]
      BY <2>1, OneMoves DEF VaultInv
    <2>3. ASSUME "withdrawn" \notin mishaps'
          PROVE  /\ \A q \in Process : q # p /\ proc[q].pc \in Settled => proc[q].secret # file
                 /\ primary # K!NoRow => primary.secret # file
      <3>1. CASE proc[p].pc = "write"
        <4>1. file = K!Empty
          BY <3>1 DEF VaultInv, FileInv
        <4>2. QED
          BY <4>1 DEF VaultInv, VaultType, Started, K!None, K!Empty, Settled
      <3>2. CASE proc[p].pc = "close"
        <4>1. file = proc[p].secret /\ ~K!Shared(p)
          BY <1>7, <2>3, <3>2 DEF VaultInv, FileInv
        <4>2. QED
          BY <4>1 DEF K!Shared
      <3>3. QED
        BY <1>1, <3>1, <3>2
    <2>4. mishaps \subseteq mishaps' /\ mishaps' \subseteq mishaps \cup {"withdrawn"}
      BY <1>7
    <2>5. FileInv'
      BY <1>1, <1>4, <1>7, <2>1, <2>2, <2>3, <2>4 DEF VaultInv, FileInv, Settled
    <2>6. file' \in Nat
      BY <1>7 DEF K!None
    <2>7. QED
      BY <1>1, <2>1, <2>2, <2>4, <2>5, <2>6, FileStep
  <1>8. QED
    BY <1>5, <1>6, <1>7 DEF K!WriteFile

\* A keystore is made, or replaced by the second of two first boots.
LEMMA PrimaryStep ==
    ASSUME VaultInv, NEW p \in Process, K!storePrimary(p)
    PROVE  VaultInv'
  <1>1. /\ UNCHANGED <<env, escrow, file, recovery, data, fresh>> /\ proc[p].pc = "primary"
        /\ primary' = K!insertKeystoreRow(proc[p].secret, proc[p].dek)
        /\ K!Become(p, IF proc[p].wrap THEN "recovery" ELSE "up")
        /\ mishaps' = IF primary # K!NoRow /\ proc[p].first THEN mishaps \cup {"raced"}
                      ELSE mishaps
        /\ escrowed' = (escrowed \/ (proc[p].escrow /\ ~proc[p].wrap))
    BY DEF K!storePrimary, K!settings
  <1>2. /\ proc[p].secret > K!Empty /\ proc[p].secret \in Nat /\ proc[p].dek \in Nat
        /\ proc[p].first /\ proc[p].wrap = proc[p].escrow /\ proc[p].wrap \in BOOLEAN
    BY <1>1 DEF VaultInv, VaultType, Started, ProcRow
  <1>3. /\ primary' \in KeyRow /\ primary' # K!NoRow
        /\ primary'.secret = proc[p].secret /\ primary'.dek = proc[p].dek
    BY <1>1, <1>2, RowMade
  <1>4. PICK pc \in {"recovery", "up"} : pc = IF proc[p].wrap THEN "recovery" ELSE "up"
    OBVIOUS
  <1>5. PICK r \in ProcRow :
           /\ proc' = [proc EXCEPT ![p] = r]
           /\ r.pc = pc /\ r.secret = proc[p].secret /\ r.dek = proc[p].dek
    BY <1>1, <1>4, BecomeRow DEF VaultInv
  <1>6. /\ proc' \in [Process -> ProcRow] /\ proc'[p] = r
        /\ \A q \in Process : q # p => proc'[q] = proc[q]
    BY <1>5, OneMoves DEF VaultInv
  <1>7. escrowed' => escrowed
    BY <1>1, <1>2, Zenon
  <1>8. mishaps \subseteq mishaps' /\ ("raced" \notin mishaps' => primary = K!NoRow)
    BY <1>1, <1>2
  <1>9. VaultType'
    BY <1>1, <1>3, <1>6 DEF VaultInv, VaultType
  <1>10. Started'
    BY <1>2, <1>3, <1>4, <1>5, <1>6 DEF VaultInv, Started
  <1>11. FileInv'
    BY <1>1, <1>3, <1>4, <1>5, <1>6, <1>8 DEF VaultInv, FileInv, Settled
  <1>12. KeyInv'
    <2> SUFFICES ASSUME "raced" \notin mishaps' PROVE KeyInv'
      BY DEF KeyInv
    <2>1. primary = K!NoRow /\ "raced" \notin mishaps
      BY <1>8
    <2>2. /\ recovery = K!NoRow /\ ~escrowed
          /\ \A q \in Process : proc[q].pc \notin {"recovery", "up"}
      BY <2>1 DEF VaultInv, KeyInv
    <2>3. QED
      BY <1>1, <1>3, <1>5, <1>6, <1>7, <2>2 DEF KeyInv
  <1>13. DataInv'
    BY <1>1, <1>3, <1>8 DEF VaultInv, DataInv
  <1>14. QED
    BY <1>9, <1>10, <1>11, <1>12, <1>13 DEF VaultInv

\* The recovery row holds the key of the process that stores it.
LEMMA RecoveryStep ==
    ASSUME VaultInv, NEW p \in Process, K!storeRecovery(p)
    PROVE  VaultInv'
  <1>1. /\ UNCHANGED <<env, escrow, file, primary, data, fresh, mishaps>>
        /\ proc[p].pc = "recovery"
        /\ recovery' = [secret |-> RecoveryKey, dek |-> proc[p].dek] /\ escrowed' = TRUE
        /\ K!Become(p, "up")
    BY DEF K!storeRecovery, K!settings, K!insertKeystoreRow
  <1>2. PICK r \in ProcRow :
           /\ proc' = [proc EXCEPT ![p] = r]
           /\ r.pc = "up" /\ r.secret = proc[p].secret /\ r.dek = proc[p].dek
    BY <1>1, BecomeRow DEF VaultInv
  <1>3. /\ proc' \in [Process -> ProcRow] /\ proc'[p] = r
        /\ \A q \in Process : q # p => proc'[q] = proc[q]
    BY <1>2, OneMoves DEF VaultInv
  <1>4. recovery' \in KeyRow
    BY <1>1, VaultAssumption DEF VaultInv, VaultType, KeyRow, ProcRow
  <1>5. VaultType'
    BY <1>1, <1>3, <1>4 DEF VaultInv, VaultType
  <1>6. Started' /\ FileInv'
    BY <1>1, <1>2, <1>3 DEF VaultInv, Started, FileInv, Settled
  <1>7. KeyInv'
    BY <1>1, <1>2, <1>3 DEF VaultInv, KeyInv
  <1>8. DataInv'
    BY <1>1, <1>2, <1>3 DEF VaultInv, DataInv
  <1>9. QED
    BY <1>5, <1>6, <1>7, <1>8 DEF VaultInv

\* The operator's commands: another secret for the same key.
LEMMA RewrapStep ==
    ASSUME VaultInv, NEW new \in Chosen,
           UNCHANGED <<env, escrow, file, recovery, data, proc, fresh, escrowed, mishaps>>,
           NEW key \in Nat, primary' = K!insertKeystoreRow(new, key),
           primary # K!NoRow \/ recovery # K!NoRow,
           "raced" \notin mishaps => primary # K!NoRow /\ key = primary.dek
    PROVE  VaultInv'
  <1>1. new \in Nat /\ new > K!Empty
    BY VaultAssumption DEF K!None, K!Empty
  <1>2. /\ primary' \in KeyRow /\ primary' # K!NoRow
        /\ primary'.secret = new /\ primary'.dek = key
    BY <1>1, RowMade
  <1>3. VaultType'
    BY <1>2 DEF VaultInv, VaultType
  <1>4. Started' /\ FileInv'
    BY <1>1, <1>2 DEF VaultInv, Started, FileInv
  <1>5. KeyInv' /\ DataInv'
    BY <1>2 DEF VaultInv, KeyInv, DataInv
  <1>6. QED
    BY <1>3, <1>4, <1>5 DEF VaultInv

\* rotate-key, recover-key, another environment, and an empty file that is deleted.
LEMMA OperatorStep ==
    ASSUME VaultInv,
           \/ \E s \in Chosen : K!runRotateKey(s) \/ K!runRecoverKey(s)
           \/ \E s \in Chosen \cup {K!None} : K!Configure(s)
           \/ K!DeleteEmptyFile
    PROVE  VaultInv'
  <1>1. ASSUME NEW s \in Chosen, K!runRotateKey(s) PROVE VaultInv'
    <2>1. PICK key \in Nat : key = primary.dek
      BY DEF VaultInv, VaultType, KeyRow
    <2>2. QED
      BY <1>1, <2>1, RewrapStep DEF K!runRotateKey, K!RotatePrimary, K!unwrapDEK
  <1>2. ASSUME NEW s \in Chosen, K!runRecoverKey(s) PROVE VaultInv'
    <2>1. PICK key \in Nat : key = recovery.dek
      BY DEF VaultInv, VaultType, KeyRow
    <2>2. /\ recovery # K!NoRow /\ primary' = K!insertKeystoreRow(s, key)
          /\ UNCHANGED <<env, escrow, file, recovery, data, proc, fresh, escrowed, mishaps>>
      BY <1>2, <2>1 DEF K!runRecoverKey, K!RecoverPrimary, K!unwrapDEK
    <2>3. "raced" \notin mishaps => primary # K!NoRow /\ key = primary.dek
      BY <2>1, <2>2 DEF VaultInv, KeyInv
    <2>4. QED
      BY <2>2, <2>3, RewrapStep
  <1>3. ASSUME NEW s \in Chosen \cup {K!None}, K!Configure(s) PROVE VaultInv'
    <2>1. /\ env' \in Chosen \cup {K!None}
          /\ UNCHANGED <<escrow, file, primary, recovery, data, proc, fresh, escrowed, mishaps>>
      BY <1>3 DEF K!Configure, K!rows
    <2>2. QED
      BY <2>1 DEF VaultInv, VaultType, Started, FileInv, KeyInv, DataInv
  <1>4. CASE K!DeleteEmptyFile
    <2>1. /\ file = K!Empty /\ file' = K!None /\ \A p \in Process : proc[p].pc # "write"
          /\ UNCHANGED <<env, escrow, primary, recovery, data, proc, fresh, escrowed, mishaps>>
      BY <1>4 DEF K!DeleteEmptyFile, K!settings, K!rows
    <2>2. /\ \A q \in Process : proc[q].pc # "down" => proc[q].secret # file
          /\ primary # K!NoRow => primary.secret # file
      BY <2>1 DEF VaultInv, VaultType, Started, K!Empty
    <2>3. FileInv'
      BY <2>1, <2>2 DEF VaultInv, FileInv, Settled
    <2>4. file' \in Nat /\ proc' \in [Process -> ProcRow]
      BY <2>1 DEF K!None, VaultInv, VaultType
    <2>5. QED
      BY <2>1, <2>3, <2>4, FileStep
  <1>5. QED
    BY <1>1, <1>2, <1>3, <1>4

\* Every step of KeyVault keeps the invariant.
LEMMA VaultStep ==
    ASSUME VaultInv, K!VaultNext \/ UNCHANGED kVars
    PROVE  VaultInv'
  <1>1. CASE UNCHANGED kVars
    BY <1>1 DEF kVars, VaultInv, VaultType, Started, FileInv, KeyInv, DataInv
  <1>2. ASSUME NEW p \in Process, K!Encrypt(p) PROVE VaultInv'
    <2>1. /\ proc[p].pc = "up" /\ data' = data \cup {proc[p].dek}
          /\ UNCHANGED <<env, escrow, file, primary, recovery, proc, fresh, escrowed, mishaps>>
      BY <1>2 DEF K!Encrypt, K!settings, K!rows
    <2>2. DataInv'
      BY <2>1 DEF VaultInv, KeyInv, DataInv
    <2>3. QED
      BY <2>1, <2>2 DEF VaultInv, VaultType, Started, FileInv, KeyInv
  <1>3. ASSUME NEW p \in Process, K!Stop(p) PROVE VaultInv'
    BY <1>3, ExitStep DEF K!Stop, K!settings, K!rows
  <1>4. QED
    BY <1>1, <1>2, <1>3, ResolveStep, CreateStep, WriteStep, OpenStep, DetectStep, PrimaryStep,
       RecoveryStep, OperatorStep
       DEF K!VaultNext

\* The keystore holds the key that the data is encrypted under, its secret is not lost, and the
\* recovery secret opens it, for any number of processes that start, stop and race for the key
\* file at any step, and any sequence of the operator's commands.
THEOREM DataLasts == AccountsSpec => []DataStaysReadable
  <1>1. AccountsInit => VaultInv
    <2> SUFFICES ASSUME K!VaultInit PROVE VaultInv
      BY DEF AccountsInit
    <2>1. K!NoRow \in KeyRow /\ K!None \in Nat
      BY DEF K!NoRow, KeyRow, K!None
    <2>2. VaultType
      BY <2>1, DownRow, VaultAssumption DEF K!VaultInit, VaultType
    <2>3. Started /\ FileInv /\ KeyInv /\ DataInv
      BY DownRow DEF K!VaultInit, Started, FileInv, KeyInv, DataInv, Settled
    <2>4. QED
      BY <2>2, <2>3 DEF VaultInv
  <1>2. VaultInv /\ [AccountsNext]_accountsVars => VaultInv'
    BY VaultStep
       DEF AccountsNext, accountsVars, MembersMove, SessionsMove, AgentsMove, TypesMove,
           CalendarsMove, KeysMove
  <1>3. VaultInv => DataStaysReadable
    BY DEF VaultInv, FileInv, KeyInv, DataInv, DataStaysReadable, K!DataReadable, K!SecretKept,
           K!RecoveryOpens
  <1>4. QED
    BY <1>1, <1>2, <1>3, PTL DEF AccountsSpec
-----------------------------------------------------------------------------
(* Calendar accounts.                                                      *)

\* Each account is there once.
Distinct(rows) == \A i, j \in DOMAIN rows : rows[i] = rows[j] => i = j

\* Without takes one account out of the order and keeps the others.
LEMMA WithoutRow ==
    ASSUME NEW Name, NEW rows \in Seq(Name), NEW a, Distinct(rows)
    PROVE  LET rest == C!Without(rows, a)
           IN  /\ rest \in Seq(Name) /\ Distinct(rest)
               /\ Range(rest) = Range(rows) \ {a}
  <1>1. CASE ~\E i \in DOMAIN rows : rows[i] = a
    <2>1. C!Without(rows, a) = rows
      BY <1>1 DEF C!Without
    <2>2. QED
      BY <1>1, <2>1 DEF Range
  <1>2. CASE \E i \in DOMAIN rows : rows[i] = a
    <2>1. PICK k \in DOMAIN rows : k = CHOOSE i \in DOMAIN rows : rows[i] = a
      BY <1>2
    <2>2. rows[k] = a
      BY <1>2, <2>1
    <2>3. k \in 1 .. Len(rows) /\ Len(rows) \in Nat
      BY LenProperties
    <2> DEFINE left == SubSeq(rows, 1, k - 1)
               right == SubSeq(rows, k + 1, Len(rows))
               rest == left \o right
    <2>4. C!Without(rows, a) = rest
      BY <1>2, <2>1 DEF C!Without, C!RemoveAt
    <2>5. /\ left \in Seq(Name) /\ Len(left) = k - 1
          /\ \A i \in 1 .. k - 1 : left[i] = rows[i]
      <3>1. \A i \in 1 .. k - 1 : rows[i] \in Name
        BY <2>3
      <3>2. 1 \in Int /\ k - 1 \in Int /\ (k - 1) - 1 + 1 = k - 1
        BY <2>3
      <3>3. /\ SubSeq(rows, 1, k - 1) \in Seq(Name)
            /\ Len(SubSeq(rows, 1, k - 1)) = IF 1 <= k - 1 THEN (k - 1) - 1 + 1 ELSE 0
            /\ \A i \in 1 .. (k - 1) - 1 + 1 : SubSeq(rows, 1, k - 1)[i] = rows[1 + i - 1]
        BY <3>1, <3>2, SubSeqProperties
      <3>4. QED
        BY <2>3, <3>2, <3>3
    <2>6. /\ right \in Seq(Name) /\ Len(right) = Len(rows) - k
          /\ \A i \in 1 .. Len(rows) - k : right[i] = rows[k + i]
      <3>1. \A i \in k + 1 .. Len(rows) : rows[i] \in Name
        BY <2>3
      <3>2. k + 1 \in Int /\ Len(rows) \in Int /\ Len(rows) - (k + 1) + 1 = Len(rows) - k
        BY <2>3
      <3>3. /\ SubSeq(rows, k + 1, Len(rows)) \in Seq(Name)
            /\ Len(SubSeq(rows, k + 1, Len(rows))) =
                  IF k + 1 <= Len(rows) THEN Len(rows) - (k + 1) + 1 ELSE 0
            /\ \A i \in 1 .. Len(rows) - (k + 1) + 1 :
                  SubSeq(rows, k + 1, Len(rows))[i] = rows[(k + 1) + i - 1]
        BY <3>1, <3>2, SubSeqProperties
      <3>4. QED
        BY <2>3, <3>2, <3>3
    <2> HIDE DEF left, right
    <2>7. /\ rest \in Seq(Name) /\ Len(rest) = Len(rows) - 1
          /\ \A i \in 1 .. k - 1 : rest[i] = rows[i]
          /\ \A i \in k .. Len(rows) - 1 : rest[i] = rows[i + 1]
      <3>1. /\ rest \in Seq(Name) /\ Len(rest) = Len(left) + Len(right)
            /\ \A i \in 1 .. Len(left) + Len(right) :
                  rest[i] = IF i <= Len(left) THEN left[i] ELSE right[i - Len(left)]
        BY <2>5, <2>6, ConcatProperties
      <3>2. Len(left) + Len(right) = Len(rows) - 1
        BY <2>3, <2>5, <2>6
      <3>3. ASSUME NEW i \in 1 .. k - 1 PROVE rest[i] = rows[i]
        <4>1. i \in 1 .. Len(left) + Len(right) /\ i <= Len(left)
          BY <2>3, <2>5, <3>2
        <4>2. QED
          BY <2>5, <3>1, <4>1
      <3>4. ASSUME NEW i \in k .. Len(rows) - 1 PROVE rest[i] = rows[i + 1]
        <4>1. /\ i \in 1 .. Len(left) + Len(right) /\ ~(i <= Len(left))
              /\ i - Len(left) \in 1 .. Len(rows) - k /\ k + (i - Len(left)) = i + 1
          BY <2>3, <2>5, <3>2
        <4>2. rest[i] = right[i - Len(left)]
          BY <3>1, <4>1
        <4>3. QED
          BY <2>6, <4>1, <4>2
      <3>5. QED
        BY <3>1, <3>2, <3>3, <3>4
    <2>8. DOMAIN rest = 1 .. Len(rows) - 1 /\ DOMAIN rows = 1 .. Len(rows)
      BY <2>7, LenProperties
    <2> HIDE DEF rest
    <2>9. \A i \in DOMAIN rest : \E j \in DOMAIN rows :
             /\ j # k /\ rest[i] = rows[j] /\ j = IF i < k THEN i ELSE i + 1
      <3> SUFFICES ASSUME NEW i \in DOMAIN rest
                   PROVE  \E j \in DOMAIN rows :
                             /\ j # k /\ rest[i] = rows[j] /\ j = IF i < k THEN i ELSE i + 1
        OBVIOUS
      <3>1. CASE i < k
        BY <2>3, <2>7, <2>8, <3>1
      <3>2. CASE ~(i < k)
        <4>1. i + 1 \in DOMAIN rows /\ i + 1 # k /\ rest[i] = rows[i + 1]
          BY <2>3, <2>7, <2>8, <3>2
        <4>2. QED
          BY <3>2, <4>1
      <3>3. QED
        BY <3>1, <3>2
    <2>10. Range(rest) = Range(rows) \ {a}
      <3>1. \A i \in DOMAIN rest : rest[i] # a /\ \E j \in DOMAIN rows : rest[i] = rows[j]
        BY <2>2, <2>9 DEF Distinct
      <3>2. ASSUME NEW j \in DOMAIN rows, rows[j] # a
            PROVE  \E i \in DOMAIN rest : rest[i] = rows[j]
        <4>1. CASE j < k
          BY <2>3, <2>7, <2>8, <4>1
        <4>2. CASE ~(j < k)
          <5>1. j - 1 \in k .. Len(rows) - 1 /\ j - 1 \in DOMAIN rest /\ (j - 1) + 1 = j
            BY <2>2, <2>3, <2>8, <3>2, <4>2
          <5>2. QED
            BY <2>7, <5>1
        <4>3. QED
          BY <4>1, <4>2
      <3>3. QED
        BY <3>1, <3>2 DEF Range
    <2>11. Distinct(rest)
      <3> SUFFICES ASSUME NEW i \in DOMAIN rest, NEW j \in DOMAIN rest, rest[i] = rest[j]
                   PROVE  i = j
        BY DEF Distinct
      <3>1. (IF i < k THEN i ELSE i + 1) = (IF j < k THEN j ELSE j + 1)
        BY <2>9 DEF Distinct
      <3>2. i \in Int /\ j \in Int /\ k \in Int
        BY <2>3, <2>8
      <3>3. QED
        BY <3>1, <3>2
    <2>12. QED
      BY <2>4, <2>7, <2>10, <2>11
  <1>3. QED
    BY <1>1, <1>2

\* The account that was saved last comes last.
LEMMA YoungestRow ==
    ASSUME NEW Name, NEW rows \in Seq(Name), NEW a \in Name, Distinct(rows)
    PROVE  LET new == Append(C!Without(rows, a), a)
           IN  new \in Seq(Name) /\ Distinct(new) /\ Range(new) = Range(rows) \cup {a}
  <1>1. PICK rest : rest = C!Without(rows, a)
    OBVIOUS
  <1>2. /\ rest \in Seq(Name) /\ Distinct(rest) /\ Range(rest) = Range(rows) \ {a}
    BY <1>1, WithoutRow
  <1> DEFINE new == Append(rest, a)
  <1>3. /\ new \in Seq(Name) /\ Len(new) = Len(rest) + 1
        /\ \A i \in 1 .. Len(rest) : new[i] = rest[i]
        /\ new[Len(rest) + 1] = a
    BY <1>2, AppendProperties
  <1>4. /\ DOMAIN new = 1 .. Len(rest) + 1 /\ DOMAIN rest = 1 .. Len(rest)
        /\ Len(rest) \in Nat
    BY <1>2, <1>3, LenProperties
  <1> HIDE DEF new
  <1>5. \A i \in DOMAIN new : (i \in DOMAIN rest /\ new[i] = rest[i]) \/ i = Len(rest) + 1
    BY <1>3, <1>4
  <1>6. \A i \in DOMAIN rest : rest[i] # a
    BY <1>2 DEF Range
  <1>7. Distinct(new)
    BY <1>2, <1>3, <1>5, <1>6 DEF Distinct
  <1>8. Range(new) = Range(rest) \cup {a}
    <2>1. \A i \in DOMAIN rest : i \in DOMAIN new /\ new[i] = rest[i]
      BY <1>3, <1>4
    <2>2. Len(rest) + 1 \in DOMAIN new
      BY <1>4
    <2>3. QED
      BY <1>3, <1>5, <2>1, <2>2 DEF Range
  <1>9. QED
    BY <1>1, <1>2, <1>3, <1>7, <1>8 DEF new

Path == Seq(STRING)

Site == {"none"} \cup UNION {C!Sites(a) : a \in C!Accounts}

ConnRow == [on: BOOLEAN, dest: BOOLEAN, cal: Path, grant: Nat, site: Site]

RowsType ==
    /\ conn \in [C!Accounts -> ConnRow] /\ age \in Seq(C!Accounts)
    /\ saved \in [C!Accounts -> SUBSET Path] /\ pick \in [C!Accounts -> SUBSET Path]
    /\ latest \in [C!Accounts -> Nat] /\ overtaken \in BOOLEAN

\* The order is one of the connected accounts.
Ordered == Distinct(age) /\ \A a \in C!Accounts : conn[a].on <=> a \in Range(age)

\* Only a connected account is the destination, has a site or has tokens.
Bound ==
    \A a \in C!Accounts :
        /\ conn[a].dest => conn[a].on
        /\ conn[a].on => conn[a].site \in C!Sites(a) /\ conn[a].grant > 0
        /\ ~conn[a].on => conn[a].grant = 0

\* The calendars of an account that did not stray are its own, at the site of its password, and
\* none are left when it is disconnected.
AtHome ==
    \A a \in C!Accounts \ strayed :
        /\ pick[a] \subseteq saved[a]
        /\ conn[a].on => /\ conn[a].cal \in Calendars[a][conn[a].site]
                         /\ saved[a] \subseteq Calendars[a][conn[a].site]
        /\ ~conn[a].on => saved[a] = {}

RowsInv ==
    /\ RowsType /\ Ordered /\ Bound /\ AtHome
    /\ C!OneDestination /\ C!PickInDestination /\ C!AsTheHostLeftIt

\* What the assumption on calendars says of their paths.
LEMMA Paths ==
    /\ C!None \in Path
    /\ \A a \in C!Accounts : \A s \in C!Sites(a) :
          /\ Calendars[a][s] \subseteq Path /\ C!None \notin Calendars[a][s]
          /\ Home[a][s] \in Calendars[a][s] /\ s \in Site
  <1>1. \A a \in C!Accounts : \A s \in C!Sites(a) : s \in Site
    BY DEF Site
  <1>2. QED
    BY <1>1, CalendarsAssumption, EmptySeq DEF Path, C!None, C!Accounts, C!Sites

\* Saving a row under an account: the flag and the calendars picked stay, and so do the others.
LEMMA SaveStep ==
    ASSUME RowsInv, NEW a \in C!Accounts, NEW s \in C!Sites(a), NEW cal \in Path,
           NEW grant1 \in Nat, grant1 > 0,
           C!saveToken(a, cal, grant1, s), UNCHANGED <<pick, overtaken>>,
           latest' \in [C!Accounts -> Nat], saved' \in [C!Accounts -> SUBSET Path],
           strayed \subseteq strayed',
           \A b \in C!Accounts : b # a => saved'[b] = saved[b],
           a \notin strayed' => /\ pick[a] \subseteq saved'[a] /\ cal \in Calendars[a][s]
                                /\ saved'[a] \subseteq Calendars[a][s],
           \A b \in C!Accounts \ revived' : b # a =>
               b \notin revived /\ (b \in wanted' <=> b \in wanted) /\ latest'[b] = latest[b],
           a \notin revived' => a \in wanted' /\ grant1 = latest'[a]
    PROVE  RowsInv'
  <1> DEFINE r == [on |-> TRUE, dest |-> C!ResolveFlags(a), cal |-> cal, grant |-> grant1,
                   site |-> s]
  <1>1. /\ conn \in [C!Accounts -> ConnRow] /\ age \in Seq(C!Accounts)
        /\ pick \in [C!Accounts -> SUBSET Path] /\ Distinct(age)
    BY DEF RowsInv, RowsType, Ordered
  <1>2. /\ C!ResolveFlags(a) \in BOOLEAN
        /\ C!ResolveFlags(a) <=> IF conn[a].on THEN conn[a].dest
                                 ELSE \A b \in C!Accounts : ~conn[b].dest
    BY <1>1 DEF C!ResolveFlags, C!Connected, C!IsDestination, ConnRow
  <1>3. r \in ConnRow
    BY <1>2, Paths DEF ConnRow
  <1>4. /\ r.on = TRUE /\ r.cal = cal /\ r.grant = grant1 /\ r.site = s
        /\ r.dest = C!ResolveFlags(a)
    OBVIOUS
  <1>5. conn' = [conn EXCEPT ![a] = r] /\ age' = Append(C!Without(age, a), a)
    BY DEF C!saveToken
  <1> HIDE DEF r
  <1>6. /\ conn' \in [C!Accounts -> ConnRow] /\ conn'[a] = r
        /\ \A b \in C!Accounts : b # a => conn'[b] = conn[b]
    BY <1>1, <1>3, <1>5
  <1>7. age' \in Seq(C!Accounts) /\ Distinct(age') /\ Range(age') = Range(age) \cup {a}
    BY <1>1, <1>5, YoungestRow
  <1>8. RowsType'
    BY <1>6, <1>7 DEF RowsInv, RowsType
  <1>9. Ordered'
    BY <1>4, <1>6, <1>7 DEF RowsInv, Ordered
  <1>10. Bound' /\ AtHome'
    BY <1>4, <1>6 DEF RowsInv, Bound, AtHome
  <1>11. conn'[a].dest <=> IF conn[a].on THEN conn[a].dest
                           ELSE \A b \in C!Accounts : ~conn[b].dest
    BY <1>2, <1>4, <1>6
  <1>12. C!OneDestination'
    <2>1. \A b, c \in C!Accounts : conn'[b].dest /\ conn'[c].dest => b = c
      BY <1>6, <1>11 DEF RowsInv, C!OneDestination, C!IsDestination
    <2>2. ~overtaken => \E b \in C!Accounts : conn'[b].dest
      <3>1. CASE conn[a].on
        <4>1. age # <<>>
          BY <3>1 DEF RowsInv, Ordered, Range
        <4>2. QED
          BY <1>6, <1>11, <3>1, <4>1 DEF RowsInv, C!OneDestination, C!IsDestination
      <3>2. CASE ~conn[a].on
        BY <1>6, <1>11, <3>2 DEF RowsInv, Bound
      <3>3. QED
        BY <3>1, <3>2
    <2>3. QED
      BY <2>1, <2>2 DEF C!OneDestination, C!IsDestination
  <1>13. C!PickInDestination'
    BY <1>6, <1>11 DEF RowsInv, Bound, C!PickInDestination, C!IsDestination
  <1>14. C!AsTheHostLeftIt'
    BY <1>4, <1>6 DEF RowsInv, C!AsTheHostLeftIt, C!Connected
  <1>15. QED
    BY <1>8, <1>9, <1>10, <1>12, <1>13, <1>14 DEF RowsInv

\* The destination moves to an account, and with it the calendar that may be picked.
LEMMA MoveDestinationStep ==
    ASSUME RowsInv, NEW a \in C!Accounts, C!MoveDestination(a),
           UNCHANGED <<age, latest, wanted, revived>>,
           pick' \in [C!Accounts -> SUBSET Path], saved' \in [C!Accounts -> SUBSET Path],
           strayed \subseteq strayed',
           \A b \in C!Accounts : b # a => pick'[b] = {} /\ saved'[b] = saved[b],
           a \notin strayed' => /\ pick'[a] \subseteq saved'[a]
                                /\ \/ saved'[a] = saved[a]
                                   \/ /\ conn[a].on
                                      /\ saved'[a] \subseteq Calendars[a][conn[a].site],
           overtaken' \in BOOLEAN, conn[a].on \/ overtaken'
    PROVE  RowsInv'
  <1>1. conn \in [C!Accounts -> ConnRow]
    BY DEF RowsInv, RowsType
  <1>2. ASSUME NEW row \in ConnRow, NEW d \in BOOLEAN
        PROVE  LET new == [row EXCEPT !.dest = d]
               IN  /\ new \in ConnRow /\ new.dest = d /\ new.on = row.on /\ new.cal = row.cal
                   /\ new.grant = row.grant /\ new.site = row.site
    BY DEF ConnRow
  <1>3. ASSUME NEW b \in C!Accounts
        PROVE  /\ conn'[b] \in ConnRow /\ conn'[b].on = conn[b].on /\ conn'[b].cal = conn[b].cal
               /\ conn'[b].grant = conn[b].grant /\ conn'[b].site = conn[b].site
               /\ conn'[b].dest <=> b = a /\ conn[b].on
    <2>1. conn'[b] = [conn[b] EXCEPT !.dest = (b = a /\ conn[b].on)]
      BY DEF C!MoveDestination
    <2>2. PICK d \in BOOLEAN : d = (b = a /\ conn[b].on)
      BY <1>1 DEF ConnRow
    <2>3. PICK row \in ConnRow : row = conn[b]
      BY <1>1
    <2>4. conn'[b] = [row EXCEPT !.dest = d]
      BY <2>1, <2>2, <2>3
    <2>5. /\ conn'[b] \in ConnRow /\ conn'[b].dest = d /\ conn'[b].on = row.on
          /\ conn'[b].cal = row.cal /\ conn'[b].grant = row.grant /\ conn'[b].site = row.site
      BY <1>2, <2>4
    <2>6. QED
      BY <2>2, <2>3, <2>5
  <1>4. conn' \in [C!Accounts -> ConnRow]
    BY <1>3 DEF C!MoveDestination
  <1>5. RowsType'
    BY <1>4 DEF RowsInv, RowsType
  <1>6. Ordered'
    BY <1>3 DEF RowsInv, Ordered
  <1>7. Bound' /\ AtHome'
    BY <1>3 DEF RowsInv, Bound, AtHome
  <1>8. C!OneDestination' /\ C!PickInDestination'
    BY <1>3 DEF C!OneDestination, C!PickInDestination, C!IsDestination
  <1>9. C!AsTheHostLeftIt'
    BY <1>3 DEF RowsInv, C!AsTheHostLeftIt, C!Connected
  <1>10. QED
    BY <1>5, <1>6, <1>7, <1>8, <1>9 DEF RowsInv

\* An account that is not connected has a row of this kind.
LEMMA EmptyConn ==
    /\ C!NoRow \in ConnRow /\ C!NoRow.on = FALSE /\ C!NoRow.dest = FALSE /\ C!NoRow.grant = 0
  BY Paths DEF C!NoRow, ConnRow, Site

\* Disconnecting an account gives the destination to the oldest of the others.
LEMMA DisconnectOneStep ==
    ASSUME RowsInv, NEW a \in C!Accounts, C!DisconnectOne(a)
    PROVE  RowsInv'
  <1>1. /\ conn \in [C!Accounts -> ConnRow] /\ age \in Seq(C!Accounts) /\ Distinct(age)
        /\ saved \in [C!Accounts -> SUBSET Path] /\ pick \in [C!Accounts -> SUBSET Path]
    BY DEF RowsInv, RowsType, Ordered
  <1>2. PICK rest : rest = C!Without(age, a)
    OBVIOUS
  <1>3. rest \in Seq(C!Accounts) /\ Distinct(rest) /\ Range(rest) = Range(age) \ {a}
    BY <1>1, <1>2, WithoutRow
  <1>4. /\ age' = rest /\ UNCHANGED <<latest, overtaken, strayed>>
        /\ pick' = [pick EXCEPT ![a] = {}] /\ saved' = [saved EXCEPT ![a] = {}]
        /\ wanted' = wanted \ {a} /\ revived' = revived \ {a}
        /\ conn' = [b \in C!Accounts |->
                       IF b = a THEN C!NoRow
                       ELSE IF conn[a].dest /\ rest # <<>> /\ b = Head(rest)
                            THEN [conn[b] EXCEPT !.dest = TRUE]
                            ELSE conn[b]]
    BY <1>2 DEF C!DisconnectOne, C!IsDestination
  <1>5. rest # <<>> => Head(rest) \in Range(age) \ {a} /\ Head(rest) \in C!Accounts
    <2>1. rest # <<>> => 1 \in DOMAIN rest /\ Head(rest) = rest[1]
      BY <1>3
    <2>2. QED
      BY <1>3, <2>1 DEF Range
  <1>6. ASSUME NEW row \in ConnRow
        PROVE  LET new == [row EXCEPT !.dest = TRUE]
               IN  /\ new \in ConnRow /\ new.dest = TRUE /\ new.on = row.on
                   /\ new.cal = row.cal /\ new.grant = row.grant /\ new.site = row.site
    BY DEF ConnRow
  <1>7. ASSUME NEW b \in C!Accounts, b # a
        PROVE  /\ conn'[b] \in ConnRow /\ conn'[b].on = conn[b].on /\ conn'[b].cal = conn[b].cal
               /\ conn'[b].grant = conn[b].grant /\ conn'[b].site = conn[b].site
               /\ conn'[b].dest <=> \/ conn[b].dest
                                    \/ conn[a].dest /\ rest # <<>> /\ b = Head(rest)
    <2>1. CASE conn[a].dest /\ rest # <<>> /\ b = Head(rest)
      <3>1. conn'[b] = [conn[b] EXCEPT !.dest = TRUE]
        BY <1>4, <1>7, <2>1
      <3>2. QED
        BY <1>1, <1>6, <2>1, <3>1
    <2>2. CASE ~(conn[a].dest /\ rest # <<>> /\ b = Head(rest))
      BY <1>1, <1>4, <1>7, <2>2
    <2>3. QED
      BY <2>1, <2>2
  <1>8. conn'[a] = C!NoRow
    BY <1>4
  <1>9. conn' \in [C!Accounts -> ConnRow]
    <2>1. \A b \in C!Accounts : conn'[b] \in ConnRow
      BY <1>7, <1>8, EmptyConn
    <2>2. QED
      BY <1>4, <2>1
  <1>10. RowsType'
    BY <1>1, <1>3, <1>4, <1>9, Paths DEF RowsInv, RowsType
  <1>11. Ordered'
    BY <1>3, <1>4, <1>7, <1>8, EmptyConn DEF RowsInv, Ordered
  <1>12. \A b \in C!Accounts : /\ pick'[b] = IF b = a THEN {} ELSE pick[b]
                              /\ saved'[b] = IF b = a THEN {} ELSE saved[b]
    BY <1>1, <1>4
  <1>13. Bound' /\ AtHome'
    <2>1. \A b \in C!Accounts : conn'[b].dest => conn'[b].on
      BY <1>5, <1>7, <1>8, EmptyConn DEF RowsInv, Bound, Ordered
    <2>2. Bound'
      BY <1>7, <1>8, <2>1, EmptyConn DEF RowsInv, Bound
    <2>3. AtHome'
      BY <1>4, <1>7, <1>8, <1>12, EmptyConn DEF RowsInv, AtHome
    <2>4. QED
      BY <2>2, <2>3
  <1>14. C!OneDestination'
    <2>1. \A b, c \in C!Accounts : conn'[b].dest /\ conn'[c].dest => b = c
      BY <1>7, <1>8, EmptyConn DEF RowsInv, C!OneDestination, C!IsDestination
    <2>2. ASSUME rest # <<>>, ~overtaken PROVE \E b \in C!Accounts : conn'[b].dest
      <3>1. Head(rest) \in C!Accounts /\ Head(rest) # a /\ age # <<>>
        BY <1>5, <2>2 DEF Range
      <3>2. PICK c \in C!Accounts : conn[c].dest
        BY <2>2, <3>1 DEF RowsInv, C!OneDestination, C!IsDestination
      <3>3. CASE c = a
        BY <1>7, <2>2, <3>1, <3>2, <3>3
      <3>4. CASE c # a
        BY <1>7, <3>2, <3>4
      <3>5. QED
        BY <3>3, <3>4
    <2>3. QED
      BY <1>4, <2>1, <2>2 DEF C!OneDestination, C!IsDestination
  <1>15. C!PickInDestination'
    BY <1>4, <1>7, <1>12 DEF RowsInv, C!PickInDestination, C!IsDestination
  <1>16. C!AsTheHostLeftIt'
    BY <1>4, <1>7, <1>8, EmptyConn DEF RowsInv, C!AsTheHostLeftIt, C!Connected
  <1>17. QED
    BY <1>10, <1>11, <1>13, <1>14, <1>15, <1>16 DEF RowsInv

\* All accounts are disconnected at once.
LEMMA DisconnectStep ==
    ASSUME RowsInv, C!Disconnect
    PROVE  RowsInv'
  <1>1. /\ conn' = [a \in C!Accounts |-> C!NoRow] /\ age' = <<>> /\ UNCHANGED latest
        /\ pick' = [a \in C!Accounts |-> {}] /\ saved' = [a \in C!Accounts |-> {}]
        /\ wanted' = {} /\ revived' = {} /\ overtaken' = FALSE
    BY DEF C!Disconnect
  <1>2. age' \in Seq(C!Accounts) /\ DOMAIN age' = {}
    BY <1>1
  <1>3. RowsType'
    BY <1>1, <1>2, EmptyConn, Paths DEF RowsInv, RowsType
  <1>4. Ordered'
    BY <1>1, <1>2, EmptyConn DEF Ordered, Distinct, Range
  <1>5. Bound' /\ AtHome' /\ C!OneDestination' /\ C!PickInDestination' /\ C!AsTheHostLeftIt'
    BY <1>1, EmptyConn
       DEF Bound, AtHome, C!OneDestination, C!PickInDestination, C!AsTheHostLeftIt, C!IsDestination,
           C!Connected
  <1>6. QED
    BY <1>3, <1>4, <1>5 DEF RowsInv

\* What a request of the picker holds.
FormInv ==
    picker # C!NoForm => /\ picker.acct \in C!Accounts
                         /\ picker.rows \subseteq Path /\ picker.dests \subseteq picker.rows

\* The host chooses an account: the pick inside it stays, the others go.
LEMMA SetDestinationStep ==
    ASSUME RowsInv, NEW a \in C!Accounts, C!SetDestination(a)
    PROVE  RowsInv'
  <1>1. /\ conn[a].on /\ C!MoveDestination(a) /\ overtaken' = FALSE
        /\ pick' = [b \in C!Accounts |-> IF b = a THEN pick[b] ELSE {}]
        /\ UNCHANGED <<age, saved, latest, wanted, revived, strayed>>
    BY DEF C!SetDestination, C!Connected
  <1>2. /\ pick' \in [C!Accounts -> SUBSET Path] /\ saved' \in [C!Accounts -> SUBSET Path]
        /\ \A b \in C!Accounts : b # a => pick'[b] = {} /\ saved'[b] = saved[b]
        /\ a \notin strayed' => pick'[a] \subseteq saved'[a] /\ saved'[a] = saved[a]
    BY <1>1 DEF RowsInv, RowsType, AtHome
  <1>3. QED
    BY <1>1, <1>2, MoveDestinationStep

\* The picker is saved, for an account that may be gone by now.
LEMMA SetCalendarsStep ==
    ASSUME RowsInv, FormInv, C!SetAccountCalendars
    PROVE  RowsInv' /\ FormInv'
  <1>1. PICK a \in C!Accounts : a = picker.acct
    BY DEF FormInv, C!SetAccountCalendars
  <1>2. PICK rows \in SUBSET Path : rows = picker.rows
    BY DEF FormInv, C!SetAccountCalendars
  <1>3. PICK dests \in SUBSET rows : dests = picker.dests
    BY <1>2 DEF FormInv, C!SetAccountCalendars
  <1>4. /\ UNCHANGED <<age, latest, wanted, revived>> /\ picker' = C!NoForm
        /\ IF dests # {} THEN C!MoveDestination(a) ELSE UNCHANGED conn
        /\ pick' = [b \in C!Accounts |-> IF b = a THEN dests
                                         ELSE IF dests # {} THEN {} ELSE pick[b]]
        /\ saved' = [saved EXCEPT ![a] = rows]
        /\ overtaken' = IF conn[a].on THEN overtaken /\ ~(dests # {}) ELSE TRUE
        /\ strayed' = IF conn[a].on /\ rows \subseteq Calendars[a][conn[a].site]
                      THEN strayed ELSE strayed \cup {a}
    BY <1>1, <1>2, <1>3 DEF C!SetAccountCalendars, C!Connected
  <1>5. /\ pick' \in [C!Accounts -> SUBSET Path] /\ saved' \in [C!Accounts -> SUBSET Path]
        /\ saved'[a] = rows /\ pick'[a] = dests
        /\ \A b \in C!Accounts : b # a => saved'[b] = saved[b]
    BY <1>4 DEF RowsInv, RowsType
  <1>6. overtaken' \in BOOLEAN /\ (~conn[a].on => overtaken')
    BY <1>4 DEF RowsInv, RowsType
  <1>7. /\ strayed \subseteq strayed'
        /\ a \notin strayed' => conn[a].on /\ rows \subseteq Calendars[a][conn[a].site]
    BY <1>4
  <1>8. CASE dests # {}
    <2>1. \A b \in C!Accounts : b # a => pick'[b] = {}
      BY <1>4, <1>8
    <2>2. RowsInv'
      BY <1>4, <1>5, <1>6, <1>7, <1>8, <2>1, MoveDestinationStep
    <2>3. QED
      BY <1>4, <2>2 DEF FormInv
  <1>9. CASE dests = {}
    <2>1. UNCHANGED conn /\ \A b \in C!Accounts : pick'[b] = IF b = a THEN {} ELSE pick[b]
      BY <1>4, <1>9
    <2>2. overtaken => overtaken'
      BY <1>4, <1>9, Zenon
    <2>3. RowsType' /\ Ordered' /\ Bound'
      BY <1>4, <1>5, <1>6, <2>1 DEF RowsInv, RowsType, Ordered, Bound
    <2>4. AtHome'
      BY <1>5, <1>7, <2>1 DEF RowsInv, AtHome
    <2>5. C!OneDestination' /\ C!PickInDestination'
      BY <1>4, <2>1, <2>2 DEF RowsInv, C!OneDestination, C!PickInDestination, C!IsDestination
    <2>6. C!AsTheHostLeftIt'
      BY <1>4, <2>1 DEF RowsInv, C!AsTheHostLeftIt, C!Connected
    <2>7. QED
      BY <1>4, <2>3, <2>4, <2>5, <2>6 DEF RowsInv, FormInv
  <1>10. QED
    BY <1>8, <1>9

HandRow == [op: {"none", "read", "create", "update", "cancel"}, acct: C!Accounts \cup {"none"},
            cal: Path, row: Path, grant: Nat, site: Site,
            pc: {"idle", "resolve", "save", "send"}]

EventRow == [on: C!Accounts \cup {"none"}, cal: Path, moved: BOOLEAN]

OperationsType == hand \in HandRow /\ event \in EventRow

\* What an operation on an account that did not stray has read is of that account, at the site
\* that its password is still for; and a filed event lies on a server of that site.
HandAtHome ==
    /\ hand.row \in Calendars[hand.acct][hand.site]
    /\ Provider[hand.acct] # "microsoft" => hand.cal \in Calendars[hand.acct][hand.site]
    /\ conn[hand.acct].on => conn[hand.acct].site = hand.site
    /\ hand.op \in {"update", "cancel"} /\ Provider[hand.acct] = "caldav" =>
          Head(filed.cal) \in C!Servers(hand.acct, hand.site)

\* An operation that writes a new event has none yet; one on a filed event that did not go astray
\* has the account that holds it, or one with its calendar.
InHand ==
    hand.pc # "idle" =>
        /\ hand.op # "none" /\ hand.acct \in C!Accounts /\ hand.grant > 0
        /\ hand.site \in C!Sites(hand.acct)
        /\ hand.acct \notin strayed => HandAtHome
        /\ hand.op = "create" => filed = C!NotFiled
        /\ hand.op \in {"update", "cancel"} =>
              /\ filed # C!NotFiled
              /\ ~moved =>
                    \/ event = C!NoEvent
                    \/ Provider[hand.acct] # "caldav" /\ event.on = hand.acct
                    \/ /\ Provider[hand.acct] = "caldav"
                       /\ event.cal \in Calendars[hand.acct][hand.site]

\* An event is filed under the provider that holds it, with its calendar.
Filed ==
    /\ filed = C!NotFiled => event = C!NoEvent /\ told = C!NotYet
    /\ filed # C!NotFiled => filed.cal \in Path \ {C!None}
    /\ event # C!NoEvent => /\ event.on \in C!Accounts /\ event.cal # C!None
                            /\ event.cal = filed.cal
                            /\ filed.provider = Provider[event.on]

OperationsInv ==
    OperationsType /\ InHand /\ Filed /\ C!ReportedDoneIsDone /\ C!CredentialsStayHome

\* Only what the operation has in hand changes.
LEMMA HandStep ==
    ASSUME OperationsInv, UNCHANGED <<event, filed, told, moved, spilled, strayed>>,
           hand' \in HandRow, InHand'
    PROVE  OperationsInv'
  BY DEF OperationsInv, OperationsType, Filed, C!ReportedDoneIsDone, C!CredentialsStayHome

\* A request of the host falls between the steps of an operation.
LEMMA HostStep ==
    ASSUME OperationsInv, UNCHANGED <<hand, event, filed, told, moved, spilled>>,
           strayed \subseteq strayed',
           hand.acct \in C!Accounts \ strayed' /\ conn'[hand.acct].on =>
               \/ conn'[hand.acct].site = hand.site
               \/ conn[hand.acct].on /\ conn'[hand.acct].site = conn[hand.acct].site
    PROVE  OperationsInv'
  <1>1. InHand'
    <2>1. hand.acct \notin strayed' => hand.acct \notin strayed
      OBVIOUS
    <2>2. ASSUME hand.pc # "idle", hand.acct \notin strayed' PROVE HandAtHome'
      <3>1. HandAtHome /\ hand.acct \in C!Accounts
        BY <2>1, <2>2 DEF OperationsInv, InHand
      <3>2. conn'[hand.acct].on => conn'[hand.acct].site = hand.site
        BY <2>2, <3>1 DEF HandAtHome
      <3>3. QED
        BY <3>1, <3>2 DEF HandAtHome, C!Servers
    <2>3. QED
      BY <2>2 DEF OperationsInv, InHand, C!Sites
  <1>2. QED
    BY <1>1 DEF OperationsInv, OperationsType, Filed, C!ReportedDoneIsDone, C!CredentialsStayHome

\* A row that is loaded: what the operation then has in hand.
LEMMA TakeRow ==
    ASSUME RowsInv, NEW a \in C!Accounts, conn[a].on,
           NEW op \in {"read", "create", "update", "cancel"},
           NEW pc \in {"resolve", "save", "send"}, C!Take(op, a, pc)
    PROVE  /\ hand' \in HandRow /\ hand'.op = op /\ hand'.acct = a /\ hand'.pc = pc
           /\ hand'.grant > 0 /\ hand'.site \in C!Sites(a) /\ hand'.site = conn[a].site
           /\ a \notin strayed => /\ hand'.cal \in Calendars[a][hand'.site]
                                  /\ hand'.row \in Calendars[a][hand'.site]
  <1>1. /\ conn[a].cal \in Path /\ conn[a].grant \in Nat /\ conn[a].grant > 0
        /\ conn[a].site \in C!Sites(a) /\ conn[a].site \in Site
        /\ a \notin strayed => conn[a].cal \in Calendars[a][conn[a].site]
    BY Paths DEF RowsInv, RowsType, Bound, AtHome, ConnRow
  <1>2. hand' = [op |-> op, acct |-> a, cal |-> conn[a].cal, row |-> conn[a].cal,
                 grant |-> conn[a].grant, site |-> conn[a].site, pc |-> pc]
    BY DEF C!Take
  <1>3. QED
    BY <1>1, <1>2 DEF HandRow

\* No operation, no event and no report.
LEMMA EmptyHand ==
    /\ C!NoHand \in HandRow /\ C!NoHand.pc = "idle"
    /\ C!NoEvent \in EventRow /\ C!NoEvent.moved = FALSE
    /\ C!NotYet.result = "none"
  BY Paths DEF C!NoHand, HandRow, C!NoEvent, EventRow, C!NotYet, Site

\* An operation that reads, or that writes a new event, loads a connected row.
LEMMA ReadStep ==
    ASSUME RowsInv, OperationsInv, NEW a \in C!Accounts,
           C!freeBusyConnections(a) \/ C!conflictConns(a) \/ C!CreateEvent(a)
    PROVE  OperationsInv'
  <1>1. UNCHANGED <<event, filed, told, moved, spilled, strayed, conn>> /\ conn[a].on
    BY DEF C!freeBusyConnections, C!conflictConns, C!CreateEvent, C!eventVars, C!rowVars,
           C!Connected, C!IsDestination, RowsInv, Bound
  <1>2. PICK op \in {"read", "create"} : \E pc \in {"resolve", "save"} :
           C!Take(op, a, pc) /\ (op = "create" => filed = C!NotFiled)
    BY DEF C!freeBusyConnections, C!conflictConns, C!CreateEvent
  <1>3. PICK pc \in {"resolve", "save"} : C!Take(op, a, pc)
    BY <1>2
  <1>4. /\ hand' \in HandRow /\ hand'.op = op /\ hand'.acct = a /\ hand'.pc = pc
        /\ hand'.grant > 0 /\ hand'.site \in C!Sites(a) /\ hand'.site = conn[a].site
        /\ a \notin strayed => /\ hand'.cal \in Calendars[a][hand'.site]
                               /\ hand'.row \in Calendars[a][hand'.site]
    BY <1>1, <1>3, TakeRow
  <1>5. InHand'
    BY <1>1, <1>2, <1>4 DEF InHand, HandAtHome, C!Sites
  <1>6. QED
    BY <1>1, <1>4, <1>5, HandStep

\* The calendar is resolved.
LEMMA ResolveCalendarStep ==
    ASSUME RowsInv, OperationsInv, C!httpClient \/ C!loadConn \/ C!destinationCalendarID
    PROVE  OperationsInv'
  <1>1. /\ UNCHANGED <<event, filed, told, moved, spilled, strayed, conn>>
        /\ hand.pc = "resolve" /\ hand \in HandRow
    BY DEF C!httpClient, C!loadConn, C!destinationCalendarID, C!Resolved, C!eventVars, C!rowVars,
           OperationsInv, OperationsType
  <1>2. PICK a \in C!Accounts : a = hand.acct
    BY <1>1 DEF OperationsInv, InHand
  <1>3. a \notin strayed => HandAtHome
    BY <1>1, <1>2 DEF OperationsInv, InHand
  <1>4. /\ hand.cal \in Path /\ hand.row \in Path /\ hand.site \in C!Sites(a)
        /\ Home[a][hand.site] \in Path
    BY <1>1, <1>2, Paths DEF OperationsInv, InHand, HandRow
  <1>5. ASSUME NEW b \in C!Accounts, NEW otherwise \in Path,
               NEW c \in C!DestinationCalendarID(b, otherwise)
        PROVE  c \in Path /\ (c = otherwise \/ c \in pick[b])
    BY DEF C!DestinationCalendarID, RowsInv, RowsType
  <1>6. ASSUME NEW c \in C!DestinationCalendarID(a, hand.cal), a \notin strayed,
               Provider[a] # "microsoft"
        PROVE  c \in Calendars[a][hand.site]
    <2>1. hand.cal \in Calendars[a][hand.site] /\ (conn[a].on => conn[a].site = hand.site)
      BY <1>2, <1>3, <1>6 DEF HandAtHome
    <2>2. c \in pick[a] => conn[a].on /\ c \in Calendars[a][conn[a].site]
      BY <1>6 DEF RowsInv, AtHome
    <2>3. QED
      BY <1>4, <1>5, <1>6, <2>1, <2>2
  <1>7. ASSUME NEW cal \in Path, NEW row \in Path, NEW pc \in {"save", "send"},
               hand' = [hand EXCEPT !.cal = cal, !.row = row, !.pc = pc],
               a \notin strayed => row \in Calendars[a][hand.site],
               a \notin strayed /\ Provider[a] # "microsoft" => cal \in Calendars[a][hand.site]
        PROVE  OperationsInv'
    <2>1. /\ hand' \in HandRow /\ hand'.op = hand.op /\ hand'.acct = a /\ hand'.pc = pc
          /\ hand'.grant = hand.grant /\ hand'.cal = cal /\ hand'.row = row
          /\ hand'.site = hand.site
      BY <1>1, <1>2, <1>7 DEF HandRow
    <2>2. a \notin strayed => HandAtHome'
      BY <1>1, <1>2, <1>3, <1>7, <2>1 DEF HandAtHome, C!Servers
    <2>3. InHand'
      BY <1>1, <1>2, <2>1, <2>2 DEF OperationsInv, InHand, C!Sites
    <2>4. QED
      BY <1>1, <2>1, <2>3, HandStep
  <1>8. a \notin strayed => hand.row \in Calendars[a][hand.site]
    BY <1>2, <1>3 DEF HandAtHome
  <1>9. CASE C!httpClient
    <2>1. PICK c \in C!DestinationCalendarID(a, hand.cal) :
             hand' = [hand EXCEPT !.cal = c, !.row = c, !.pc = "save"]
      BY <1>2, <1>9 DEF C!httpClient
    <2>2. Provider[a] # "microsoft"
      BY <1>2, <1>9 DEF C!httpClient
    <2>3. QED
      BY <1>4, <1>5, <1>6, <1>7, <2>1, <2>2
  <1>10. CASE C!loadConn
    <2>1. PICK c \in C!DestinationCalendarID(a, hand.cal) :
             hand' = [hand EXCEPT !.cal = c, !.pc = "send"]
      BY <1>2, <1>10 DEF C!loadConn
    <2>2. Provider[a] # "microsoft"
      BY <1>2, <1>10 DEF C!loadConn
    <2>3. hand' = [hand EXCEPT !.cal = c, !.row = hand.row, !.pc = "send"]
      BY <1>1, <2>1 DEF HandRow
    <2>4. QED
      BY <1>4, <1>5, <1>6, <1>7, <1>8, <2>2, <2>3
  <1>11. CASE C!destinationCalendarID
    <2> DEFINE home == Home[a][hand.site]
               dests == {b \in C!Accounts : C!IsDestination(b) /\ Provider[b] = "microsoft"}
               choice == IF dests = {} THEN {home}
                         ELSE UNION {C!DestinationCalendarID(b, home) : b \in dests}
    <2>1. PICK c \in choice : hand' = [hand EXCEPT !.cal = c, !.pc = "save"]
      BY <1>2, <1>11 DEF C!destinationCalendarID
    <2>2. Provider[a] = "microsoft"
      BY <1>2, <1>11 DEF C!destinationCalendarID
    <2>3. c \in Path
      <3>1. CASE dests = {}
        BY <1>4, <2>1, <3>1
      <3>2. CASE dests # {}
        <4>1. PICK b \in dests : c \in C!DestinationCalendarID(b, home)
          BY <2>1, <3>2
        <4>2. QED
          BY <1>4, <1>5, <4>1
      <3>3. QED
        BY <3>1, <3>2
    <2>4. hand' = [hand EXCEPT !.cal = c, !.row = hand.row, !.pc = "save"]
      BY <1>1, <2>1 DEF HandRow
    <2>5. QED
      BY <1>4, <1>7, <1>8, <2>2, <2>3, <2>4
  <1>12. QED
    BY <1>9, <1>10, <1>11

\* CalDAV's free/busy asks the calendars that are saved for the account.
LEMMA FreeBusyStep ==
    ASSUME RowsInv, OperationsInv, C!ConflictCalendarIDs
    PROVE  OperationsInv'
  <1>1. /\ hand.pc = "resolve" /\ hand.op = "read" /\ hand' = C!NoHand
        /\ UNCHANGED <<event, filed, told, moved, strayed>>
    BY DEF C!ConflictCalendarIDs
  <1>2. PICK a \in C!Accounts : a = hand.acct
    BY <1>1 DEF OperationsInv, InHand
  <1>3. C!CredentialsStayHome'
    <2>1. CASE UNCHANGED spilled
      BY <1>1, <2>1 DEF OperationsInv, C!CredentialsStayHome
    <2>2. ASSUME NEW url \in IF saved[a] # {} THEN saved[a] ELSE {hand.cal},
                 C!Authenticate(url)
          PROVE  C!CredentialsStayHome'
      <3>1. CASE a \in strayed \/ Provider[a] # "caldav"
        BY <1>1, <1>2, <2>2, <3>1 DEF C!Authenticate, OperationsInv, C!CredentialsStayHome
      <3>2. CASE a \notin strayed /\ Provider[a] = "caldav"
        <4>1. /\ hand.cal \in Calendars[a][hand.site]
              /\ conn[a].on => conn[a].site = hand.site
          BY <1>1, <1>2, <3>2 DEF OperationsInv, InHand, HandAtHome
        <4>2. saved[a] # {} => conn[a].on /\ saved[a] \subseteq Calendars[a][conn[a].site]
          BY <3>2 DEF RowsInv, AtHome
        <4>3. url \in Calendars[a][hand.site]
          BY <2>2, <4>1, <4>2
        <4>4. Head(url) \in C!Servers(a, hand.site)
          BY <4>3 DEF C!Servers
        <4>5. UNCHANGED spilled
          BY <1>2, <2>2, <4>4 DEF C!Authenticate
        <4>6. QED
          BY <2>1, <4>5
      <3>3. QED
        BY <3>1, <3>2
    <2>3. QED
      BY <1>2, <2>1, <2>2 DEF C!ConflictCalendarIDs
  <1>4. hand' \in HandRow /\ InHand'
    BY <1>1, EmptyHand DEF InHand
  <1>5. QED
    BY <1>1, <1>3, <1>4 DEF OperationsInv, OperationsType, Filed, C!ReportedDoneIsDone

\* The token is saved, or not, and the operation goes on.
LEMMA TokenStep ==
    ASSUME RowsInv, OperationsInv, C!Token
    PROVE  RowsInv' /\ OperationsInv'
  <1>1. /\ hand.pc = "save" /\ UNCHANGED <<saved, pick, overtaken, latest, wanted, strayed>>
        /\ UNCHANGED <<event, filed, told, moved, spilled>>
        /\ hand' = IF hand.op = "read" THEN C!NoHand ELSE [hand EXCEPT !.pc = "send"]
    BY DEF C!Token, C!eventVars, C!hostVars
  <1>2. hand \in HandRow
    BY DEF OperationsInv, OperationsType
  <1>3. PICK a \in C!Accounts : a = hand.acct
    BY <1>1 DEF OperationsInv, InHand
  <1>4. PICK row \in Path : row = hand.row
    BY <1>2 DEF HandRow
  <1>5. PICK held1 \in Nat : held1 = hand.grant /\ held1 > 0
    BY <1>1, <1>2 DEF OperationsInv, InHand, HandRow
  <1>6. PICK s \in C!Sites(a) : s = hand.site
    BY <1>1, <1>3 DEF OperationsInv, InHand
  <1>7. a \notin strayed => HandAtHome
    BY <1>1, <1>3 DEF OperationsInv, InHand
  <1>8. \/ UNCHANGED <<conn, age, revived>>
        \/ /\ C!saveToken(a, row, held1, s)
           /\ revived' = IF conn[a].grant = held1 THEN revived ELSE revived \cup {a}
    BY <1>3, <1>4, <1>5, <1>6 DEF C!Token, C!rowVars
  <1>9. RowsInv'
    <2>1. CASE UNCHANGED <<conn, age, revived>>
      BY <1>1, <2>1 DEF RowsInv, RowsType, Ordered, Bound, AtHome, C!OneDestination,
                        C!PickInDestination, C!AsTheHostLeftIt, C!IsDestination, C!Connected
    <2>2. CASE /\ C!saveToken(a, row, held1, s)
               /\ revived' = IF conn[a].grant = held1 THEN revived ELSE revived \cup {a}
      <3>1. latest' \in [C!Accounts -> Nat] /\ saved' \in [C!Accounts -> SUBSET Path]
        BY <1>1 DEF RowsInv, RowsType
      <3>2. \A b \in C!Accounts \ revived' : b # a =>
               b \notin revived /\ (b \in wanted' <=> b \in wanted) /\ latest'[b] = latest[b]
        BY <1>1, <2>2
      <3>3. a \notin revived' => a \in wanted' /\ held1 = latest'[a]
        <4> SUFFICES ASSUME a \notin revived' PROVE a \in wanted' /\ held1 = latest'[a]
          OBVIOUS
        <4>1. a \notin revived /\ conn[a].grant = held1
          BY <2>2
        <4>2. conn[a].on
          BY <1>5, <4>1 DEF RowsInv, Bound
        <4>3. QED
          BY <1>1, <4>1, <4>2 DEF RowsInv, C!AsTheHostLeftIt, C!Connected
      <3>4. a \notin strayed' => /\ pick[a] \subseteq saved'[a] /\ row \in Calendars[a][s]
                                 /\ saved'[a] \subseteq Calendars[a][s]
        BY <1>1, <1>3, <1>4, <1>6, <1>7 DEF RowsInv, AtHome, HandAtHome
      <3>5. QED
        BY <1>1, <1>5, <2>2, <3>1, <3>2, <3>3, <3>4, SaveStep
    <2>3. QED
      BY <1>8, <2>1, <2>2
  <1>10. conn'[a].on => conn'[a].site = s \/ conn'[a] = conn[a]
    BY <1>8 DEF RowsInv, RowsType, C!saveToken
  <1>11. OperationsInv'
    <2>1. CASE hand' = C!NoHand
      <3>1. hand' \in HandRow /\ InHand'
        BY <2>1, EmptyHand DEF InHand
      <3>2. QED
        BY <1>1, <3>1, HandStep
    <2>2. CASE hand' = [hand EXCEPT !.pc = "send"]
      <3>1. /\ hand' \in HandRow /\ hand'.op = hand.op /\ hand'.acct = hand.acct
            /\ hand'.grant = hand.grant /\ hand'.cal = hand.cal /\ hand'.row = hand.row
            /\ hand'.site = hand.site
        BY <1>2, <2>2 DEF HandRow
      <3>2. a \notin strayed => HandAtHome'
        BY <1>1, <1>3, <1>6, <1>7, <1>10, <3>1 DEF HandAtHome, C!Servers
      <3>3. InHand'
        BY <1>1, <1>3, <3>1, <3>2 DEF OperationsInv, InHand, C!Sites
      <3>4. QED
        BY <1>1, <3>1, <3>3, HandStep
    <2>3. QED
      BY <1>1, <2>1, <2>2
  <1>12. QED
    BY <1>9, <1>11

\* An update or a cancel begins: an update is not yet made.
LEMMA PendingStep ==
    ASSUME OperationsInv, NEW op \in {"update", "cancel"}, C!Pending(op)
    PROVE  /\ filed # C!NotFiled /\ event' \in EventRow
           /\ event = C!NoEvent <=> event' = C!NoEvent
           /\ event'.on = event.on /\ event'.cal = event.cal
  <1>1. event \in EventRow /\ filed # C!NotFiled
    BY DEF C!Pending, OperationsInv, OperationsType
  <1>2. CASE op = "cancel"
    BY <1>1, <1>2 DEF C!Pending
  <1>3. CASE op = "update"
    <2>1. event' = [event EXCEPT !.moved = FALSE]
      BY <1>3 DEF C!Pending
    <2>2. /\ event' \in EventRow /\ event'.on = event.on /\ event'.cal = event.cal
          /\ event'.moved = FALSE
      BY <1>1, <2>1 DEF EventRow
    <2>3. event = C!NoEvent => event' = C!NoEvent
      BY <2>1, EmptyHand DEF C!NoEvent
    <2>4. event # C!NoEvent => event.cal # C!None
      BY DEF OperationsInv, Filed
    <2>5. C!NoEvent.cal = C!None
      BY DEF C!NoEvent
    <2>6. QED
      BY <1>1, <2>2, <2>3, <2>4, <2>5
  <1>4. QED
    BY <1>2, <1>3

\* The account is the one that holds the event, unless the operation went astray.
LEMMA DestinationStep ==
    ASSUME RowsInv, OperationsInv, NEW op \in {"update", "cancel"}, C!DestinationClient(op)
    PROVE  OperationsInv'
  <1> DEFINE theirs == {a \in C!Accounts : C!IsDestination(a) /\ Provider[a] = filed.provider}
  <1>1. /\ C!Pending(op) /\ filed.provider # "caldav"
        /\ UNCHANGED <<filed, spilled, strayed, conn>>
        /\ moved' = (event # C!NoEvent /\ ~C!IsDestination(event.on))
        /\ \/ theirs = {} /\ C!Answer(op, "ok")
           \/ \E a \in theirs : C!Take(op, a, "resolve") /\ told' = C!NotYet
    BY DEF C!DestinationClient, C!rowVars
  <1>2. /\ filed # C!NotFiled /\ event' \in EventRow
        /\ event = C!NoEvent <=> event' = C!NoEvent
        /\ event'.on = event.on /\ event'.cal = event.cal
    BY <1>1, PendingStep
  <1>3. Filed' /\ C!CredentialsStayHome'
    BY <1>1, <1>2 DEF OperationsInv, Filed, C!CredentialsStayHome
  <1>4. ~moved' => event = C!NoEvent \/ conn[event.on].dest
    BY <1>1, Zenon DEF C!IsDestination
  <1>5. event # C!NoEvent => event.on \in C!Accounts /\ filed.provider = Provider[event.on]
    BY DEF OperationsInv, Filed
  <1>6. CASE theirs = {} /\ C!Answer(op, "ok")
    <2>1. hand' = C!NoHand /\ told' = [op |-> op, result |-> "ok"]
      BY <1>6 DEF C!Answer
    <2>2. hand' \in HandRow /\ InHand'
      BY <2>1, EmptyHand DEF InHand
    <2>3. ~moved' => event = C!NoEvent
      BY <1>4, <1>5, <1>6 DEF C!IsDestination
    <2>4. C!ReportedDoneIsDone'
      BY <1>2, <2>3 DEF C!ReportedDoneIsDone
    <2>5. QED
      BY <1>1, <1>2, <1>3, <2>2, <2>4 DEF OperationsInv, OperationsType
  <1>7. ASSUME NEW a \in theirs, C!Take(op, a, "resolve"), told' = C!NotYet
        PROVE  OperationsInv'
    <2>1. a \in C!Accounts /\ conn[a].dest /\ conn[a].on /\ Provider[a] = filed.provider
      BY DEF C!IsDestination, RowsInv, Bound
    <2>2. /\ hand' \in HandRow /\ hand'.op = op /\ hand'.acct = a /\ hand'.pc = "resolve"
          /\ hand'.grant > 0 /\ hand'.site \in C!Sites(a) /\ hand'.site = conn[a].site
          /\ a \notin strayed => /\ hand'.cal \in Calendars[a][hand'.site]
                                 /\ hand'.row \in Calendars[a][hand'.site]
      BY <1>7, <2>1, TakeRow
    <2>3. ~moved' => event' = C!NoEvent \/ event'.on = a
      BY <1>2, <1>4, <1>5, <2>1 DEF RowsInv, C!OneDestination, C!IsDestination
    <2>4. InHand'
      BY <1>1, <1>2, <2>1, <2>2, <2>3 DEF InHand, HandAtHome, C!Sites
    <2>5. C!ReportedDoneIsDone'
      BY <1>7, EmptyHand DEF C!ReportedDoneIsDone
    <2>6. QED
      BY <1>1, <1>2, <1>3, <2>2, <2>4, <2>5 DEF OperationsInv, OperationsType
  <1>8. QED
    BY <1>1, <1>6, <1>7

\* A path that starts with another one, which is not empty, starts at the same server.
LEMMA SameServer ==
    ASSUME NEW c \in Path \ {C!None}, NEW url \in Path, C!IsPrefix(c, url)
    PROVE  Head(c) = Head(url)
  <1>1. Len(c) \in Nat \ {0} /\ Len(url) \in Nat /\ Len(c) <= Len(url)
        /\ SubSeq(c, 1, Len(c)) = SubSeq(url, 1, Len(c))
    BY LenProperties, EmptySeq DEF Path, C!None, C!IsPrefix
  <1>2. Head(SubSeq(c, 1, Len(c))) = c[1]
    BY <1>1, HeadTailOfSubSeq DEF Path
  <1>3. Head(SubSeq(url, 1, Len(c))) = url[1]
    BY <1>1, HeadTailOfSubSeq DEF Path
  <1>4. Head(c) = c[1] /\ Head(url) = url[1]
    BY <1>1 DEF Path
  <1>5. QED
    BY <1>1, <1>2, <1>3, <1>4

\* An account that has the recorded calendar holds it deepest: it is one of the owners.
LEMMA KnownOwner ==
    ASSUME NEW url \in Path, NEW u \in C!Holding(url), url \in C!Collections(u)
    PROVE  u \in C!pickEventOwner(url, url)
  <1> DEFINE exact == {a \in C!Holding(url) : url \in C!Collections(a)}
             best == IF exact # {} THEN exact ELSE C!Holding(url)
             depth(a) == {Len(c) : c \in {d \in C!Collections(a) : C!IsPrefix(d, url)}}
             deeper(a, b) == \E n \in depth(a) : \A k \in depth(b) : n > k
  <1>1. C!pickEventOwner(url, url) = {a \in best : \A b \in best : ~deeper(b, a)}
    BY DEF C!pickEventOwner
  <1>2. u \in best
    OBVIOUS
  <1>3. Len(url) \in Nat /\ C!IsPrefix(url, url)
    BY LenProperties DEF Path, C!IsPrefix
  <1>4. Len(url) \in depth(u)
    BY <1>3
  <1>5. ASSUME NEW b, NEW n \in depth(b) PROVE n <= Len(url)
    BY DEF C!IsPrefix
  <1>6. ASSUME NEW b \in best, deeper(b, u) PROVE FALSE
    <2>1. PICK n \in depth(b) : n > Len(url)
      BY <1>4, <1>6
    <2>2. n <= Len(url)
      BY <1>5
    <2>3. PICK c \in C!Collections(b) : n = Len(c) /\ C!IsPrefix(c, url)
      OBVIOUS
    <2>4. QED
      BY <1>3, <2>1, <2>2
  <1>7. QED
    BY <1>1, <1>2, <1>6

\* CalDAV: the account holds the resource in one of its collections, so that its password
\* goes to a server of its own; and if an account has the event's calendar, it is that one.
LEMMA OwnerStep ==
    ASSUME RowsInv, OperationsInv, NEW op \in {"update", "cancel"}, C!eventConn(op)
    PROVE  OperationsInv'
  <1> DEFINE holder == C!pickEventOwner(filed.cal, filed.cal)
             none == ~\E a \in C!Accounts : C!Connected(a) /\ Provider[a] = "caldav"
             known == \E a \in C!Holding(filed.cal) \ strayed : filed.cal \in C!Collections(a)
  <1>1. /\ C!Pending(op) /\ UNCHANGED <<filed, spilled, strayed, conn>>
        /\ moved' = (none \/ ~known)
        /\ \/ none /\ C!Answer(op, "ok")
           \/ C!Answer(op, "refused")
           \/ \E a \in C!Accounts : holder = {a} /\ C!Take(op, a, "send") /\ told' = C!NotYet
    BY DEF C!eventConn, C!rowVars
  <1>2. /\ filed # C!NotFiled /\ event' \in EventRow
        /\ event = C!NoEvent <=> event' = C!NoEvent
        /\ event'.on = event.on /\ event'.cal = event.cal
    BY <1>1, PendingStep
  <1>3. Filed' /\ C!CredentialsStayHome'
    BY <1>1, <1>2 DEF OperationsInv, Filed, C!CredentialsStayHome
  <1>4. ASSUME NEW result \in {"ok", "refused"}, C!Answer(op, result), result = "ok" => none
        PROVE  OperationsInv'
    <2>1. hand' = C!NoHand /\ told' = [op |-> op, result |-> result]
      BY <1>4 DEF C!Answer
    <2>2. hand' \in HandRow /\ InHand'
      BY <2>1, EmptyHand DEF InHand
    <2>3. C!ReportedDoneIsDone'
      <3>1. none => moved'
        BY <1>1
      <3>2. told'.result = result
        BY <2>1
      <3>3. QED
        BY <1>4, <3>1, <3>2 DEF C!ReportedDoneIsDone
    <2>4. QED
      BY <1>1, <1>2, <1>3, <2>2, <2>3 DEF OperationsInv, OperationsType
  <1>5. ASSUME NEW a \in C!Accounts, holder = {a}, C!Take(op, a, "send"), told' = C!NotYet
        PROVE  OperationsInv'
    <2>1. a \in C!Holding(filed.cal)
      BY <1>5 DEF C!pickEventOwner
    <2>2. conn[a].on /\ Provider[a] = "caldav"
      BY <2>1 DEF C!Holding, C!Connected
    <2>3. filed.cal \in Path
      BY <1>2 DEF OperationsInv, Filed
    <2>4. /\ hand' \in HandRow /\ hand'.op = op /\ hand'.acct = a /\ hand'.pc = "send"
          /\ hand'.grant > 0 /\ hand'.site \in C!Sites(a) /\ hand'.site = conn[a].site
          /\ a \notin strayed => /\ hand'.cal \in Calendars[a][hand'.site]
                                 /\ hand'.row \in Calendars[a][hand'.site]
      BY <1>5, <2>2, TakeRow
    <2>5. a \notin strayed =>
             C!Collections(a) \subseteq Calendars[a][conn[a].site]
      BY <2>2 DEF C!Collections, RowsInv, AtHome
    <2>6. a \notin strayed => Head(filed.cal) \in C!Servers(a, conn[a].site)
      <3> SUFFICES ASSUME a \notin strayed PROVE Head(filed.cal) \in C!Servers(a, conn[a].site)
        OBVIOUS
      <3>1. PICK c \in C!Collections(a) : C!IsPrefix(c, filed.cal)
        BY <2>1 DEF C!Holding
      <3>2. conn[a].site \in C!Sites(a)
        BY <2>2, <2>4
      <3>3. c \in Calendars[a][conn[a].site] /\ c \in Path \ {C!None}
        BY <2>5, <3>1, <3>2, Paths
      <3>4. Head(c) = Head(filed.cal)
        BY <2>3, <3>1, <3>3, SameServer
      <3>5. QED
        BY <3>3, <3>4 DEF C!Servers
    <2>7. known => filed.cal \in Calendars[a][conn[a].site]
      <3> SUFFICES ASSUME known PROVE filed.cal \in Calendars[a][conn[a].site]
        OBVIOUS
      <3>1. PICK u \in C!Holding(filed.cal) \ strayed : filed.cal \in C!Collections(u)
        OBVIOUS
      <3>2. u = a
        BY <1>5, <2>3, <3>1, KnownOwner
      <3>3. QED
        BY <2>5, <3>1, <3>2
    <2>8. ~moved' => event' = C!NoEvent \/ event'.cal \in Calendars[a][hand'.site]
      <3> SUFFICES ASSUME ~moved', event' # C!NoEvent
                   PROVE  event'.cal \in Calendars[a][hand'.site]
        OBVIOUS
      <3>1. known
        BY <1>1
      <3>2. event'.cal = filed.cal
        BY <1>2 DEF OperationsInv, Filed
      <3>3. QED
        BY <2>4, <2>7, <3>1, <3>2
    <2>9. a \notin strayed => HandAtHome'
      BY <1>1, <2>2, <2>4, <2>6 DEF HandAtHome, C!Servers
    <2>10. InHand'
      BY <1>1, <1>2, <2>2, <2>4, <2>8, <2>9 DEF InHand, C!Sites
    <2>11. C!ReportedDoneIsDone'
      BY <1>5, EmptyHand DEF C!ReportedDoneIsDone
    <2>12. QED
      BY <1>1, <1>2, <1>3, <2>4, <2>10, <2>11 DEF OperationsInv, OperationsType
  <1>6. QED
    BY <1>1, <1>4, <1>5

\* The call that writes the event, and files it under the provider that wrote it.
LEMMA CreateSent ==
    ASSUME OperationsInv, C!SendCreate
    PROVE  OperationsInv'
  <1>1. /\ hand.pc = "send" /\ hand.op = "create" /\ hand' = C!NoHand
        /\ UNCHANGED <<told, moved, strayed>> /\ C!Authenticate(hand.cal)
    BY DEF C!SendCreate
  <1>2. /\ hand.acct \in C!Accounts /\ filed = C!NotFiled /\ told = C!NotYet /\ event = C!NoEvent
        /\ hand.acct \notin strayed => HandAtHome
        /\ hand.site \in C!Sites(hand.acct)
    BY <1>1 DEF OperationsInv, InHand, Filed
  <1>3. hand.acct \notin strayed /\ Provider[hand.acct] = "caldav" =>
           Head(hand.cal) \in C!Servers(hand.acct, hand.site)
    BY <1>2 DEF HandAtHome, C!Servers
  <1>4. C!CredentialsStayHome'
    BY <1>1, <1>3 DEF OperationsInv, C!CredentialsStayHome, C!Authenticate
  <1>5. hand' \in HandRow /\ InHand'
    BY <1>1, EmptyHand DEF InHand
  <1>6. C!ReportedDoneIsDone'
    BY <1>1, <1>2, EmptyHand DEF C!ReportedDoneIsDone
  <1>7. CASE UNCHANGED <<event, filed>>
    BY <1>1, <1>4, <1>5, <1>6, <1>7 DEF OperationsInv, OperationsType, Filed
  <1>8. CASE /\ hand.cal \in Calendars[hand.acct][hand.site]
             /\ event' = [on |-> hand.acct, cal |-> hand.cal, moved |-> FALSE]
             /\ filed' = [provider |-> Provider[hand.acct], cal |-> hand.cal]
    <2>1. hand.cal \in Path \ {C!None}
      BY <1>2, <1>8, Paths
    <2>2. event' \in EventRow /\ event'.on = hand.acct /\ event'.cal = hand.cal
      BY <1>2, <1>8, <2>1 DEF EventRow
    <2>3. /\ filed'.provider = Provider[hand.acct] /\ filed'.cal = hand.cal
          /\ filed' # C!NotFiled
      BY <1>8, <2>1 DEF C!NotFiled
    <2>4. Filed'
      BY <1>2, <2>1, <2>2, <2>3 DEF Filed
    <2>5. QED
      BY <1>4, <1>5, <1>6, <2>2, <2>4 DEF OperationsInv, OperationsType
  <1>9. QED
    BY <1>7, <1>8 DEF C!SendCreate, C!Stamp

\* The call that updates or cancels it: what is reported done is done.
LEMMA CallSent ==
    ASSUME OperationsInv, NEW op \in {"update", "cancel"}, C!Send(op)
    PROVE  OperationsInv'
  <1>1. /\ hand.pc = "send" /\ hand.op = op /\ UNCHANGED <<filed, moved, strayed>>
        /\ C!Authenticate(filed.cal)
    BY DEF C!Send
  <1>2. /\ filed # C!NotFiled /\ hand.acct \in C!Accounts
        /\ hand.acct \notin strayed => HandAtHome
        /\ ~moved => \/ event = C!NoEvent
                     \/ Provider[hand.acct] # "caldav" /\ event.on = hand.acct
                     \/ /\ Provider[hand.acct] = "caldav"
                        /\ event.cal \in Calendars[hand.acct][hand.site]
    BY <1>1 DEF OperationsInv, InHand
  <1>3. hand.acct \notin strayed /\ Provider[hand.acct] = "caldav" =>
           Head(filed.cal) \in C!Servers(hand.acct, hand.site)
    BY <1>1, <1>2 DEF HandAtHome
  <1>4. C!CredentialsStayHome'
    BY <1>1, <1>3 DEF OperationsInv, C!CredentialsStayHome, C!Authenticate
  <1>5. event \in EventRow
    BY DEF OperationsInv, OperationsType
  <1>6. ASSUME NEW result \in {"ok", "error"}, C!Answer(op, result), event' \in EventRow,
               event' # C!NoEvent => event # C!NoEvent /\ event'.on = event.on
                                     /\ event'.cal = event.cal,
               result = "ok" /\ ~moved =>
                   event' = C!NoEvent \/ (op = "update" /\ event'.moved)
        PROVE  OperationsInv'
    <2>1. hand' = C!NoHand /\ told' = [op |-> op, result |-> result]
      BY <1>6 DEF C!Answer
    <2>2. hand' \in HandRow /\ InHand'
      BY <2>1, EmptyHand DEF InHand
    <2>3. Filed'
      BY <1>1, <1>2, <1>6 DEF OperationsInv, Filed
    <2>4. told'.op = op /\ told'.result = result
      BY <2>1
    <2>5. C!ReportedDoneIsDone'
      BY <1>1, <1>6, <2>4 DEF C!ReportedDoneIsDone
    <2>6. QED
      BY <1>4, <1>6, <2>2, <2>3, <2>5 DEF OperationsInv, OperationsType
  <1>7. CASE /\ event' = IF op = "cancel" THEN C!NoEvent ELSE [event EXCEPT !.moved = TRUE]
             /\ C!Reached /\ \E result \in {"ok", "error"} : C!Answer(op, result)
    <2>1. PICK result \in {"ok", "error"} : C!Answer(op, result)
      BY <1>7
    <2>2. event # C!NoEvent
      BY <1>7 DEF C!Reached
    <2>3. CASE op = "cancel"
      <3>1. event' = C!NoEvent /\ event' \in EventRow
        BY <1>7, <2>3, EmptyHand
      <3>2. QED
        BY <1>6, <2>1, <3>1
    <2>4. CASE op = "update"
      <3>1. event' = [event EXCEPT !.moved = TRUE]
        BY <1>7, <2>4
      <3>2. /\ event' \in EventRow /\ event'.on = event.on /\ event'.cal = event.cal
            /\ event'.moved = TRUE
        BY <1>5, <3>1 DEF EventRow
      <3>3. QED
        BY <1>6, <2>1, <2>2, <2>4, <3>2
    <2>5. QED
      BY <2>3, <2>4
  <1>8. CASE UNCHANGED event /\ C!Answer(op, "error")
    BY <1>5, <1>6, <1>8
  <1>9. CASE ~C!Reached /\ UNCHANGED event /\ C!NotFoundIsFine(op) /\ C!Answer(op, "ok")
    <2>1. ~moved => event = C!NoEvent
      <3>1. CASE Provider[hand.acct] = "microsoft"
        <4>1. Provider[hand.acct] # "google"
          BY <3>1
        <4>2. event = C!NoEvent \/ ~C!GraphReaches
          BY <1>9, <3>1, <4>1, Zenon DEF C!Reached
        <4>3. QED
          BY <1>2, <3>1, <4>2 DEF C!GraphReaches
      <3>2. CASE Provider[hand.acct] = "google"
        <4>1. Provider[hand.acct] # "microsoft"
          BY <3>2
        <4>2. C!GoogleGone(op)
          BY <1>9, <3>2, <4>1, Zenon DEF C!NotFoundIsFine
        <4>3. QED
          BY <4>2 DEF C!GoogleGone
      <3>3. CASE Provider[hand.acct] # "google" /\ Provider[hand.acct] # "microsoft"
        <4>1. event = C!NoEvent \/ ~C!DAVReaches
          BY <1>9, <3>3, Zenon DEF C!Reached
        <4>2. QED
          BY <1>2, <3>3, <4>1, ProviderAssumption DEF C!DAVReaches, C!Accounts
      <3>4. QED
        BY <3>1, <3>2, <3>3
    <2>2. QED
      BY <1>5, <1>6, <1>9, <2>1
  <1>10. QED
    BY <1>7, <1>8, <1>9 DEF C!Send

ConnectionsInv == RowsInv /\ FormInv /\ OperationsInv

\* A host who connects an account gets the tokens of that connect; the account strays if its
\* saved calendars, or an operation under way, are of another site.
LEMMA GrantedStep ==
    ASSUME RowsInv, OperationsInv, NEW a \in C!Accounts, NEW s \in C!Sites(a), C!Granted(a, s),
           C!saveToken(a, Home[a][s], latest[a] + 1, s), UNCHANGED <<pick, overtaken>>,
           NEW found \in SUBSET Calendars[a][s], saved' = [saved EXCEPT ![a] = @ \cup found],
           UNCHANGED <<hand, event, filed, told, moved, spilled>>
    PROVE  RowsInv' /\ OperationsInv'
  <1>1. PICK n \in Nat : n = latest[a] + 1 /\ n > 0
    BY DEF RowsInv, RowsType
  <1>2. PICK cal \in Path : cal = Home[a][s] /\ cal \in Calendars[a][s]
    BY Paths
  <1>3. /\ latest' = [latest EXCEPT ![a] = n] /\ wanted' = wanted \cup {a}
        /\ revived' = revived \ {a}
        /\ strayed' = IF \/ conn[a].on /\ conn[a].site # s
                         \/ hand.acct = a /\ hand.site # s
                      THEN strayed \cup {a} ELSE strayed
    BY <1>1 DEF C!Granted, C!Connected
  <1>4. /\ latest' \in [C!Accounts -> Nat] /\ latest'[a] = n
        /\ \A b \in C!Accounts : b # a => latest'[b] = latest[b]
    BY <1>1, <1>3 DEF RowsInv, RowsType
  <1>5. /\ saved' \in [C!Accounts -> SUBSET Path] /\ saved'[a] = saved[a] \cup found
        /\ \A b \in C!Accounts : b # a => saved'[b] = saved[b]
    BY Paths DEF RowsInv, RowsType
  <1>6. strayed \subseteq strayed'
    BY <1>3
  <1>7. ASSUME a \notin strayed'
        PROVE  /\ pick[a] \subseteq saved'[a] /\ saved'[a] \subseteq Calendars[a][s]
               /\ hand.acct = a => hand.site = s
    <2>1. a \notin strayed /\ (conn[a].on => conn[a].site = s) /\ (hand.acct = a => hand.site = s)
      BY <1>3, <1>7
    <2>2. QED
      BY <1>5, <2>1 DEF RowsInv, AtHome
  <1>8. /\ C!saveToken(a, cal, n, s) /\ UNCHANGED <<pick, overtaken>>
        /\ a \notin strayed' => /\ pick[a] \subseteq saved'[a] /\ cal \in Calendars[a][s]
                                /\ saved'[a] \subseteq Calendars[a][s]
        /\ \A b \in C!Accounts \ revived' : b # a =>
               b \notin revived /\ (b \in wanted' <=> b \in wanted) /\ latest'[b] = latest[b]
        /\ a \notin revived' => a \in wanted' /\ n = latest'[a]
    BY <1>1, <1>2, <1>3, <1>4, <1>7
  <1>9. RowsInv'
    BY <1>1, <1>4, <1>5, <1>6, <1>8, SaveStep
  <1>10. conn'[a].site = s /\ \A b \in C!Accounts : b # a => conn'[b] = conn[b]
    BY <1>8 DEF RowsInv, RowsType, C!saveToken
  <1>11. OperationsInv'
    BY <1>6, <1>7, <1>10, HostStep
  <1>12. QED
    BY <1>9, <1>11

\* Moving the destination, or taking rows away, leaves the site of every account as it was.
LEMMA SitesStay ==
    ASSUME OperationsInv, UNCHANGED <<hand, event, filed, told, moved, spilled>>,
           strayed \subseteq strayed',
           \A a \in C!Accounts : conn'[a].on => conn[a].on /\ conn'[a].site = conn[a].site
    PROVE  OperationsInv'
  BY HostStep

\* So does every request of the host but a connect.
LEMMA RequestStep ==
    ASSUME RowsInv, FormInv, OperationsInv,
           \/ \E a \in C!Accounts : C!SetDestination(a) \/ C!DisconnectOne(a)
           \/ C!Disconnect \/ C!SetAccountCalendars
    PROVE  OperationsInv'
  <1>1. UNCHANGED <<hand, event, filed, told, moved, spilled>> /\ strayed \subseteq strayed'
    BY DEF C!SetDestination, C!DisconnectOne, C!Disconnect, C!SetAccountCalendars, C!eventVars
  <1>2. conn \in [C!Accounts -> ConnRow]
    BY DEF RowsInv, RowsType
  <1>3. ASSUME NEW row \in ConnRow, NEW d \in BOOLEAN
        PROVE  /\ [row EXCEPT !.dest = d].on = row.on
               /\ [row EXCEPT !.dest = d].site = row.site
    BY DEF ConnRow
  <1>4. ASSUME NEW a \in C!Accounts, C!MoveDestination(a) PROVE OperationsInv'
    <2>1. ASSUME NEW b \in C!Accounts
          PROVE  conn'[b].on = conn[b].on /\ conn'[b].site = conn[b].site
      <3>1. PICK d \in BOOLEAN : d = (b = a /\ conn[b].on)
        BY <1>2 DEF ConnRow
      <3>2. conn'[b] = [conn[b] EXCEPT !.dest = d]
        BY <1>4, <3>1 DEF C!MoveDestination
      <3>3. QED
        BY <1>2, <1>3, <3>2
    <2>2. QED
      BY <1>1, <2>1, SitesStay
  <1>5. ASSUME NEW a \in C!Accounts, C!SetDestination(a) PROVE OperationsInv'
    BY <1>4, <1>5 DEF C!SetDestination
  <1>6. ASSUME NEW a \in C!Accounts, C!DisconnectOne(a) PROVE OperationsInv'
    <2>1. ASSUME NEW b \in C!Accounts, conn'[b].on
          PROVE  conn[b].on /\ conn'[b].site = conn[b].site
      <3>1. \/ conn'[b] = C!NoRow
            \/ conn'[b] = [conn[b] EXCEPT !.dest = TRUE]
            \/ conn'[b] = conn[b]
        BY <1>6 DEF C!DisconnectOne
      <3>2. QED
        BY <1>2, <1>3, <2>1, <3>1, EmptyConn
    <2>2. QED
      BY <1>1, <2>1, SitesStay
  <1>7. CASE C!Disconnect
    <2>1. \A b \in C!Accounts : ~conn'[b].on
      BY <1>7, EmptyConn DEF C!Disconnect
    <2>2. QED
      BY <1>1, <2>1, SitesStay
  <1>8. CASE C!SetAccountCalendars
    <2>1. CASE UNCHANGED conn
      BY <1>1, <2>1, HostStep
    <2>2. CASE C!MoveDestination(picker.acct)
      BY <1>4, <1>8, <2>2 DEF C!SetAccountCalendars, FormInv
    <2>3. QED
      BY <1>8, <2>1, <2>2 DEF C!SetAccountCalendars
  <1>9. QED
    BY <1>5, <1>6, <1>7, <1>8

\* Every step of Connections keeps the invariant.
LEMMA ConnectionsStep ==
    ASSUME ConnectionsInv, C!ConnectionsNext \/ UNCHANGED cVars
    PROVE  ConnectionsInv'
  <1> USE DEF ConnectionsInv
  <1>rows. UNCHANGED <<conn, age, saved, pick, latest, overtaken, wanted, revived, strayed>> =>
              RowsInv'
    BY DEF RowsInv, RowsType, Ordered, Bound, AtHome, C!OneDestination, C!PickInDestination,
           C!AsTheHostLeftIt, C!IsDestination, C!Connected
  <1>form. UNCHANGED picker => FormInv'
    BY DEF FormInv
  <1>ops. UNCHANGED <<hand, event, filed, told, moved, spilled, strayed, conn>> => OperationsInv'
    BY HostStep
  <1>1. CASE UNCHANGED cVars
    BY <1>1, <1>rows, <1>form, <1>ops DEF cVars
  <1>2. ASSUME NEW a \in C!Accounts, NEW s \in C!Sites(a), C!Exchange(a, s) \/ C!Connect(a, s)
        PROVE  ConnectionsInv'
    <2>1. /\ C!Granted(a, s) /\ C!saveToken(a, Home[a][s], latest[a] + 1, s)
          /\ UNCHANGED <<pick, picker, hand, event, filed, told, moved, spilled, overtaken>>
      BY <1>2 DEF C!Exchange, C!Connect, C!saveConnection, C!eventVars
    <2>2. \E found \in SUBSET Calendars[a][s] : saved' = [saved EXCEPT ![a] = @ \cup found]
      <3>1. CASE C!Exchange(a, s)
        <4>1. saved' = [saved EXCEPT ![a] = @ \cup {}]
          BY <3>1 DEF C!Exchange, RowsInv, RowsType
        <4>2. QED
          BY <4>1
      <3>2. CASE C!Connect(a, s)
        BY <3>2 DEF C!Connect, C!seedDiscoveredCalendars
      <3>3. QED
        BY <1>2, <3>1, <3>2
    <2>3. RowsInv' /\ OperationsInv'
      BY <2>1, <2>2, GrantedStep
    <2>4. QED
      BY <2>1, <2>3, <1>form
  <1>3. ASSUME NEW a \in C!Accounts, C!SetDestination(a) PROVE ConnectionsInv'
    BY <1>3, <1>form, RequestStep, SetDestinationStep DEF C!SetDestination
  <1>4. ASSUME NEW a \in C!Accounts, C!DisconnectOne(a) PROVE ConnectionsInv'
    BY <1>4, <1>form, RequestStep, DisconnectOneStep DEF C!DisconnectOne
  <1>5. CASE C!Disconnect
    BY <1>5, <1>form, RequestStep, DisconnectStep DEF C!Disconnect
  <1>6. CASE C!SetAccountCalendars
    BY <1>6, RequestStep, SetCalendarsStep
  <1>7. ASSUME NEW a \in C!Accounts, NEW body \in Bodies, C!accountExists(a, body)
        PROVE  ConnectionsInv'
    <2>1. picker' = [acct |-> a, rows |-> body.rows, dests |-> body.dests]
      BY <1>7 DEF C!accountExists
    <2>2. FormInv'
      BY <2>1, BodiesAssumption DEF FormInv, Path
    <2>3. QED
      BY <1>7, <1>rows, <1>ops, <2>2 DEF C!accountExists, C!rowVars, C!eventVars
  <1>8. ASSUME NEW a \in C!Accounts,
               C!freeBusyConnections(a) \/ C!conflictConns(a) \/ C!CreateEvent(a)
        PROVE  ConnectionsInv'
    BY <1>8, <1>rows, <1>form, ReadStep
       DEF C!freeBusyConnections, C!conflictConns, C!CreateEvent, C!rowVars, C!hostVars
  <1>9. ASSUME NEW op \in {"update", "cancel"},
               C!DestinationClient(op) \/ C!eventConn(op) \/ C!Send(op)
        PROVE  ConnectionsInv'
    <2>1. OperationsInv'
      BY <1>9, DestinationStep, OwnerStep, CallSent
    <2>2. UNCHANGED <<conn, age, saved, pick, latest, overtaken, wanted, revived, strayed, picker>>
      BY <1>9 DEF C!DestinationClient, C!eventConn, C!Send, C!rowVars, C!hostVars
    <2>3. QED
      BY <1>rows, <1>form, <2>1, <2>2
  <1>10. CASE C!httpClient \/ C!loadConn \/ C!destinationCalendarID
    BY <1>10, <1>rows, <1>form, ResolveCalendarStep
       DEF C!httpClient, C!loadConn, C!destinationCalendarID, C!Resolved, C!rowVars, C!hostVars
  <1>11. CASE C!ConflictCalendarIDs
    BY <1>11, <1>rows, <1>form, FreeBusyStep DEF C!ConflictCalendarIDs, C!rowVars, C!hostVars
  <1>12. CASE C!Token
    BY <1>12, <1>form, TokenStep DEF C!Token, C!hostVars
  <1>13. CASE C!SendCreate
    BY <1>13, <1>rows, <1>form, CreateSent DEF C!SendCreate, C!rowVars, C!hostVars
  <1>14. QED
    BY <1>1, <1>2, <1>3, <1>4, <1>5, <1>6, <1>7, <1>8, <1>9, <1>10, <1>11, <1>12, <1>13
       DEF C!ConnectionsNext

\* A host's calendar accounts stay in order, for any accounts, sites, calendars, bodies sent to
\* the picker and sequence of the host's requests that fall between the steps of an operation;
\* an account known at two sites, or by calendars of another, is excepted by name.
THEOREM AccountsKept == AccountsSpec => []AccountsInOrder
  <1>1. AccountsInit => ConnectionsInv
    <2> SUFFICES ASSUME C!ConnectionsInit PROVE ConnectionsInv
      BY DEF AccountsInit
    <2>1. /\ conn = [a \in C!Accounts |-> C!NoRow] /\ age = <<>>
          /\ saved = [a \in C!Accounts |-> {}] /\ pick = [a \in C!Accounts |-> {}]
          /\ picker = C!NoForm /\ hand = C!NoHand
          /\ event = C!NoEvent /\ filed = C!NotFiled /\ told = C!NotYet
          /\ latest = [a \in C!Accounts |-> 0] /\ wanted = {}
          /\ overtaken = FALSE /\ revived = {} /\ spilled = {} /\ strayed = {}
      BY DEF C!ConnectionsInit
    <2>2. age \in Seq(C!Accounts) /\ DOMAIN age = {}
      BY <2>1
    <2>3. RowsType /\ Ordered
      BY <2>1, <2>2, EmptyConn, Paths DEF RowsType, Ordered, Distinct, Range
    <2>4. Bound /\ AtHome /\ C!OneDestination /\ C!PickInDestination /\ C!AsTheHostLeftIt
      BY <2>1, EmptyConn
         DEF Bound, AtHome, C!OneDestination, C!PickInDestination, C!AsTheHostLeftIt, C!IsDestination,
             C!Connected
    <2>5. FormInv
      BY <2>1 DEF FormInv
    <2>6. OperationsInv
      BY <2>1, EmptyHand
         DEF OperationsInv, OperationsType, InHand, Filed, C!ReportedDoneIsDone,
             C!CredentialsStayHome
    <2>7. QED
      BY <2>3, <2>4, <2>5, <2>6 DEF ConnectionsInv, RowsInv
  <1>2. ConnectionsInv /\ [AccountsNext]_accountsVars => ConnectionsInv'
    BY ConnectionsStep
       DEF AccountsNext, accountsVars, MembersMove, SessionsMove, AgentsMove, TypesMove,
           CalendarsMove, KeysMove
  <1>3. ConnectionsInv => AccountsInOrder
    BY DEF ConnectionsInv, RowsInv, AtHome, OperationsInv, AccountsInOrder, C!CalendarOfAccount,
           C!Connected
  <1>4. QED
    BY <1>1, <1>2, <1>3, PTL DEF AccountsSpec
=============================================================================
