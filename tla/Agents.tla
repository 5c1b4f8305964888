------------------------------- MODULE Agents -------------------------------
(***************************************************************************)
(* How an agent connects to a workspace over MCP: the OAuth server with    *)
(* its clients, codes, access and refresh tokens, and API keys             *)
(* (internal/handler: mcp_oauth.go, mcp_oauth_authorize.go,                *)
(* mcp_oauth_admin.go, apikey.go).                                         *)
(*                                                                         *)
(* One member and one client.  A refresh token is the number of times its  *)
(* row was rotated; the client keeps the one it was answered last.  Every  *)
(* statement of the token endpoint is a step.  PKCE and redirect URIs are  *)
(* left out: the client presents what it was given.                        *)
(***************************************************************************)
EXTENDS Naturals

CONSTANTS
    Grant,      \* ids of rows of oauth_access_tokens
    Exchange,   \* requests of the token endpoint that may overlap
    MaxRefresh  \* bound on the refreshes of a connection

NoGrant == "none"

VARIABLES
    member,    \* of the account: is it archived, signed in, and has it an API key?
    client,    \* is the client in oauth_clients, and is there a code for it?
    grant,     \* oauth_access_tokens: [state, refresh, fresh]
    held,      \* the refresh token that the client has for each grant
    exchange,  \* requests of the token endpoint: [pc, grant]
    astray     \* grants with overlapping refreshes or a lost answer

agentVars == <<member, client, grant, held, exchange, astray>>

Waiting == [pc |-> "idle", grant |-> NoGrant]

AgentsInit ==
    /\ member = [archived |-> FALSE, signedIn |-> TRUE, key |-> FALSE]
    /\ client = [registered |-> FALSE, code |-> FALSE]
    /\ grant = [g \in Grant |-> [state |-> "absent", refresh |-> 0, fresh |-> FALSE]]
    /\ held = [g \in Grant |-> 0]
    /\ exchange = [x \in Exchange |-> Waiting]
    /\ astray = {}

\* The bearer is the last access token of a grant, or else the API key.
VerifyMCPBearer(token) ==
    /\ ~member.archived
    /\ IF token \in Grant THEN grant[token].state = "live" /\ grant[token].fresh ELSE member.key

SignedIn == member.signedIn /\ ~member.archived

-----------------------------------------------------------------------------

\* The session of the member comes and goes, and the member is archived and
\* restored (Sessions, Members).
MemberChanges ==
    /\ \E a, s \in BOOLEAN : member' = [member EXCEPT !.archived = a, !.signedIn = s]
    /\ UNCHANGED <<client, grant, held, exchange, astray>>

CreateAPIKey ==
    /\ SignedIn \/ (member.key /\ ~member.archived)
    /\ member' = [member EXCEPT !.key = TRUE]
    /\ UNCHANGED <<client, grant, held, exchange, astray>>

DeleteAPIKey ==
    /\ member.key /\ ~member.archived
    /\ member' = [member EXCEPT !.key = FALSE]
    /\ UNCHANGED <<client, grant, held, exchange, astray>>

RegisterOAuthClient ==
    /\ client' = [client EXCEPT !.registered = TRUE]
    /\ UNCHANGED <<member, grant, held, exchange, astray>>

\* AuthorizeMCP renders the consent; the decision to allow stores a code.
AuthorizeMCPDecision ==
    /\ client.registered /\ SignedIn
    /\ client' = [client EXCEPT !.code = TRUE]
    /\ UNCHANGED <<member, grant, held, exchange, astray>>

-----------------------------------------------------------------------------
(* The token endpoint.                                                     *)

Serve(x, pc, g) ==
    /\ exchange[x].pc = "idle"
    /\ exchange' = [exchange EXCEPT ![x] = [pc |-> pc, grant |-> g]]

Return(x) == exchange' = [exchange EXCEPT ![x] = Waiting]

\* tokenAuthCode: reads the code, deletes it, and unless it has expired inserts the
\* connection.
SelectCode(x) ==
    /\ client.code
    /\ Serve(x, "consume", NoGrant)
    /\ UNCHANGED <<member, client, grant, held, astray>>

DeleteCode(x) ==
    /\ exchange[x].pc = "consume"
    /\ client' = [client EXCEPT !.code = FALSE]
    /\ exchange' = [exchange EXCEPT ![x].pc = "insert"] \/ Return(x)
    /\ UNCHANGED <<member, grant, held, astray>>

InsertGrant(x) ==
    /\ exchange[x].pc = "insert"
    /\ \E g \in Grant :
           /\ grant[g].state = "absent"
           /\ grant' = [grant EXCEPT ![g] = [state |-> "live", refresh |-> 0, fresh |-> TRUE]]
    /\ Return(x)
    /\ UNCHANGED <<member, client, held, astray>>

\* tokenRefresh: the row of the refresh token that the client presents.
SelectGrant(x, g) ==
    /\ grant[g].state = "live" /\ held[g] = grant[g].refresh /\ ~member.archived
    /\ grant[g].refresh < MaxRefresh
    /\ Serve(x, "rotate", g)
    /\ astray' = astray \cup {r \in {g} : \E y \in Exchange : exchange[y].grant = g}
    /\ UNCHANGED <<member, client, grant, held>>

\* Slip: the row is written back whether it is still there or not.
RotateUpsert(x) ==
    /\ exchange[x].pc = "rotate"
    /\ LET g == exchange[x].grant
           next == grant[g].refresh + 1
       IN  /\ grant' = [grant EXCEPT ![g] = [state |-> "live", refresh |-> next, fresh |-> TRUE]]
           /\ held' = [held EXCEPT ![g] = next]
    /\ Return(x)
    /\ UNCHANGED <<member, client, astray>>

\* Slip: the answer has a new refresh token, the row the old one.
RotateAccessOnly(x) ==
    /\ exchange[x].pc = "rotate"
    /\ LET g == exchange[x].grant
       IN  /\ grant' = [grant EXCEPT ![g].fresh = grant[g].state = "live"]
           /\ held' = [held EXCEPT ![g] = @ + 1]
    /\ Return(x)
    /\ UNCHANGED <<member, client, astray>>

\* issueAndWriteTokens: an UPDATE by id, which finds nothing when the row was
\* deleted.  The client is answered in either case, and the answer may be lost.
Rotate(x) ==
    /\ exchange[x].pc = "rotate"
    /\ LET g == exchange[x].grant
           next == grant[g].refresh + 1
       IN  /\ IF grant[g].state = "live"
              THEN grant' = [grant EXCEPT ![g].refresh = next, ![g].fresh = TRUE]
              ELSE UNCHANGED grant
           /\ \/ held' = [held EXCEPT ![g] = next] /\ UNCHANGED astray
              \/ UNCHANGED held /\ astray' = astray \cup {g}
    /\ Return(x)
    /\ UNCHANGED <<member, client>>

AccessExpires(g) ==
    /\ grant[g].fresh
    /\ grant' = [grant EXCEPT ![g].fresh = FALSE]
    /\ UNCHANGED <<member, client, held, exchange, astray>>

-----------------------------------------------------------------------------

Revoked(g) == IF grant[g].state = "live" THEN [grant[g] EXCEPT !.state = "revoked", !.fresh = FALSE]
              ELSE grant[g]

RevokeOAuthConnection(g) ==
    /\ SignedIn \/ member.key
    /\ grant' = [grant EXCEPT ![g] = Revoked(g)]
    /\ UNCHANGED <<member, client, held, exchange, astray>>

\* RevokeAllSessions deletes every connection in the transaction that ends the
\* sessions; codes stay.
RevokeAllConnections ==
    /\ grant' = [g \in Grant |-> Revoked(g)]
    /\ UNCHANGED <<member, client, held, exchange, astray>>

AgentsNext ==
    \/ MemberChanges \/ CreateAPIKey \/ DeleteAPIKey
    \/ RegisterOAuthClient \/ AuthorizeMCPDecision \/ RevokeAllConnections
    \/ \E g \in Grant : AccessExpires(g) \/ RevokeOAuthConnection(g)
    \/ \E x \in Exchange : \/ SelectCode(x) \/ DeleteCode(x) \/ InsertGrant(x) \/ Rotate(x)
                           \/ \E g \in Grant : SelectGrant(x, g)

AgentsSpec == AgentsInit /\ [][AgentsNext]_agentVars

-----------------------------------------------------------------------------
(* Properties.                                                             *)

\* A connection that was revoked does not come back through a refresh that had
\* already found its row: no token of it is let in again.
StaysRevoked == \A g \in Grant : grant[g].state = "revoked" => ~VerifyMCPBearer(g)'

\* The client of a live connection has the refresh token that the row expects, so that
\* it can go on, unless two of its refreshes overlapped or an answer was lost.
ClientCanRefresh ==
    \A g \in Grant \ astray : grant[g].state = "live" => held[g] = grant[g].refresh
=============================================================================
