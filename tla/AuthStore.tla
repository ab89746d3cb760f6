------------------------------- MODULE AuthStore -------------------------------
(***************************************************************************)
(* The credentials of PulseRelay: API keys, OAuth clients and the bearer   *)
(* tokens issued to them.  The endpoints of server.py run on the event     *)
(* loop of the API; each method of the store is one transaction, except    *)
(* issue_client_credentials_token, which reads the client, lets go of the  *)
(* lock and then inserts the token.                                        *)
(***************************************************************************)
EXTENDS Integers

CONSTANTS
  Keys,     \* ids of API keys
  Names,    \* their names
  Clients,  \* ids of OAuth clients
  Tokens,   \* hashes of OAuth tokens
  Scopes,   \* FINE_SCOPES
  Explicit, \* EXPLICIT_SCOPES
  Admin,    \* "admin"
  Read,     \* SCOPE_ALIASES["read"]
  MaxTtl,   \* bound: ticks that a token may live
  None

ASSUME AuthAssumption ==
  /\ Explicit \subseteq Scopes /\ Read \subseteq Scopes /\ Admin \in Scopes \ Explicit
  /\ MaxTtl \in Nat \ {0}

VARIABLES
  apiKey,  \* mcp_api_keys
  client,  \* mcp_oauth_clients
  token,   \* mcp_oauth_tokens; ttl is what is left of expires_at
  issuing  \* the token handler that has read its client, and so the loop

authVars == <<apiKey, client, token, issuing>>

ApiKey == [name : Names, scopes : SUBSET Scopes, enabled : BOOLEAN]
Client == [scopes : SUBSET Scopes, enabled : BOOLEAN]
Token  == [client : Clients, scopes : SUBSET Scopes, ttl : 0..MaxTtl, revoked : BOOLEAN]
Grant  == [client : Clients, scopes : SUBSET Scopes]

\* An endpoint is entered when no other one is halfway.
LoopFree == issuing = None

\* normalize_scopes: nothing given means the default; an unknown scope is an
\* error, and the handler answers 400.
Normalized(default) == (SUBSET Scopes) \cup {default}

CreateApiKey ==
  /\ LoopFree
  /\ \E k \in Keys, n \in Names, s \in Normalized(Read) :
       /\ apiKey[k] = None
       /\ apiKey' = [apiKey EXCEPT ![k] = [name |-> n, scopes |-> s, enabled |-> TRUE]]
  /\ UNCHANGED <<client, token, issuing>>

\* revoke_api_key, by id or else every key of a name.
RevokeApiKey ==
  /\ LoopFree
  /\ \E ks \in {{k} : k \in Keys} \cup {{k \in Keys : apiKey[k] # None /\ apiKey[k].name = n} : n \in Names} :
       /\ \E k \in ks : apiKey[k] # None /\ apiKey[k].enabled
       /\ apiKey' = [k \in Keys |-> IF k \in ks THEN [apiKey[k] EXCEPT !.enabled = FALSE] ELSE apiKey[k]]
  /\ UNCHANGED <<client, token, issuing>>

CreateClient ==
  /\ LoopFree
  /\ \E c \in Clients, s \in Normalized(Read) :
       /\ client[c] = None
       /\ client' = [client EXCEPT ![c] = [scopes |-> s, enabled |-> TRUE]]
  /\ UNCHANGED <<apiKey, token, issuing>>

\* Mutant: the endpoint is not async and runs on a thread of its own.
RevokeClientAnyTime ==
  /\ \E c \in Clients :
       /\ client[c] # None /\ client[c].enabled
       /\ client' = [client EXCEPT ![c].enabled = FALSE]
       /\ token' = [t \in Tokens |-> IF token[t] # None /\ token[t].client = c THEN [token[t] EXCEPT !.revoked = TRUE] ELSE token[t]]
  /\ UNCHANGED <<apiKey, issuing>>

\* revoke_oauth_client: the client and all its tokens in one transaction.
RevokeClient ==
  /\ LoopFree
  /\ \E c \in Clients :
       /\ client[c] # None /\ client[c].enabled
       /\ client' = [client EXCEPT ![c].enabled = FALSE]
       /\ token' = [t \in Tokens |-> IF token[t] # None /\ token[t].client = c THEN [token[t] EXCEPT !.revoked = TRUE] ELSE token[t]]
  /\ UNCHANGED <<apiKey, issuing>>

\* issue_client_credentials_token: an enabled client with the right secret,
\* and scopes within its grant; all of them if none are named ...
ReadClient ==
  /\ LoopFree
  /\ \E c \in Clients :
       /\ client[c] # None /\ client[c].enabled
       /\ \E s \in SUBSET client[c].scopes : issuing' = [client |-> c, scopes |-> s]
  /\ UNCHANGED <<apiKey, client, token>>

\* Mutant: expires_in may be more than the limit.
InsertTokenUnclamped ==
  /\ issuing # None
  /\ \E t \in Tokens, n \in 1..(MaxTtl + 1) :
       /\ token[t] = None
       /\ token' = [token EXCEPT ![t] = [client |-> issuing.client, scopes |-> issuing.scopes, ttl |-> n, revoked |-> FALSE]]
  /\ issuing' = None
  /\ UNCHANGED <<apiKey, client>>

\* ... and a token that expires.
InsertToken ==
  /\ issuing # None
  /\ \E t \in Tokens, n \in 1..MaxTtl :
       /\ token[t] = None
       /\ token' = [token EXCEPT ![t] = [client |-> issuing.client, scopes |-> issuing.scopes, ttl |-> n, revoked |-> FALSE]]
  /\ issuing' = None
  /\ UNCHANGED <<apiKey, client>>

\* The INSERT raises, or the process ends.
IssueFails ==
  /\ issuing # None /\ issuing' = None
  /\ UNCHANGED <<apiKey, client, token>>

Tick ==
  /\ \E t \in Tokens : token[t] # None /\ token[t].ttl > 0
  /\ token' = [t \in Tokens |-> IF token[t] # None /\ token[t].ttl > 0 THEN [token[t] EXCEPT !.ttl = @ - 1] ELSE token[t]]
  /\ UNCHANGED <<apiKey, client, issuing>>

----------------------------------------------------------------------------

\* authenticate_bearer: what a bearer is taken for.
KeyAccepted(k)   == apiKey[k] # None /\ apiKey[k].enabled
TokenAccepted(t) == token[t] # None /\ ~token[t].revoked /\ token[t].ttl > 0

\* The scopes of the principals that are accepted; the admin token of the
\* environment is one of them, if it is configured.
Principals ==
  {{Admin}} \cup {apiKey[k].scopes : k \in {x \in Keys : KeyAccepted(x)}}
            \cup {token[t].scopes : t \in {x \in Tokens : TokenAccepted(x)}}

\* Principal.allows: admin stands for what need not be granted explicitly.
Allows(scopes, s) == s \in scopes \/ (s \notin Explicit /\ Admin \in scopes)

\* _require_scope of a REST handler: by the credential as it is now.
Authorized(s) == \E p \in Principals : Allows(p, s)

AuthInit ==
  /\ apiKey = [k \in Keys |-> None] /\ client = [c \in Clients |-> None] /\ token = [t \in Tokens |-> None]
  /\ issuing = None

AuthNext ==
  \/ CreateApiKey \/ RevokeApiKey \/ CreateClient \/ RevokeClient
  \/ ReadClient \/ InsertToken \/ IssueFails \/ Tick

AuthSpec == AuthInit /\ [][AuthNext]_authVars

----------------------------------------------------------------------------
(* Properties. *)

\* Every table has the columns that CREATE TABLE gives it.
AuthTypeOK ==
  /\ apiKey \in [Keys -> ApiKey \cup {None}]
  /\ client \in [Clients -> Client \cup {None}]
  /\ token \in [Tokens -> Token \cup {None}]
  /\ issuing \in Grant \cup {None}

\* A token that is not revoked belongs to a client that is enabled, and has no
\* scope that the client was not granted: revoke_oauth_client misses none,
\* although issue_client_credentials_token inserts it in a second transaction.
TokensFollowClients ==
  \A t \in Tokens : token[t] # None /\ ~token[t].revoked =>
    LET c == client[token[t].client] IN c # None /\ c.enabled /\ token[t].scopes \subseteq c.scopes
=============================================================================
