------------------------- MODULE HookEndpointProofs -------------------------
(***************************************************************************)
(* Credentials and hooks, for every number of keys, clients, tokens,       *)
(* scopes, endpoints, secrets, requests and tools: a token never outlives  *)
(* or exceeds its client, and a withdrawn secret admits nothing new.       *)
(* HookInv is inductive; the three operations of the store on an endpoint  *)
(* are treated once each, for the handlers and the tools that call them.   *)
(***************************************************************************)
EXTENDS HookEndpoint, TLAPS

----------------------------------------------------------------------------
(* Credentials. *)

\* The handler of a token that was cut in two still works for a client that is
\* enabled, within its scopes: nothing else runs on the loop meanwhile.
GrantInv ==
  issuing # None =>
    LET c == client[issuing.client] IN c # None /\ c.enabled /\ issuing.scopes \subseteq c.scopes

AuthInv == AuthTypeOK /\ TokensFollowClients /\ GrantInv

\* The handlers of server.py keep every column of the credential tables typed,
\* and a token that is issued lives no longer than it may.
LEMMA AuthTypeStep ==
  ASSUME AuthTypeOK, [AuthNext]_authVars
  PROVE  AuthTypeOK'
<1> USE AuthAssumption DEF AuthTypeOK, ApiKey, Client, Token, Grant
<1>1. CASE CreateApiKey
  <2> PICK k \in Keys, n \in Names, s \in Normalized(Read) :
        apiKey' = [apiKey EXCEPT ![k] = [name |-> n, scopes |-> s, enabled |-> TRUE]]
    BY <1>1 DEF CreateApiKey
  <2>1. [name |-> n, scopes |-> s, enabled |-> TRUE] \in ApiKey
    BY DEF Normalized
  <2> QED
    BY <1>1, <2>1 DEF CreateApiKey
<1>2. CASE RevokeApiKey
  <2> PICK ks \in {{k} : k \in Keys} \cup {{k \in Keys : apiKey[k] # None /\ apiKey[k].name = n} : n \in Names} :
        /\ \E k \in ks : apiKey[k] # None /\ apiKey[k].enabled
        /\ apiKey' = [k \in Keys |-> IF k \in ks THEN [apiKey[k] EXCEPT !.enabled = FALSE] ELSE apiKey[k]]
    BY <1>2 DEF RevokeApiKey
  <2>1. \A k \in ks : apiKey[k] # None
    OBVIOUS
  <2>2. ASSUME NEW k \in Keys PROVE apiKey'[k] \in ApiKey \cup {None}
    <3>1. CASE k \in ks
      BY <3>1, <2>1
    <3>2. CASE k \notin ks
      BY <3>2
    <3> QED
      BY <3>1, <3>2
  <2> QED
    BY <1>2, <2>2 DEF RevokeApiKey
<1>3. CASE CreateClient
  BY <1>3 DEF CreateClient, Normalized
<1>4. CASE RevokeClient
  <2> PICK c \in Clients :
        /\ client[c] # None
        /\ client' = [client EXCEPT ![c].enabled = FALSE]
        /\ token' = [t \in Tokens |-> IF token[t] # None /\ token[t].client = c THEN [token[t] EXCEPT !.revoked = TRUE] ELSE token[t]]
    BY <1>4 DEF RevokeClient
  <2>1. client' \in [Clients -> Client \cup {None}]
    OBVIOUS
  <2>2. ASSUME NEW t \in Tokens PROVE token'[t] \in Token \cup {None}
    OBVIOUS
  <2> QED
    BY <1>4, <2>1, <2>2 DEF RevokeClient
<1>5. CASE ReadClient
  BY <1>5 DEF ReadClient
<1>6. CASE InsertToken
  BY <1>6 DEF InsertToken
<1>7. CASE IssueFails
  BY <1>7 DEF IssueFails
<1>8. CASE Tick
  BY <1>8 DEF Tick
<1>9. CASE UNCHANGED authVars
  BY <1>9 DEF authVars
<1> QED
  BY <1>1, <1>2, <1>3, <1>4, <1>5, <1>6, <1>7, <1>8, <1>9 DEF AuthNext

\* Neither half of issue_client_credentials_token can be passed by
\* revoke_oauth_client, since the endpoint has the loop in between; and what
\* revoke_oauth_client withdraws it withdraws with all its tokens.
LEMMA GrantStep ==
  ASSUME AuthInv, [AuthNext]_authVars
  PROVE  TokensFollowClients' /\ GrantInv'
<1> USE DEF AuthInv, TokensFollowClients, GrantInv
<1>1. CASE CreateApiKey \/ RevokeApiKey \/ UNCHANGED authVars
  BY <1>1 DEF CreateApiKey, RevokeApiKey, authVars
<1>2. CASE CreateClient
  <2> PICK c \in Clients, s \in Normalized(Read) :
        client[c] = None /\ client' = [client EXCEPT ![c] = [scopes |-> s, enabled |-> TRUE]]
    BY <1>2 DEF CreateClient
  <2>1. \A x \in Clients : client[x] # None => client'[x] = client[x]
    BY DEF AuthTypeOK
  <2>2. TokensFollowClients'
    BY <1>2, <2>1 DEF CreateClient, AuthTypeOK, Token
  <2>3. issuing' = None
    BY <1>2 DEF CreateClient, LoopFree
  <2> QED
    BY <2>2, <2>3
<1>3. CASE RevokeClient
  <2> PICK c \in Clients :
        /\ client' = [client EXCEPT ![c].enabled = FALSE]
        /\ token' = [t \in Tokens |-> IF token[t] # None /\ token[t].client = c THEN [token[t] EXCEPT !.revoked = TRUE] ELSE token[t]]
    BY <1>3 DEF RevokeClient
  <2>1. ASSUME NEW t \in Tokens, token'[t] # None, ~token'[t].revoked
        PROVE  token[t] # None /\ token'[t] = token[t] /\ token[t].client # c
    BY <2>1 DEF AuthTypeOK, Token
  <2>2. \A x \in Clients : x # c => client'[x] = client[x]
    BY DEF AuthTypeOK
  <2>3. TokensFollowClients'
    BY <2>1, <2>2 DEF AuthTypeOK, Token
  <2>4. issuing' = None
    BY <1>3 DEF RevokeClient, LoopFree
  <2> QED
    BY <2>3, <2>4
<1>4. CASE ReadClient
  <2>1. TokensFollowClients'
    BY <1>4 DEF ReadClient
  <2>2. GrantInv'
    BY <1>4 DEF ReadClient
  <2> QED
    BY <2>1, <2>2
<1>5. CASE InsertToken
  <2> PICK t \in Tokens, n \in 1..MaxTtl :
        token' = [token EXCEPT ![t] = [client |-> issuing.client, scopes |-> issuing.scopes, ttl |-> n, revoked |-> FALSE]]
    BY <1>5 DEF InsertToken
  <2>1. \A x \in Tokens : x # t => token'[x] = token[x]
    BY DEF AuthTypeOK
  <2>2. token'[t].client = issuing.client /\ token'[t].scopes = issuing.scopes
    BY DEF AuthTypeOK
  <2> QED
    BY <1>5, <2>1, <2>2 DEF InsertToken
<1>6. CASE IssueFails
  BY <1>6 DEF IssueFails
<1>7. CASE Tick
  <2>1. ASSUME NEW t \in Tokens, token'[t] # None, ~token'[t].revoked
        PROVE  token[t] # None /\ ~token[t].revoked /\ token'[t].client = token[t].client /\ token'[t].scopes = token[t].scopes
    <3>1. CASE token[t] # None /\ token[t].ttl > 0
      BY <1>7, <2>1, <3>1 DEF Tick, AuthTypeOK, Token
    <3>2. CASE ~(token[t] # None /\ token[t].ttl > 0)
      BY <1>7, <2>1, <3>2 DEF Tick
    <3> QED
      BY <3>1, <3>2
  <2> QED
    BY <1>7, <2>1 DEF Tick
<1> QED
  BY <1>1, <1>2, <1>3, <1>4, <1>5, <1>6, <1>7 DEF AuthNext

\* Nothing is there when the tables are made.
LEMMA AuthStart == AuthInit => AuthInv
BY AuthAssumption DEF AuthInit, AuthInv, AuthTypeOK, TokensFollowClients, GrantInv

\* The inductive invariant of the credentials.
THEOREM AuthAlways == AuthSpec => []AuthInv
<1>1. AuthInv /\ [AuthNext]_authVars => AuthInv'
  BY AuthTypeStep, GrantStep DEF AuthInv
<1> QED
  BY <1>1, AuthStart, PTL DEF AuthSpec

\* The credential tables keep their types.
THEOREM CredentialsAreTyped == AuthSpec => []AuthTypeOK
<1>1. AuthInv => AuthTypeOK
  BY DEF AuthInv
<1> QED
  BY <1>1, AuthAlways, PTL

\* A token that is not revoked belongs to an enabled client and stays within
\* its scopes, however revocation and issue are interleaved.
THEOREM ClientsBindTokens == AuthSpec => []TokensFollowClients
<1>1. AuthInv => TokensFollowClients
  BY DEF AuthInv
<1> QED
  BY <1>1, AuthAlways, PTL

----------------------------------------------------------------------------
(* Hooks. *)

SafeInv == SecretInv /\ UpgradeInv /\ CurrentInv /\ LateInv

\* Who was admitted by what depends on the requests and the upgrade only.
LEMMA SameAdmitted ==
  ASSUME UNCHANGED <<job, request>>
  PROVE  /\ \A q \in Requests, k \in Hooks \X Secrets : Admitted(q, k)' <=> Admitted(q, k)
         /\ \A h \in Hooks : Upgrading(h)' <=> Upgrading(h)
BY DEF Admitted, Upgrading

\* A row that is there is an endpoint.
LEMMA RowIsEndpoint ==
  ASSUME TypeOK, NEW h \in Hooks, Exists(h)
  PROVE  hook[h] \in Endpoint /\ Pair(h) \in Hooks \X Secrets
BY DEF TypeOK, Exists, Pair, Endpoint

\* An upgrade has the secret by which its request was admitted.
LEMMA UpgradeIsAdmitted ==
  ASSUME TypeOK, NEW h \in Hooks, Upgrading(h)
  PROVE  /\ job.by \in Requests /\ job.secret \in Secrets
         /\ Admitted(job.by, <<h, job.secret>>)
BY DEF TypeOK, Job, Upgrading, Admitted

\* update_inbound_endpoint of the column enabled.
LEMMA SetOnStep ==
  ASSUME HookInv, UNCHANGED <<job, request>>,
         NEW h \in Hooks, NEW on \in BOOLEAN, Exists(h), SetOn(h, on)
  PROVE  SafeInv'
<1> USE DEF HookInv
<1>1. /\ hook'[h] \in Endpoint /\ hook'[h].on = on
      /\ hook'[h].secret = hook[h].secret /\ hook'[h].legacy = hook[h].legacy
  BY RowIsEndpoint DEF SetOn, TypeOK, Endpoint
<1>2. \A g \in Hooks \ {h} : hook'[g] = hook[g]
  BY DEF SetOn, TypeOK
<1>3. \A g \in Hooks : (Exists(g)' <=> Exists(g)) /\ (Exists(g) => Pair(g)' = Pair(g) /\ hook'[g].secret = hook[g].secret)
  BY <1>1, <1>2, HookAssumption DEF Exists, Pair, Endpoint
<1>4. used' = used /\ crossed' = crossed /\ early \subseteq early'
  BY DEF SetOn, Withdraw
<1>5. \A k \in withdrawn' \ withdrawn : k = Pair(h) /\ ~on /\ \A q \in Requests : Admitted(q, k) => q \in early'
  BY DEF SetOn, Withdraw
<1>6. on => Pair(h) \notin withdrawn'
  BY DEF SetOn
<1>7. withdrawn \subseteq Hooks \X Secrets /\ withdrawn' \subseteq Hooks \X Secrets
  BY RowIsEndpoint, <1>5 DEF TypeOK
<1>8. SecretInv'
  BY <1>3, <1>4, <1>5, SameAdmitted DEF SecretInv, Pair
<1>9. UpgradeInv'
  <2> SUFFICES ASSUME NEW g \in Hooks, Upgrading(g)
               PROVE  /\ Exists(g)'
                      /\ <<g, job.secret>> \in withdrawn' => job.by \in early'
                      /\ hook'[g].secret # job.secret => g \in crossed' /\ \A q \in Requests : ~Admitted(q, Pair(g)')
    BY <1>3, SameAdmitted, RowIsEndpoint DEF UpgradeInv
  <2>1. Exists(g) /\ Exists(g)' /\ Pair(g)' = Pair(g) /\ hook'[g].secret = hook[g].secret
    BY <1>3 DEF UpgradeInv
  <2> QED
    BY <2>1, <1>4, <1>5, UpgradeIsAdmitted DEF UpgradeInv
<1>10. CurrentInv'
  BY <1>1, <1>2, <1>3, <1>4, <1>5, <1>6 DEF CurrentInv, Exists, Pair
<1>11. LateInv'
  BY <1>3, <1>4, <1>5, <1>7, SameAdmitted DEF LateInv
<1> QED
  BY <1>8, <1>9, <1>10, <1>11 DEF SafeInv

\* update_inbound_endpoint of secret_hash, with a secret that is new.
LEMMA SetSecretStep ==
  ASSUME HookInv, UNCHANGED <<job, request>>,
         NEW h \in Hooks, NEW s \in Secrets \ used, Exists(h), SetSecret(h, s)
  PROVE  SafeInv'
<1> USE DEF HookInv
<1>1. hook'[h] \in Endpoint /\ hook'[h].secret = s /\ ~hook'[h].legacy
  BY RowIsEndpoint DEF SetSecret, TypeOK, Endpoint
<1>2. \A g \in Hooks \ {h} : hook'[g] = hook[g] /\ (Exists(g)' <=> Exists(g)) /\ Pair(g)' = Pair(g)
  BY DEF SetSecret, TypeOK, Exists, Pair
<1>3. Exists(h)' /\ Pair(h)' = <<h, s>>
  BY <1>1, HookAssumption DEF Exists, Pair, Endpoint
<1>4. used' = used \cup {s} /\ withdrawn' = withdrawn \cup {Pair(h)} /\ early \subseteq early'
  BY DEF SetSecret, Withdraw
<1>5. \A q \in Requests : Admitted(q, Pair(h)) => q \in early'
  BY DEF SetSecret, Withdraw
<1>6. /\ \A g \in Hooks \ {h} : g \in crossed => g \in crossed'
      /\ \A g \in Hooks \ {h} : g \in crossed' => g \in crossed
      /\ Upgrading(h) => h \in crossed'
  BY DEF SetSecret
<1>7. hook[h].secret \in used /\ Pair(h) = <<h, hook[h].secret>>
  BY DEF SecretInv, Pair
<1>8. withdrawn \subseteq Hooks \X Secrets /\ withdrawn' \subseteq Hooks \X Secrets
  BY <1>4, RowIsEndpoint DEF TypeOK
<1>9. SecretInv'
  BY <1>1, <1>2, <1>4, <1>7, SameAdmitted DEF SecretInv
<1>10. UpgradeInv'
  <2> SUFFICES ASSUME NEW g \in Hooks, Upgrading(g)
               PROVE  /\ Exists(g)'
                      /\ <<g, job.secret>> \in withdrawn' => job.by \in early'
                      /\ hook'[g].secret # job.secret => g \in crossed' /\ \A q \in Requests : ~Admitted(q, Pair(g)')
    BY <1>1, <1>2, <1>3, SameAdmitted, RowIsEndpoint DEF UpgradeInv, Pair, Endpoint
  <2>1. Exists(g)'
    BY <1>2, <1>3 DEF UpgradeInv
  <2>2. <<g, job.secret>> \in withdrawn' => job.by \in early'
    BY <1>4, <1>5, UpgradeIsAdmitted DEF UpgradeInv
  <2>3. CASE g = h
    BY <1>3, <1>6, <2>1, <2>2, <2>3 DEF SecretInv
  <2>4. CASE g # h
    BY <1>2, <1>6, <2>1, <2>2, <2>4 DEF UpgradeInv
  <2> QED
    BY <2>3, <2>4
<1>11. CurrentInv'
  <2> SUFFICES ASSUME NEW g \in Hooks, Exists(g)'
               PROVE  /\ hook'[g].on /\ Pair(g)' \in withdrawn' => g \in crossed'
                      /\ hook'[g].legacy => g \notin crossed'
    BY DEF CurrentInv
  <2>1. CASE g = h
    BY <1>1, <1>3, <1>4, <1>7, <2>1 DEF SecretInv
  <2>2. CASE g # h
    BY <1>2, <1>4, <1>6, <1>7, <2>2 DEF CurrentInv, Pair
  <2> QED
    BY <2>1, <2>2
<1>12. LateInv'
  <2> SUFFICES ASSUME NEW q \in Requests, NEW k \in withdrawn', Admitted(q, k)
               PROVE  q \in early' \/ (k[1] \in crossed' /\ Exists(k[1])' /\ hook'[k[1]].secret = k[2])
    BY <1>8, SameAdmitted DEF LateInv
  <2>1. CASE k = Pair(h)
    BY <1>5, <2>1
  <2>2. CASE k # Pair(h) /\ k[1] # h
    BY <1>2, <1>4, <1>6, <1>8, <2>2 DEF LateInv
  <2>3. CASE k # Pair(h) /\ k[1] = h
    BY <1>4, <1>7, <1>8, <2>3 DEF LateInv
  <2> QED
    BY <2>1, <2>2, <2>3
<1> QED
  BY <1>9, <1>10, <1>11, <1>12 DEF SafeInv

\* create_inbound_endpoint, by a handler whose job it ends or by a tool.
LEMMA InsertStep ==
  ASSUME HookInv, UNCHANGED request,
         job' = job \/ (job # None /\ job.op = "create" /\ job' = None),
         NEW h \in Hooks, NEW s \in Secrets, NEW on \in BOOLEAN, Insert(h, s, on)
  PROVE  SafeInv'
<1> USE DEF HookInv
<1>1. /\ \A q \in Requests, k \in Hooks \X Secrets : Admitted(q, k)' <=> Admitted(q, k)
      /\ \A g \in Hooks : Upgrading(g)' => Upgrading(g) /\ job' = job
  BY DEF Admitted, Upgrading
<1>2. CASE Exists(h)
  <2>1. UNCHANGED <<hook, used, withdrawn, early, crossed>>
    BY <1>2 DEF Insert, history
  <2>2. \A g \in Hooks : (Exists(g)' <=> Exists(g)) /\ Pair(g)' = Pair(g)
    BY <2>1 DEF Exists, Pair
  <2>3. \A g \in Hooks : Exists(g) => Pair(g) \in Hooks \X Secrets
    BY RowIsEndpoint
  <2>4. SecretInv' /\ CurrentInv' /\ LateInv'
    BY <1>1, <2>1, <2>2 DEF SecretInv, CurrentInv, LateInv, TypeOK
  <2>5. UpgradeInv'
    BY <1>1, <2>1, <2>2, <2>3 DEF UpgradeInv
  <2> QED
    BY <2>4, <2>5 DEF SafeInv
<1>3. CASE ~Exists(h)
  <2>1. hook'[h] = [on |-> on, secret |-> s, legacy |-> FALSE]
    BY <1>3 DEF Insert, TypeOK
  <2>2. \A g \in Hooks \ {h} : hook'[g] = hook[g] /\ (Exists(g)' <=> Exists(g)) /\ Pair(g)' = Pair(g)
    BY <1>3 DEF Insert, TypeOK, Exists, Pair
  <2>3. Pair(h)' = <<h, s>>
    BY <2>1 DEF Pair
  <2>4. used' = used \cup {s} /\ early \subseteq early' /\ crossed' = crossed \ {h}
    BY <1>3 DEF Insert, Withdraw
  <2>5. /\ withdrawn' \subseteq withdrawn \cup {<<h, s>>}
        /\ on => <<h, s>> \notin withdrawn'
        /\ ~on => \A q \in Requests : Admitted(q, <<h, s>>) => q \in early'
    BY <1>3 DEF Insert, Withdraw
  <2>6. \A g \in Hooks : Exists(g) => Pair(g) \in Hooks \X Secrets
    BY RowIsEndpoint
  <2>7. SecretInv'
    BY <1>1, <2>1, <2>2, <2>4, <2>5 DEF SecretInv
  <2>8. UpgradeInv'
    <3> SUFFICES ASSUME NEW g \in Hooks, Upgrading(g), job' = job
                 PROVE  /\ Exists(g)'
                        /\ <<g, job.secret>> \in withdrawn' => job.by \in early'
                        /\ hook'[g].secret # job.secret => g \in crossed' /\ \A q \in Requests : ~Admitted(q, Pair(g))'
      BY <1>1 DEF UpgradeInv
    <3>1. Exists(g) /\ g # h
      BY <1>3 DEF UpgradeInv
    <3> QED
      BY <3>1, <1>1, <2>2, <2>4, <2>5, <2>6 DEF UpgradeInv
  <2>9. CurrentInv'
    <3> SUFFICES ASSUME NEW g \in Hooks, Exists(g)'
                 PROVE  /\ hook'[g].on /\ Pair(g)' \in withdrawn' => g \in crossed'
                        /\ hook'[g].legacy => g \notin crossed'
      BY DEF CurrentInv
    <3>1. CASE g = h
      BY <2>1, <2>3, <2>5, <3>1
    <3>2. CASE g # h
      BY <2>2, <2>4, <2>5, <3>2 DEF CurrentInv, Pair
    <3> QED
      BY <3>1, <3>2
  <2>10. LateInv'
    <3> SUFFICES ASSUME NEW q \in Requests, NEW k \in withdrawn', Admitted(q, k)
                 PROVE  q \in early' \/ (k[1] \in crossed' /\ Exists(k[1])' /\ hook'[k[1]].secret = k[2])
      BY <1>1, <2>5 DEF LateInv, TypeOK
    <3>1. CASE k \in withdrawn
      <4>1. k[1] \in Hooks
        BY <3>1 DEF TypeOK
      <4> QED
        BY <1>3, <2>2, <2>4, <3>1, <4>1 DEF LateInv
    <3>2. CASE k \notin withdrawn
      BY <2>5, <3>2
    <3> QED
      BY <3>1, <3>2
  <2> QED
    BY <2>7, <2>8, <2>9, <2>10 DEF SafeInv
<1> QED
  BY <1>2, <1>3

\* delete_hook.
LEMMA DeleteStep ==
  ASSUME HookInv, DeleteHook
  PROVE  SafeInv'
<1> USE DEF HookInv
<1> PICK h \in Hooks : Exists(h) /\ hook' = [hook EXCEPT ![h] = None] /\ Withdraw(Pair(h)) /\ crossed' = crossed \ {h}
  BY DEF DeleteHook
<1>1. \A g \in Hooks \ {h} : hook'[g] = hook[g] /\ (Exists(g)' <=> Exists(g)) /\ Pair(g)' = Pair(g)
  BY DEF TypeOK, Exists, Pair
<1>2. ~Exists(h)'
  BY DEF TypeOK, Exists
<1>3. UNCHANGED <<job, request, used>> /\ job = None
  BY DEF DeleteHook, HandlersRun
<1>4. withdrawn' = withdrawn \cup {Pair(h)} /\ early \subseteq early'
  BY DEF Withdraw
<1>5. \A q \in Requests : Admitted(q, Pair(h)) => q \in early'
  BY DEF Withdraw
<1>6. Pair(h) = <<h, hook[h].secret>> /\ Pair(h) \in Hooks \X Secrets
  BY RowIsEndpoint DEF Pair
<1>7. SecretInv' /\ UpgradeInv'
  <2>1. SecretInv'
    BY <1>1, <1>2, <1>3, <1>4, <1>6, SameAdmitted DEF SecretInv
  <2>2. UpgradeInv'
    BY <1>3 DEF UpgradeInv, Upgrading
  <2> QED
    BY <2>1, <2>2
<1>8. CurrentInv'
  BY <1>1, <1>2, <1>4, <1>6 DEF CurrentInv, Pair
<1>9. LateInv'
  <2> SUFFICES ASSUME NEW q \in Requests, NEW k \in withdrawn', Admitted(q, k)
               PROVE  q \in early' \/ (k[1] \in crossed' /\ Exists(k[1])' /\ hook'[k[1]].secret = k[2])
    BY <1>3, <1>4, <1>6, SameAdmitted DEF LateInv, TypeOK
  <2>1. k \in Hooks \X Secrets
    BY <1>4, <1>6 DEF TypeOK
  <2>2. CASE k = Pair(h)
    BY <1>5, <2>2
  <2>3. CASE k # Pair(h) /\ k[1] # h
    BY <1>1, <1>4, <2>1, <2>3 DEF LateInv
  <2>4. CASE k # Pair(h) /\ k[1] = h
    BY <1>4, <1>6, <2>1, <2>4 DEF LateInv
  <2> QED
    BY <2>2, <2>3, <2>4
<1> QED
  BY <1>7, <1>8, <1>9 DEF SafeInv

\* inbound_hook up to its await.  A request is admitted by the secret that the
\* endpoint has; if that is withdrawn, a rotation was undone, and the hash is
\* not an old one.
LEMMA ArriveStep ==
  ASSUME HookInv, NEW q \in Requests, Arrive(q)
  PROVE  SafeInv'
<1> USE DEF HookInv
<1> PICK h \in Hooks, s \in Secrets :
      /\ Admits(h, s)
      /\ IF hook[h].legacy
         THEN job' = [op |-> "upgrade", hook |-> h, secret |-> s, by |-> q] /\ UNCHANGED request
         ELSE request' = [request EXCEPT ![q] = [hook |-> h, secret |-> s]] /\ UNCHANGED job
  BY DEF Arrive
<1>1. Exists(h) /\ hook[h].on /\ s = hook[h].secret /\ Pair(h) = <<h, s>>
  BY DEF Admits, Pair
<1>2. UNCHANGED <<hook, used, withdrawn, early, crossed>> /\ job = None
  BY DEF Arrive, HandlersRun, history
<1>3. \A g \in Hooks : (Exists(g)' <=> Exists(g)) /\ Pair(g)' = Pair(g)
  BY <1>2 DEF Exists, Pair
<1>4. \A x \in Requests, k \in Hooks \X Secrets : Admitted(x, k)' => Admitted(x, k) \/ k = <<h, s>>
  BY <1>2 DEF Admitted, TypeOK
<1>5. <<h, s>> \in withdrawn => h \in crossed /\ ~hook[h].legacy
  BY <1>1 DEF CurrentInv
<1>6. SecretInv'
  BY <1>1, <1>2, <1>3, <1>4 DEF SecretInv
<1>7. UpgradeInv'
  <2>1. ASSUME NEW g \in Hooks, Upgrading(g)' PROVE g = h /\ job'.secret = s /\ hook[h].legacy
    BY <1>2, <2>1 DEF Upgrading
  <2> QED
    BY <1>1, <1>2, <1>3, <1>5, <2>1 DEF UpgradeInv
<1>8. CurrentInv'
  BY <1>2, <1>3 DEF CurrentInv
<1>9. LateInv'
  <2>1. \A k \in withdrawn : k \in Hooks \X Secrets
    BY DEF TypeOK
  <2> QED
    BY <1>1, <1>2, <1>3, <1>4, <1>5, <2>1 DEF LateInv
<1> QED
  BY <1>6, <1>7, <1>8, <1>9 DEF SafeInv

\* The new hash is stored: an endpoint gets back the secret that its request
\* was admitted by, which matters only if a tool rotated it meanwhile.
LEMMA UpgradeStep ==
  ASSUME HookInv, Upgrade
  PROVE  SafeInv'
<1> USE DEF HookInv
<1>1. PICK h \in Hooks, s \in Secrets, by \in Requests :
        h = job.hook /\ s = job.secret /\ by = job.by /\ Upgrading(h) /\ Exists(h)
  BY DEF Upgrade, TypeOK, Job, UpgradeInv, Upgrading
<1>2. /\ hook' = [hook EXCEPT ![h].secret = s, ![h].legacy = FALSE]
      /\ request' = [request EXCEPT ![by] = [hook |-> h, secret |-> s]] /\ job' = None
      /\ UNCHANGED <<used, withdrawn, early, crossed>>
  BY <1>1 DEF Upgrade, history
<1>3. hook'[h] \in Endpoint /\ hook'[h].secret = s /\ hook'[h].legacy = FALSE /\ hook'[h].on = hook[h].on
  BY <1>1, <1>2, RowIsEndpoint DEF TypeOK, Endpoint
<1>4. \A g \in Hooks \ {h} : hook'[g] = hook[g] /\ (Exists(g)' <=> Exists(g)) /\ Pair(g)' = Pair(g)
  BY <1>2 DEF TypeOK, Exists, Pair
<1>5. Exists(h)' /\ Pair(h)' = <<h, s>> /\ Pair(h) = <<h, hook[h].secret>>
  BY <1>3, HookAssumption DEF Exists, Pair, Endpoint
<1>6. Admitted(by, <<h, s>>)
  BY <1>1, UpgradeIsAdmitted
<1>7. \A x \in Requests, k \in Hooks \X Secrets : Admitted(x, k)' => Admitted(x, k)
  BY <1>1, <1>2, <1>6 DEF Admitted, TypeOK
<1>8. /\ <<h, s>> \in withdrawn => by \in early
      /\ hook[h].secret # s => h \in crossed /\ \A q \in Requests : ~Admitted(q, Pair(h))
  BY <1>1 DEF UpgradeInv
<1>9. /\ hook[h].on /\ Pair(h) \in withdrawn => h \in crossed
      /\ hook[h].legacy => h \notin crossed
  BY <1>1 DEF CurrentInv
<1>10. SecretInv'
  <2>1. s \in used
    BY <1>6 DEF SecretInv
  <2>2. \A g \in Hooks : Exists(g)' => hook'[g].secret \in used
    BY <1>3, <1>4, <2>1 DEF SecretInv
  <2> QED
    BY <1>2, <1>7, <2>2 DEF SecretInv
<1>11. UpgradeInv'
  BY <1>2 DEF UpgradeInv, Upgrading
<1>12. CurrentInv'
  <2> SUFFICES ASSUME NEW g \in Hooks, Exists(g)'
               PROVE  /\ hook'[g].on /\ Pair(g)' \in withdrawn => g \in crossed
                      /\ hook'[g].legacy => g \notin crossed
    BY <1>2 DEF CurrentInv
  <2>1. CASE g = h
    BY <1>3, <1>5, <1>8, <1>9, <2>1 DEF Pair
  <2>2. CASE g # h
    BY <1>4, <2>2 DEF CurrentInv
  <2> QED
    BY <2>1, <2>2
<1>13. LateInv'
  <2> SUFFICES ASSUME NEW q \in Requests, NEW k \in withdrawn, Admitted(q, k)
               PROVE  q \in early \/ (k[1] \in crossed /\ Exists(k[1])' /\ hook'[k[1]].secret = k[2])
    BY <1>2, <1>7 DEF LateInv, TypeOK
  <2>1. k \in Hooks \X Secrets
    BY DEF TypeOK
  <2>2. CASE k[1] # h
    BY <1>4, <2>1, <2>2 DEF LateInv
  <2>3. CASE k[1] = h
    <3>1. q \in early \/ (h \in crossed /\ hook[h].secret = k[2] /\ k = Pair(h))
      BY <1>5, <2>1, <2>3 DEF LateInv
    <3> QED
      BY <1>3, <1>5, <1>8, <2>3, <3>1 DEF Exists
  <2> QED
    BY <2>2, <2>3
<1> QED
  BY <1>10, <1>11, <1>12, <1>13 DEF SafeInv

\* What the other steps leave alone.
LEMMA QuietStep ==
  ASSUME HookInv, UNCHANGED <<hook, used, withdrawn, crossed>>,
         \A q \in Requests, k \in Hooks \X Secrets : Admitted(q, k)' => Admitted(q, k) /\ (q \in early => q \in early'),
         (job' = job /\ UNCHANGED <<request, early>>) \/ job' = None \/ (job' # None /\ job'.op = "create")
  PROVE  SafeInv'
<1> USE DEF HookInv
<1>1. \A g \in Hooks : (Exists(g)' <=> Exists(g)) /\ Pair(g)' = Pair(g)
  BY DEF Exists, Pair
<1>2. SecretInv'
  BY <1>1 DEF SecretInv
<1>3. CurrentInv'
  BY <1>1 DEF CurrentInv
<1>4. LateInv'
  BY <1>1 DEF LateInv, TypeOK
<1>5. UpgradeInv'
  <2>1. CASE job' = job /\ UNCHANGED <<request, early>>
    <3>1. \A g \in Hooks : Upgrading(g)' => Upgrading(g) /\ Exists(g) /\ Pair(g) \in Hooks \X Secrets
      BY <2>1, RowIsEndpoint DEF Upgrading, UpgradeInv
    <3> QED
      BY <1>1, <2>1, <3>1 DEF UpgradeInv
  <2>2. CASE job' = None \/ (job' # None /\ job'.op = "create")
    BY <2>2 DEF UpgradeInv, Upgrading
  <2> QED
    BY <2>1, <2>2
<1> QED
  BY <1>2, <1>3, <1>4, <1>5 DEF SafeInv

\* Every handler, tool and crash keeps what the property rests on.
LEMMA SafeStep ==
  ASSUME HookInv, [Next]_vars
  PROVE  SafeInv'
<1>1. ASSUME UNCHANGED <<hook, used, withdrawn, early, crossed, job, request>> PROVE SafeInv'
  BY <1>1, SameAdmitted, QuietStep
<1>2. CASE job = None /\ AuthNext /\ UNCHANGED hookVars
  BY <1>1, <1>2 DEF hookVars, history
<1>3. CASE CreateHook
  <2>1. job' # None => job'.op = "create"
    BY <1>3 DEF CreateHook
  <2>2. \A q \in Requests, k \in Hooks \X Secrets : Admitted(q, k)' => Admitted(q, k)
    BY <1>3, <2>1 DEF CreateHook, Admitted
  <2> QED
    BY <1>3, <2>1, <2>2, QuietStep DEF CreateHook, history
<1>4. CASE InsertHook
  <2>1. job \in Job /\ job.hook \in Hooks /\ job.secret \in Secrets /\ job.on \in BOOLEAN
    BY <1>4 DEF InsertHook, HookInv, TypeOK, Job
  <2> QED
    BY <1>4, <2>1, InsertStep DEF InsertHook
<1>5. CASE UpdateHook
  BY <1>5, SetOnStep DEF UpdateHook
<1>6. CASE RotateHook
  BY <1>6, SetSecretStep DEF RotateHook
<1>7. CASE DeleteHook
  BY <1>7, DeleteStep
<1>8. CASE Upgrade
  BY <1>8, UpgradeStep
<1>9. ASSUME NEW q \in Requests, Arrive(q) PROVE SafeInv'
  BY <1>9, ArriveStep
<1>10. ASSUME NEW q \in Requests, Answer(q) PROVE SafeInv'
  <2>1. job = None /\ job' = None
    BY <1>10 DEF Answer, HandlersRun
  <2>2. \A x \in Requests, k \in Hooks \X Secrets : Admitted(x, k)' => x # q /\ Admitted(x, k)
    BY <1>10, <2>1 DEF Answer, Admitted, HookInv, TypeOK
  <2>3. \A x \in Requests : x # q /\ x \in early => x \in early'
    BY <1>10 DEF Answer
  <2>4. UNCHANGED <<hook, used, withdrawn, crossed>>
    BY <1>10 DEF Answer
  <2> QED
    BY <2>1, <2>2, <2>3, <2>4, QuietStep
<1>11. ASSUME NEW t \in Tools, CallTool(t) \/ ToolReturns(t) \/ ToolCreate(t) PROVE SafeInv'
  BY <1>1, <1>11 DEF CallTool, ToolReturns, ToolCreate, history
<1>12. ASSUME NEW t \in Tools, ToolInsert(t) PROVE SafeInv'
  <2>1. tool[t].hook \in Hooks
    BY <1>12 DEF ToolInsert, HookInv, TypeOK, Call
  <2> QED
    BY <1>12, <2>1, InsertStep DEF ToolInsert
<1>13. ASSUME NEW t \in Tools, ToolUpdate(t) PROVE SafeInv'
  BY <1>13, SetOnStep DEF ToolUpdate
<1>14. ASSUME NEW t \in Tools, ToolRotate(t) PROVE SafeInv'
  BY <1>14, SetSecretStep DEF ToolRotate
<1>15. CASE Crash
  <2>1. \A q \in Requests, k \in Hooks \X Secrets : ~Admitted(q, k)'
    BY <1>15 DEF Crash, Admitted
  <2> QED
    BY <1>15, <2>1, QuietStep DEF Crash
<1>16. CASE UNCHANGED vars
  BY <1>1, <1>16 DEF vars, hookVars, history
<1> QED
  BY <1>2, <1>3, <1>4, <1>5, <1>6, <1>7, <1>8, <1>9, <1>10, <1>11, <1>12, <1>13, <1>14, <1>15, <1>16 DEF Next, Api, Tool

----------------------------------------------------------------------------

HookTypes ==
  /\ hook \in [Hooks -> Endpoint \cup {None}]
  /\ used \subseteq Secrets
  /\ withdrawn \subseteq Hooks \X Secrets /\ early \subseteq Requests /\ crossed \subseteq Hooks

\* The operations of the store keep the endpoints and the history typed.
LEMMA StoreTypes ==
  ASSUME TypeOK, NEW h \in Hooks
  PROVE  /\ \A on \in BOOLEAN : Exists(h) /\ SetOn(h, on) => HookTypes'
         /\ \A s \in Secrets : Exists(h) /\ SetSecret(h, s) => HookTypes'
         /\ \A s \in Secrets, on \in BOOLEAN : Insert(h, s, on) => HookTypes'
<1>1. ASSUME NEW on \in BOOLEAN, Exists(h), SetOn(h, on) PROVE HookTypes'
  <2>1. Pair(h) \in Hooks \X Secrets /\ hook[h] \in Endpoint
    BY <1>1, RowIsEndpoint
  <2>2. hook' \in [Hooks -> Endpoint \cup {None}]
    BY <1>1, <2>1 DEF SetOn, TypeOK, Endpoint
  <2> QED
    BY <1>1, <2>1, <2>2 DEF SetOn, Withdraw, TypeOK, HookTypes
<1>2. ASSUME NEW s \in Secrets, Exists(h), SetSecret(h, s) PROVE HookTypes'
  <2>1. Pair(h) \in Hooks \X Secrets /\ hook[h] \in Endpoint
    BY <1>2, RowIsEndpoint
  <2>2. hook' \in [Hooks -> Endpoint \cup {None}]
    BY <1>2, <2>1 DEF SetSecret, TypeOK, Endpoint
  <2> QED
    BY <1>2, <2>1, <2>2 DEF SetSecret, Withdraw, TypeOK, HookTypes
<1>3. ASSUME NEW s \in Secrets, NEW on \in BOOLEAN, Insert(h, s, on) PROVE HookTypes'
  <2>1. [on |-> on, secret |-> s, legacy |-> FALSE] \in Endpoint
    BY DEF Endpoint
  <2>2. hook' = hook \/ hook' = [hook EXCEPT ![h] = [on |-> on, secret |-> s, legacy |-> FALSE]]
    BY <1>3 DEF Insert
  <2>3. hook' \in [Hooks -> Endpoint \cup {None}]
    BY <2>1, <2>2 DEF TypeOK
  <2> QED
    BY <1>3, <2>3 DEF Insert, Withdraw, history, TypeOK, HookTypes
<1> QED
  BY <1>1, <1>2, <1>3

\* Handlers, tools and crashes keep the types, and an upgrade has the loop.
LEMMA TypeStep ==
  ASSUME TypeOK, [Next]_vars
  PROVE  TypeOK'
<1> USE DEF TypeOK
<1>1. CASE job = None /\ AuthNext /\ UNCHANGED hookVars
  BY <1>1, AuthTypeStep DEF hookVars, history
<1>2. CASE CreateHook
  <2>1. job' \in Job
    BY <1>2 DEF CreateHook, Job
  <2> QED
    BY <1>2, <2>1 DEF CreateHook, HandlersRun, LoopFree, history, authVars, AuthTypeOK
<1>3. CASE InsertHook
  <2>1. job.hook \in Hooks /\ job.secret \in Secrets /\ job.on \in BOOLEAN
    BY <1>3 DEF InsertHook, Job
  <2>2. HookTypes'
    BY <1>3, <2>1, StoreTypes DEF InsertHook
  <2> QED
    BY <1>3, <2>2 DEF InsertHook, HookTypes, authVars, AuthTypeOK
<1>4. CASE UpdateHook
  BY <1>4, StoreTypes DEF UpdateHook, HookTypes, authVars, AuthTypeOK
<1>5. CASE RotateHook
  BY <1>5, StoreTypes DEF RotateHook, HookTypes, authVars, AuthTypeOK
<1>6. CASE DeleteHook
  <2> PICK h \in Hooks : Exists(h) /\ hook' = [hook EXCEPT ![h] = None] /\ Withdraw(Pair(h)) /\ crossed' = crossed \ {h}
    BY <1>6 DEF DeleteHook
  <2>1. Pair(h) \in Hooks \X Secrets
    BY RowIsEndpoint
  <2> QED
    BY <1>6, <2>1 DEF DeleteHook, Withdraw, authVars, AuthTypeOK
<1>7. CASE Upgrade
  <2>1. job.hook \in Hooks /\ job.secret \in Secrets /\ job.by \in Requests
    BY <1>7 DEF Upgrade, Job
  <2>2. request' \in [Requests -> Copy \cup {None}]
    BY <1>7, <2>1 DEF Upgrade, Copy
  <2>3. hook' \in [Hooks -> Endpoint \cup {None}]
    <3>1. CASE Exists(job.hook)
      BY <1>7, <2>1, <3>1, RowIsEndpoint DEF Upgrade, Endpoint
    <3>2. CASE ~Exists(job.hook)
      BY <1>7, <3>2 DEF Upgrade
    <3> QED
      BY <3>1, <3>2
  <2> QED
    BY <1>7, <2>2, <2>3 DEF Upgrade, history, authVars, AuthTypeOK
<1>8. ASSUME NEW q \in Requests, Arrive(q) PROVE TypeOK'
  <2> PICK h \in Hooks, s \in Secrets :
        IF hook[h].legacy
        THEN job' = [op |-> "upgrade", hook |-> h, secret |-> s, by |-> q] /\ UNCHANGED request
        ELSE request' = [request EXCEPT ![q] = [hook |-> h, secret |-> s]] /\ UNCHANGED job
    BY <1>8 DEF Arrive
  <2>1. job' \in Job \cup {None} /\ request' \in [Requests -> Copy \cup {None}]
    BY DEF Job, Copy
  <2> QED
    BY <1>8, <2>1 DEF Arrive, HandlersRun, LoopFree, history, authVars, AuthTypeOK
<1>9. ASSUME NEW q \in Requests, Answer(q) PROVE TypeOK'
  BY <1>9 DEF Answer, HandlersRun, authVars, AuthTypeOK
<1>10. ASSUME NEW t \in Tools, Tool(t) PROVE TypeOK'
  <2>1. CASE CallTool(t)
    <3> PICK p \in Principals : tool' = [tool EXCEPT ![t] = [scopes |-> p, step |-> "called", hook |-> None]]
      BY <2>1 DEF CallTool
    <3>1. p \subseteq Scopes
      BY AuthAssumption DEF Principals, KeyAccepted, TokenAccepted, AuthTypeOK, ApiKey, Token
    <3>2. [scopes |-> p, step |-> "called", hook |-> None] \in Call
      BY <3>1 DEF Call
    <3> QED
      BY <2>1, <3>2 DEF CallTool, history, authVars, AuthTypeOK
  <2>2. CASE ToolReturns(t)
    BY <2>2 DEF ToolReturns, Return, history, authVars, AuthTypeOK
  <2>3. CASE ToolCreate(t)
    <3> PICK h \in Hooks : tool' = [tool EXCEPT ![t].step = "insert", ![t].hook = h]
      BY <2>3 DEF ToolCreate
    <3>1. tool[t] \in Call
      BY <2>3 DEF ToolCreate, Guarded
    <3>2. tool'[t] \in Call
      BY <3>1 DEF Call
    <3> QED
      BY <2>3, <3>2 DEF ToolCreate, history, authVars, AuthTypeOK
  <2>4. CASE ToolInsert(t)
    <3>1. tool[t].hook \in Hooks
      BY <2>4 DEF ToolInsert, Call
    <3>2. HookTypes'
      BY <2>4, <3>1, StoreTypes DEF ToolInsert
    <3> QED
      BY <2>4, <3>2 DEF ToolInsert, Return, HookTypes, authVars, AuthTypeOK
  <2>5. CASE ToolUpdate(t)
    BY <2>5, StoreTypes DEF ToolUpdate, Return, HookTypes, authVars, AuthTypeOK
  <2>6. CASE ToolRotate(t)
    BY <2>6, StoreTypes DEF ToolRotate, Return, HookTypes, authVars, AuthTypeOK
  <2> QED
    BY <1>10, <2>1, <2>2, <2>3, <2>4, <2>5, <2>6 DEF Tool
<1>11. CASE Crash
  BY <1>11 DEF Crash, AuthTypeOK
<1>12. CASE UNCHANGED vars
  BY <1>12 DEF vars, hookVars, history, authVars, AuthTypeOK
<1> QED
  BY <1>1, <1>2, <1>3, <1>4, <1>5, <1>6, <1>7, <1>8, <1>9, <1>10, <1>11, <1>12 DEF Next, Api

\* Endpoints from before hashes were salted, and no requests.
LEMMA HookStart == Init => HookInv /\ AuthInv
<1> SUFFICES ASSUME Init PROVE HookInv /\ AuthInv
  OBVIOUS
<1>1. AuthInv
  BY AuthStart DEF Init
<1>2. TypeOK
  BY <1>1 DEF Init, AuthInit, AuthInv, TypeOK, Exists, Endpoint
<1>3. \A q \in Requests, k \in Hooks \X Secrets : ~Admitted(q, k)
  BY DEF Init, Admitted
<1>4. SecretInv /\ UpgradeInv /\ CurrentInv /\ LateInv
  BY <1>2, <1>3 DEF Init, SecretInv, UpgradeInv, Upgrading, CurrentInv, LateInv
<1> QED
  BY <1>1, <1>2, <1>4 DEF HookInv

\* The inductive invariant of hooks.
THEOREM HookAlways == Spec => []HookInv
<1>1. HookInv /\ [Next]_vars => HookInv'
  BY TypeStep, SafeStep DEF HookInv, SafeInv
<1> QED
  BY <1>1, HookStart, PTL DEF Spec

\* Endpoints, requests and calls keep their types.
THEOREM HooksAreTyped == Spec => []TypeOK
<1>1. HookInv => TypeOK
  BY DEF HookInv
<1> QED
  BY <1>1, HookAlways, PTL

\* After a rotation, a disabling or a deletion inbound_hook handles only
\* requests that were under way, unless an upgrade undid the rotation.
THEOREM WithdrawnStaysOut == Spec => []WithdrawnAdmitsNothing
<1>1. HookInv => WithdrawnAdmitsNothing
  BY DEF HookInv, LateInv, WithdrawnAdmitsNothing
<1> QED
  BY <1>1, HookAlways, PTL

\* Among all handlers and tools, tokens follow their clients.
THEOREM TokensFollowAmongHooks == Spec => []TokensFollowClients
<1>1. AuthInv /\ [Next]_vars => AuthInv'
  <2> SUFFICES ASSUME AuthInv, [Next]_vars PROVE AuthInv'
    OBVIOUS
  <2>1. CASE [AuthNext]_authVars
    BY <2>1, AuthTypeStep, GrantStep DEF AuthInv
  <2>2. CASE Api \/ UNCHANGED vars \/ \E t \in Tools : Tool(t)
    <3>1. UNCHANGED authVars
      BY <2>2 DEF Api, Tool, CreateHook, InsertHook, UpdateHook, RotateHook, DeleteHook, Upgrade, Arrive, Answer,
                  CallTool, ToolReturns, ToolCreate, ToolInsert, ToolUpdate, ToolRotate, vars
    <3> QED
      BY <2>1, <3>1
  <2>3. CASE Crash
    BY <2>3 DEF Crash, AuthInv, AuthTypeOK, TokensFollowClients, GrantInv
  <2> QED
    BY <2>1, <2>2, <2>3 DEF Next
<1>2. AuthInv => TokensFollowClients
  BY DEF AuthInv
<1> QED
  BY <1>1, <1>2, HookStart, PTL DEF Spec
=============================================================================
