----------------------------- MODULE HookEndpoint -----------------------------
(***************************************************************************)
(* Inbound hooks and who may change them.  A request to a hook is admitted *)
(* by the row of the endpoint, whose secret it carries, and awaits its     *)
(* body with a copy of that row.  REST handlers run on the event loop and  *)
(* ask for the scopes of their bearer as it is now; an MCP tool runs on a  *)
(* thread, on a connection of its own, with the scopes its bearer had when *)
(* the call came in.  To hash a secret takes long enough for a thread to   *)
(* get in between.                                                         *)
(***************************************************************************)
EXTENDS AuthStore

CONSTANTS
  Hooks,    \* ids of endpoints
  Secrets,  \* secrets; of a hash it only matters which secret it verifies
  Requests, \* requests to hooks
  Tools,    \* MCP worker threads
  Write, Rotate, Delete \* the scopes connectors:write, :rotate_secret, :delete

ASSUME HookAssumption ==
  /\ {Write, Rotate, Delete} \subseteq Scopes /\ {Rotate, Delete} \subseteq Explicit /\ Write \notin Explicit
  /\ None \notin [on : BOOLEAN, secret : Secrets, legacy : BOOLEAN]

VARIABLES
  hook,      \* inbound_endpoints
  used,      \* secrets that were generated or given so far
  job,       \* the handler that computes a hash, and has the loop
  request,   \* requests that await their body, with their copy of the row
  tool,      \* calls of tools
  withdrawn, \* history: what must not be admitted any more
  early,     \* history: requests that were under way when that happened
  crossed    \* history: hooks rotated by a tool while an upgrade was under way

history  == <<withdrawn, early, crossed>>
hookVars == <<hook, used, job, request, tool, history>>
vars     == <<authVars, hookVars>>

Endpoint == [on : BOOLEAN, secret : Secrets, legacy : BOOLEAN]
Call     == [scopes : SUBSET Scopes, step : {"called"}, hook : {None}]
              \cup [scopes : SUBSET Scopes, step : {"insert"}, hook : Hooks]
Copy     == [hook : Hooks, secret : Secrets]
Job      == [op : {"create"}, hook : Hooks, secret : Secrets, on : BOOLEAN]
              \cup [op : {"upgrade"}, hook : Hooks, secret : Secrets, by : Requests]

Exists(h)    == hook[h] # None
Pair(h)      == <<h, hook[h].secret>>
HandlersRun  == LoopFree /\ job = None
Upgrading(h) == job # None /\ job.op = "upgrade" /\ job.hook = h

\* _valid_secret and the first test of inbound_hook.
Admits(h, s) == Exists(h) /\ hook[h].on /\ hook[h].secret = s

\* The endpoint and secret by which a request was admitted.
Admitted(q, k) ==
  \/ request[q] # None /\ <<request[q].hook, request[q].secret>> = k
  \/ job # None /\ job.op = "upgrade" /\ job.by = q /\ <<job.hook, job.secret>> = k

Withdraw(k) == withdrawn' = withdrawn \cup {k} /\ early' = early \cup {q \in Requests : Admitted(q, k)}

\* update_inbound_endpoint: an UPDATE of the columns that are named.
SetOn(h, on) ==
  /\ hook' = [hook EXCEPT ![h].on = on]
  /\ IF on THEN withdrawn' = withdrawn \ {Pair(h)} /\ UNCHANGED early ELSE Withdraw(Pair(h))
  /\ UNCHANGED <<used, crossed>>

SetSecret(h, s) ==
  /\ hook' = [hook EXCEPT ![h].secret = s, ![h].legacy = FALSE]
  /\ used' = used \cup {s}
  /\ Withdraw(Pair(h))
  /\ crossed' = IF Upgrading(h) THEN crossed \cup {h} ELSE crossed \ {h}

\* create_inbound_endpoint; a row that came first makes the INSERT fail.
Insert(h, s, on) ==
  IF Exists(h)
  THEN UNCHANGED <<hook, used, history>>
  ELSE /\ hook' = [hook EXCEPT ![h] = [on |-> on, secret |-> s, legacy |-> FALSE]]
       /\ used' = used \cup {s}
       /\ IF on THEN withdrawn' = withdrawn \ {<<h, s>>} /\ UNCHANGED early ELSE Withdraw(<<h, s>>)
       /\ crossed' = crossed \ {h}

----------------------------------------------------------------------------
(* Handlers of the API. *)

\* POST /v1/hooks: the secret may be the caller's.
CreateHook ==
  /\ HandlersRun /\ Authorized(Write)
  /\ \E h \in Hooks, s \in Secrets, on \in BOOLEAN :
       ~Exists(h) /\ job' = [op |-> "create", hook |-> h, secret |-> s, on |-> on]
  /\ UNCHANGED <<authVars, hook, used, request, tool, history>>

InsertHook ==
  /\ job # None /\ job.op = "create"
  /\ Insert(job.hook, job.secret, job.on)
  /\ job' = None
  /\ UNCHANGED <<authVars, request, tool>>

\* PUT /v1/hooks/{id} without rotate_secret ...
UpdateHook ==
  /\ HandlersRun /\ Authorized(Write)
  /\ \E h \in Hooks, on \in BOOLEAN : Exists(h) /\ SetOn(h, on)
  /\ UNCHANGED <<authVars, job, request, tool>>

\* ... and with it, which takes a scope of its own.
RotateHook ==
  /\ HandlersRun /\ \E p \in Principals : Allows(p, Write) /\ Allows(p, Rotate)
  /\ \E h \in Hooks, s \in Secrets \ used : Exists(h) /\ SetSecret(h, s)
  /\ UNCHANGED <<authVars, job, request, tool>>

DeleteHook ==
  /\ HandlersRun /\ Authorized(Delete)
  /\ \E h \in Hooks :
       /\ Exists(h)
       /\ hook' = [hook EXCEPT ![h] = None]
       /\ Withdraw(Pair(h)) /\ crossed' = crossed \ {h}
  /\ UNCHANGED <<authVars, used, job, request, tool>>

\* inbound_hook up to its await: an old hash is replaced before that.
Arrive(q) ==
  /\ HandlersRun /\ request[q] = None
  /\ \E h \in Hooks, s \in Secrets :
       /\ Admits(h, s)
       /\ IF hook[h].legacy
          THEN job' = [op |-> "upgrade", hook |-> h, secret |-> s, by |-> q] /\ UNCHANGED request
          ELSE request' = [request EXCEPT ![q] = [hook |-> h, secret |-> s]] /\ UNCHANGED job
  /\ UNCHANGED <<authVars, hook, used, tool, history>>

\* Mutant: the row is written back as it was read.
UpgradeRow ==
  /\ job # None /\ job.op = "upgrade"
  /\ hook' = IF Exists(job.hook)
             THEN [hook EXCEPT ![job.hook] = [on |-> TRUE, secret |-> job.secret, legacy |-> FALSE]]
             ELSE hook
  /\ request' = [request EXCEPT ![job.by] = [hook |-> job.hook, secret |-> job.secret]]
  /\ job' = None
  /\ UNCHANGED <<authVars, used, tool, history>>

Upgrade ==
  /\ job # None /\ job.op = "upgrade"
  /\ hook' = IF Exists(job.hook) THEN [hook EXCEPT ![job.hook].secret = job.secret, ![job.hook].legacy = FALSE] ELSE hook
  /\ request' = [request EXCEPT ![job.by] = [hook |-> job.hook, secret |-> job.secret]]
  /\ job' = None
  /\ UNCHANGED <<authVars, used, tool, history>>

\* The rest of inbound_hook: the body came, was refused or was taken as the
\* copy says, whatever has become of the endpoint.
Answer(q) ==
  /\ HandlersRun /\ request[q] # None
  /\ request' = [request EXCEPT ![q] = None] /\ early' = early \ {q}
  /\ UNCHANGED <<authVars, hook, used, job, tool, withdrawn, crossed>>

----------------------------------------------------------------------------
(* MCP tools. *)

\* MCPControlPlaneAuth: the principal is that of the moment.
CallTool(t) ==
  /\ HandlersRun /\ tool[t] = None
  /\ \E p \in Principals : tool' = [tool EXCEPT ![t] = [scopes |-> p, step |-> "called", hook |-> None]]
  /\ UNCHANGED <<authVars, hook, used, job, request, history>>

\* _guard: the scopes of that principal.
Guarded(t, s) == tool[t] # None /\ tool[t].step = "called" /\ Allows(tool[t].scopes, s)

Return(t) == tool' = [tool EXCEPT ![t] = None]

\* A scope is missing, or the call was to read.
ToolReturns(t) ==
  /\ tool[t] # None /\ tool[t].step = "called" /\ Return(t)
  /\ UNCHANGED <<authVars, hook, used, job, request, history>>

ToolCreate(t) ==
  /\ Guarded(t, Write)
  /\ \E h \in Hooks : ~Exists(h) /\ tool' = [tool EXCEPT ![t].step = "insert", ![t].hook = h]
  /\ UNCHANGED <<authVars, hook, used, job, request, history>>

ToolInsert(t) ==
  /\ tool[t] # None /\ tool[t].step = "insert"
  /\ \E s \in Secrets \ used, on \in BOOLEAN : Insert(tool[t].hook, s, on)
  /\ Return(t)
  /\ UNCHANGED <<authVars, job, request>>

\* update_webhook_inbound, set_connector_enabled.
ToolUpdate(t) ==
  /\ Guarded(t, Write)
  /\ \E h \in Hooks, on \in BOOLEAN : Exists(h) /\ SetOn(h, on)
  /\ Return(t)
  /\ UNCHANGED <<authVars, job, request>>

ToolRotate(t) ==
  /\ Guarded(t, Rotate)
  /\ \E h \in Hooks, s \in Secrets \ used : Exists(h) /\ SetSecret(h, s)
  /\ Return(t)
  /\ UNCHANGED <<authVars, job, request>>

----------------------------------------------------------------------------

\* The process ends: the tables stay.
Crash ==
  /\ issuing' = None /\ job' = None
  /\ request' = [q \in Requests |-> None] /\ tool' = [t \in Tools |-> None]
  /\ early' = {}
  /\ UNCHANGED <<apiKey, client, token, hook, used, withdrawn, crossed>>

\* Endpoints from before hashes were salted may be there.
Init ==
  /\ AuthInit
  /\ hook \in [Hooks -> {None} \cup [on : {TRUE}, secret : Secrets, legacy : {TRUE}]]
  /\ used = {hook[h].secret : h \in {x \in Hooks : Exists(x)}}
  /\ job = None
  /\ request = [q \in Requests |-> None] /\ tool = [t \in Tools |-> None]
  /\ withdrawn = {} /\ early = {} /\ crossed = {}

Api ==
  \/ CreateHook \/ InsertHook \/ UpdateHook \/ RotateHook \/ DeleteHook \/ Upgrade
  \/ \E q \in Requests : Arrive(q) \/ Answer(q)

Tool(t) ==
  CallTool(t) \/ ToolReturns(t) \/ ToolCreate(t) \/ ToolInsert(t) \/ ToolUpdate(t) \/ ToolRotate(t)

Next ==
  \/ job = None /\ AuthNext /\ UNCHANGED hookVars
  \/ Api \/ Crash
  \/ \E t \in Tools : Tool(t)

Spec == Init /\ [][Next]_vars

----------------------------------------------------------------------------
(* Properties. *)

\* Tables, handlers and calls have their types.
TypeOK ==
  /\ AuthTypeOK
  /\ hook \in [Hooks -> Endpoint \cup {None}]
  /\ used \subseteq Secrets
  /\ job \in Job \cup {None}
  /\ request \in [Requests -> Copy \cup {None}]
  /\ tool \in [Tools -> Call \cup {None}]
  /\ withdrawn \subseteq Hooks \X Secrets /\ early \subseteq Requests /\ crossed \subseteq Hooks
  /\ job # None => issuing = None

\* Once a secret was rotated away, or an endpoint disabled or deleted, only
\* requests are handled that were under way by then: inbound_hook works on a
\* copy of the row, and replaces the hash of an old endpoint with what it had
\* read.  Except that a rotation by a tool while that hash is computed is
\* undone by it.
WithdrawnAdmitsNothing ==
  \A q \in Requests : \A k \in withdrawn : Admitted(q, k) => q \in early \/ k[1] \in crossed

----------------------------------------------------------------------------
(* Why it holds: the inductive invariant. *)

\* Every secret that a row, a request or the history knows was generated or
\* given before, so that a rotation brings a new one.
SecretInv ==
  /\ \A h \in Hooks : Exists(h) => hook[h].secret \in used
  /\ \A k \in withdrawn : k[2] \in used
  /\ \A q \in Requests : \A k \in Hooks \X Secrets : Admitted(q, k) => k[2] \in used

\* What may have become of an endpoint while the hash of its secret is
\* computed: it is there, disabled perhaps, or rotated by a tool.
UpgradeInv ==
  \A h \in Hooks : Upgrading(h) =>
    /\ Exists(h)
    /\ <<h, job.secret>> \in withdrawn => job.by \in early
    /\ hook[h].secret # job.secret => h \in crossed /\ \A q \in Requests : ~Admitted(q, Pair(h))

\* An enabled endpoint has a secret that is withdrawn only if a rotation was
\* undone, which happens to no endpoint that still has an old hash.
CurrentInv ==
  \A h \in Hooks : Exists(h) =>
    /\ hook[h].on /\ Pair(h) \in withdrawn => h \in crossed
    /\ hook[h].legacy => h \notin crossed

\* A late request came in by the secret that its endpoint has now.
LateInv ==
  \A q \in Requests : \A k \in withdrawn : Admitted(q, k) =>
    q \in early \/ (k[1] \in crossed /\ Exists(k[1]) /\ hook[k[1]].secret = k[2])

HookInv == TypeOK /\ SecretInv /\ UpgradeInv /\ CurrentInv /\ LateInv
=============================================================================
