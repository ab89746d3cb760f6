----------------------------- MODULE ControlPlane -----------------------------
(***************************************************************************)
(* The configuration of PulseRelay: the tables of routes, their bindings   *)
(* and the destinations, the manifest of a connector and the index that    *)
(* caches it.  The REST handlers run one at a time on the event loop, the  *)
(* MCP tools on threads of their own; each side has one SQLite connection, *)
(* and every call of the store is one transaction of it.  A statement that *)
(* is refused leaves its transaction open: nothing rolls it back.          *)
(*                                                                         *)
(* All routes are the connector's.  A policy is a value, NoPolicy is {}.   *)
(* A URL is a pair: what redact_url leaves of it, and what it hides.       *)
(***************************************************************************)
EXTENDS Integers, FiniteSets

CONSTANTS
  Routes,    \* ids of routes
  Dests,     \* ids of destinations
  Shapes,    \* what redact_url leaves of a URL
  Secrets,   \* what it hides
  Marker,    \* "<redacted>"
  Policies,  \* aggregation policies
  NoPolicy,  \* the empty one
  None,      \* no row, no value
  Tools,     \* MCP worker threads
  MaxCalls,  \* bound: calls that change something
  MaxEdits,  \* bound: edits of the manifest by an operator
  MaxFaults  \* bound: refused statements, restarts, failed file writes

ASSUME ControlAssumption ==
  /\ NoPolicy \in Policies /\ Marker \notin Secrets /\ "api" \notin Tools /\ Routes \cap Dests = {}
  /\ MaxCalls \in Nat /\ MaxEdits \in Nat /\ MaxFaults \in Nat

VARIABLES
  db,       \* the committed tables
  conn,     \* the transaction of each connection and what it sees
  file,     \* connector.yaml
  index,    \* ConnectorManifestIndex: fingerprint and parsed policy
  pc,       \* where a caller is
  job,      \* the arguments and copies of its call
  shown,    \* the URL of a destination as a client last read it
  want,     \* history: the tables as the calls meant them
  overlaid, \* history: rows a call may have put back as it had read them
  moved,    \* history: a client read a URL of which the shape was, or is now, another
  drifted,  \* history: bindings changed where nobody rewrites the manifest
  calls, edits, faults

vars == <<db, conn, file, index, pc, job, shown, want, overlaid, moved, drifted, calls, edits, faults>>

Callers == {"api"} \cup Tools
Conns   == {"api", "mcp"}
Url     == Shapes \X (Secrets \cup {Marker})
Route   == [on : BOOLEAN, policy : Policies]
Dest    == [on : BOOLEAN, url : Url]
Tables  == [route : [Routes -> Route \cup {None}], link : [Routes -> SUBSET Dests], dest : [Dests -> Dest \cup {None}]]

ASSUME NoneIsNothing == None \notin Route \cup Dest \cup Url \cup Tables \cup Policies

Rows(t)  == {r \in Routes : t.route[r] # None}
Bound(t) == {t.dest[d].url : d \in {x \in UNION {t.link[r] : r \in Rows(t)} : t.dest[x] # None}}

\* Mutant: what a client sends is stored.
RestoreNothing(old, u) == u

\* redact_url, restore_redacted_url
Redact(u)       == <<u[1], Marker>>
Restore(old, u) == IF u = Redact(old) THEN old ELSE u

PutRoute(t, r, row, ds) == [t EXCEPT !.route[r] = row, !.link[r] = ds]
PutDest(t, d, row)      == [t EXCEPT !.dest[d] = row]
PutPolicy(t, rs, p)     == [t EXCEPT !.route = [r \in Routes |-> IF r \in rs /\ @[r] # None THEN [@[r] EXCEPT !.policy = p] ELSE @[r]]]

----------------------------------------------------------------------------
(* SQLite.  A connection is idle, or it has begun a transaction that a     *)
(* refused statement left behind: the first read then takes a snapshot,    *)
(* stale once another connection has committed; or it has written and      *)
(* keeps the lock of the file.                                             *)

Fresh     == [mode |-> "idle", view |-> None]
ConnOf(c) == IF c = "api" THEN "api" ELSE "mcp"
View(c)   == IF conn[ConnOf(c)].view = None THEN db ELSE conn[ConnOf(c)].view

\* A SELECT matters only to a transaction that was begun.  Select is that
\* read, of this or of another call; who reads has it behind him.
Select(o) ==
  /\ conn[o].mode = "begun"
  /\ conn' = [conn EXCEPT ![o] = [mode |-> "reading", view |-> db]]
  /\ UNCHANGED <<db, file, index, pc, job, shown, want, overlaid, moved, drifted, calls, edits, faults>>

Reads(c) == conn[ConnOf(c)].mode # "begun" /\ UNCHANGED conn

Writable(c) ==
  /\ conn[ConnOf(c)].mode # "stale"
  /\ \A o \in Conns \ {ConnOf(c)} : conn[o].mode # "writing"

Outdated(k) == IF k.mode = "reading" THEN [k EXCEPT !.mode = "stale"] ELSE k

\* What an earlier call left behind is committed as well.
Commit(c, new) ==
  /\ Writable(c)
  /\ db' = new
  /\ conn' = [o \in Conns |-> IF o = ConnOf(c) THEN Fresh ELSE Outdated(conn[o])]

\* "database is locked": the transaction stays as it is, or is begun.
Locked(c) ==
  /\ ~Writable(c)
  /\ conn' = IF conn[ConnOf(c)].mode = "idle" THEN [conn EXCEPT ![ConnOf(c)].mode = "begun"] ELSE conn
  /\ UNCHANGED db

\* A constraint refuses a statement; those before it stay, uncommitted.
Refused(c, half) ==
  /\ Writable(c) /\ faults < MaxFaults
  /\ faults' = faults + 1
  /\ conn' = [conn EXCEPT ![ConnOf(c)] = [mode |-> "writing", view |-> half]]
  /\ UNCHANGED db

----------------------------------------------------------------------------
(* Calls. *)

NoJob == [op |-> "none", r |-> None, d |-> None, on |-> TRUE, policy |-> NoPolicy, links |-> {}, twice |-> FALSE,
          rows |-> [r \in Routes |-> None], todo |-> {}, row |-> None, keep |-> {}, stamp |-> 0, doc |-> None]

Stop(c)        == pc' = [pc EXCEPT ![c] = "idle"] /\ job' = [job EXCEPT ![c] = NoJob]
Goto(c, l, j)  == pc' = [pc EXCEPT ![c] = l] /\ job' = [job EXCEPT ![c] = j]

\* Nothing is served before the API has started.
Up == pc["api"] # "down" /\ job["api"].op # "start"

Call(c, l, j) == Up /\ pc[c] = "idle" /\ calls < MaxCalls /\ calls' = calls + 1 /\ Goto(c, l, j)

\* History: the rows of which c holds a copy, or will, and writes it back.
Holds(c) ==
  CASE job[c].op \in {"sync", "start"} -> IF pc[c] \in {"stat", "build", "list"} THEN Routes ELSE job[c].todo
    [] job[c].op = "enable" -> {job[c].r}
    [] job[c].op = "dest"   -> {job[c].d}
    [] OTHER                -> {}

Held(c, k) == \E o \in Callers \ {c} : k \in Holds(o)

\* c writes a whole row, or a part of one and the rest as it had read it.
WritesAll(c, k)  == overlaid' = IF Held(c, k) THEN overlaid \cup {k} ELSE overlaid \ {k}
WritesPart(c, k) == overlaid' = IF Held(c, k) THEN overlaid \cup {k} ELSE overlaid

\* History: what c writes is not in the manifest, unless c rewrites it.
Drifts(c) == drifted' = (drifted \/ c # "api")

\* upsert_route of a call that names the policy and the bindings, so the
\* whole row.  A destination named twice is refused by the primary key of
\* route_destinations, after the row and the first of the bindings.
UpsertRoute(c, l) ==
  LET j == job[c]
      row == [on |-> j.on, policy |-> j.policy]
  IN  /\ pc[c] = "upsert"
      /\ \/ /\ ~j.twice /\ Commit(c, PutRoute(View(c), j.r, row, j.links))
            /\ want' = PutRoute(want, j.r, row, j.links)
            /\ WritesAll(c, j.r) /\ Drifts(c)
            /\ IF l = "idle" THEN Stop(c) ELSE Goto(c, l, j)
            /\ UNCHANGED faults
         \/ /\ j.twice /\ \E some \in SUBSET j.links \ {{}} : Refused(c, PutRoute(View(c), j.r, row, some))
            /\ overlaid' = overlaid \cup {j.r} /\ drifted' = TRUE
            /\ Stop(c) /\ UNCHANGED want
         \/ Locked(c) /\ Stop(c) /\ UNCHANGED <<want, overlaid, drifted, faults>>
      /\ UNCHANGED <<file, index, shown, moved, calls, edits>>

\* upsert_destination of a row in which the fields "keep" are as the caller
\* had read them.
UpsertDest(c) ==
  LET j == job[c]
      old == want.dest[j.d]
      part(f) == IF f \in j.keep THEN old[f] ELSE j.row[f]
      meant == IF old = None THEN IF j.keep = {} THEN j.row ELSE None
               ELSE [on |-> part("on"), url |-> part("url")]
  IN  /\ pc[c] = "putdest"
      /\ \/ /\ Commit(c, PutDest(View(c), j.d, j.row))
            /\ want' = PutDest(want, j.d, meant)
            /\ IF j.keep = {} THEN WritesAll(c, j.d) ELSE WritesPart(c, j.d)
            /\ moved' = (moved \/ (shown[j.d] # None /\ shown[j.d] # Redact(j.row.url)))
            /\ drifted' = TRUE
         \/ Locked(c) /\ UNCHANGED <<want, overlaid, moved, drifted>>
      /\ Stop(c)
      /\ UNCHANGED <<file, index, shown, calls, edits, faults>>

----------------------------------------------------------------------------
(* Handlers of the API. *)

\* POST /v1/routes with a policy, or without: then the index is asked first.
CreateRoute ==
  \E r \in Routes, ds \in SUBSET Dests, given \in Policies \cup {None}, twice \in BOOLEAN :
    /\ twice => ds # {}
    /\ Call("api", IF given = None THEN "stat" ELSE "upsert",
            [NoJob EXCEPT !.op = "create", !.r = r, !.policy = IF given = None THEN NoPolicy ELSE given, !.links = ds, !.twice = twice])
    /\ UNCHANGED <<db, conn, file, index, shown, want, overlaid, moved, drifted, edits, faults>>

\* Mutant: the manifest is left alone.
DeleteRouteOnly ==
  \E r \in Rows(View("api")) :
    /\ conn["api"].mode # "begun"
    /\ Commit("api", [View("api") EXCEPT !.route[r] = None])
    /\ want' = [want EXCEPT !.route[r] = None]
    /\ WritesAll("api", r)
    /\ Call("api", "idle", NoJob)
    /\ UNCHANGED <<file, index, shown, moved, drifted, edits, faults>>

\* DELETE /v1/routes: the bindings stay in their table.
DeleteRoute ==
  \E r \in Rows(View("api")) :
    /\ conn["api"].mode # "begun"
    /\ \/ /\ Commit("api", [View("api") EXCEPT !.route[r] = None])
          /\ want' = [want EXCEPT !.route[r] = None]
          /\ WritesAll("api", r)
          /\ Call("api", "collect", [NoJob EXCEPT !.op = "delete"])
       \/ Locked("api") /\ Call("api", "idle", NoJob) /\ UNCHANGED <<want, overlaid>>
    /\ UNCHANGED <<file, index, shown, moved, drifted, edits, faults>>

\* _sync_connector_webhooks: the manifest and the bindings are read (a tool
\* that changes them meanwhile leaves the manifest behind in any case) ...
Collect ==
  /\ pc["api"] = "collect"
  /\ Reads("api")
  /\ IF file.ok /\ file.urls # Bound(View("api"))
     THEN Goto("api", "write", [NoJob EXCEPT !.op = "project", !.doc = [file EXCEPT !.urls = Bound(View("api"))]])
     ELSE Stop("api")
  /\ drifted' = ~file.ok
  /\ UNCHANGED <<db, file, index, shown, want, overlaid, moved, calls, edits, faults>>

\* ... and the manifest is replaced.
Replace(doc) == file' = [doc EXCEPT !.stamp = file.stamp + 1]

WriteProjection ==
  /\ pc["api"] = "write"
  /\ \/ Replace(job["api"].doc) /\ UNCHANGED <<drifted, faults>>
     \/ faults < MaxFaults /\ faults' = faults + 1 /\ drifted' = TRUE /\ UNCHANGED file
  /\ Stop("api")
  /\ UNCHANGED <<db, conn, index, shown, want, overlaid, moved, calls, edits>>

\* PUT /v1/connectors: reads the manifest and replaces it.
UpdateConnector ==
  /\ file.ok
  /\ \E p \in Policies \ {NoPolicy} :
       /\ Call("api", "stat", [NoJob EXCEPT !.op = "sync", !.policy = p])
       /\ Replace([file EXCEPT !.policy = p])
       /\ want' = PutPolicy(want, Routes, p)
  /\ UNCHANGED <<db, conn, index, shown, overlaid, moved, drifted, edits, faults>>

\* ConnectorManifestIndex.refresh looks at the file, then parses it.  Only
\* create_route lets it off when the fingerprint is the same.
Stat ==
  /\ pc["api"] = "stat"
  /\ IF job["api"].op = "create" /\ index.stamp = file.stamp
     THEN Goto("api", "upsert", [job["api"] EXCEPT !.policy = index.policy])
     ELSE Goto("api", "build", [job["api"] EXCEPT !.stamp = file.stamp])
  /\ UNCHANGED <<db, conn, file, index, shown, want, overlaid, moved, drifted, calls, edits, faults>>

\* Mutant: a manifest that cannot be parsed gives no policy at all.
ParsedOrNone == IF file.ok THEN file.policy ELSE None

\* _build and _connector_aggregation: a manifest that cannot be parsed gives
\* an empty policy.
Parsed == IF file.ok THEN file.policy ELSE NoPolicy

\* Mutant: a manifest that cannot be parsed leaves the item as it was.
BuildKeeping ==
  /\ pc["api"] = "build"
  /\ index' = [stamp |-> job["api"].stamp, policy |-> IF file.ok THEN file.policy ELSE index.policy]
  /\ job["api"].op = "sync" /\ Goto("api", "list", job["api"])
  /\ UNCHANGED <<db, conn, file, want, shown, overlaid, moved, drifted, calls, edits, faults>>

Build ==
  /\ pc["api"] = "build"
  /\ index' = [stamp |-> job["api"].stamp, policy |-> Parsed]
  /\ LET j == job["api"]
     IN  CASE j.op = "create" -> Goto("api", "upsert", [j EXCEPT !.policy = Parsed]) /\ UNCHANGED want
           [] j.op = "sync"   -> Goto("api", "list", j) /\ UNCHANGED want
           [] j.op = "start"  -> Goto("api", "list", [j EXCEPT !.policy = Parsed]) /\ want' = PutPolicy(want, Routes, Parsed)
  /\ UNCHANGED <<db, conn, file, shown, overlaid, moved, drifted, calls, edits, faults>>

\* _sync_connector_aggregation: all routes are read, then each is written
\* back with the policy and the bindings it has by then.  A route that an old
\* snapshot does not show keeps its policy.
ListRoutes ==
  /\ pc["api"] = "list"
  /\ Reads("api")
  /\ want' = [want EXCEPT !.route = [r \in Routes |-> IF r \in Rows(View("api")) THEN @[r] ELSE db.route[r]]]
  /\ IF Rows(View("api")) = {} THEN Stop("api")
     ELSE Goto("api", "links", [job["api"] EXCEPT !.rows = View("api").route, !.todo = Rows(View("api"))])
  /\ UNCHANGED <<db, file, index, shown, overlaid, moved, drifted, calls, edits, faults>>

ReadBindings ==
  /\ pc["api"] = "links"
  /\ Reads("api")
  /\ \E r \in job["api"].todo : Goto("api", "sync", [job["api"] EXCEPT !.r = r, !.links = View("api").link[r]])
  /\ UNCHANGED <<db, file, index, shown, want, overlaid, moved, drifted, calls, edits, faults>>

\* Mutant: the bindings are left out of the call.
SyncRouteBare ==
  /\ pc["api"] = "sync"
  /\ LET j == job["api"]
         left == j.todo \ {j.r}
     IN  /\ Commit("api", PutRoute(View("api"), j.r, [j.rows[j.r] EXCEPT !.policy = j.policy], {}))
         /\ WritesPart("api", j.r)
         /\ IF left = {} THEN Stop("api") ELSE Goto("api", "links", [j EXCEPT !.todo = left])
  /\ UNCHANGED <<file, index, want, shown, moved, drifted, calls, edits, faults>>

\* An exception ends the handler; what is left of the routes keeps its policy.
SyncRoute ==
  /\ pc["api"] = "sync"
  /\ LET j == job["api"]
         left == j.todo \ {j.r}
     IN  \/ /\ Commit("api", PutRoute(View("api"), j.r, [j.rows[j.r] EXCEPT !.policy = j.policy], j.links))
            /\ WritesPart("api", j.r)
            /\ IF left = {} THEN Stop("api") ELSE Goto("api", "links", [j EXCEPT !.todo = left])
            /\ UNCHANGED want
         \/ /\ Locked("api") /\ Stop("api")
            /\ want' = [want EXCEPT !.route = [r \in Routes |-> IF r \in j.todo THEN db.route[r] ELSE @[r]]]
            /\ UNCHANGED overlaid
  /\ UNCHANGED <<file, index, shown, moved, drifted, calls, edits, faults>>

\* A row goes to upsert_destination; the caller has read the row it replaces
\* just before, and takes from it what it does not change.
NewDest(c, d, u) ==
  /\ Call(c, "putdest", [NoJob EXCEPT !.op = "dest", !.d = d, !.row = [on |-> TRUE, url |-> u]])
  /\ Reads(c)
  /\ UNCHANGED <<db, file, index, shown, want, overlaid, moved, drifted, edits, faults>>

EditDest(c, d, new) ==
  LET row == View(c).dest[d]
  IN  /\ Call(c, "putdest", [NoJob EXCEPT !.op = "dest", !.d = d, !.row = new,
                            !.keep = {f \in {"on", "url"} : row[f] = new[f]}])
      /\ Reads(c)
      /\ UNCHANGED <<db, file, index, shown, want, overlaid, moved, drifted, edits, faults>>

\* What a client may send: a URL, or what it was shown of the present one or
\* of an older one; the handler takes the former for the URL that it hides.
Existing(c) == {d \in Dests : View(c).dest[d] # None}
Sent(c, d)  == (Shapes \X Secrets) \cup ({shown[d], View(c).dest[d].url} \ {None})

\* POST, PUT and DELETE /v1/webhooks; POST may replace a row.
CreateWebhook == \E d \in Dests, u \in Shapes \X Secrets : NewDest("api", d, u)

UpdateWebhook ==
  \E d \in Existing("api") : \E u \in Sent("api", d), on \in BOOLEAN :
    EditDest("api", d, [on |-> on, url |-> Restore(View("api").dest[d].url, u)])

DeleteDest ==
  \E d \in Dests :
    /\ \/ /\ Commit("api", PutDest(View("api"), d, None))
          /\ want' = PutDest(want, d, None)
          /\ WritesAll("api", d) /\ drifted' = TRUE
       \/ Locked("api") /\ UNCHANGED <<want, overlaid, drifted>>
    /\ Call("api", "idle", NoJob)
    /\ UNCHANGED <<file, index, shown, moved, edits, faults>>

ShowDest ==
  \E d \in Dests :
    /\ Up /\ View("api").dest[d] # None
    /\ shown' = [shown EXCEPT ![d] = Redact(View("api").dest[d].url)]
    /\ moved' = (moved \/ (db.dest[d] # None /\ shown'[d] # Redact(db.dest[d].url)))
    /\ UNCHANGED <<db, conn, file, index, pc, job, want, overlaid, drifted, calls, edits, faults>>

----------------------------------------------------------------------------
(* MCP tools. *)

\* create_or_update_route: validate_route wants destinations that exist.
ToolRoute(t) ==
  \E r \in Routes, ds \in SUBSET Dests \ {{}}, p \in Policies, twice \in BOOLEAN :
    /\ \A d \in ds : View(t).dest[d] # None
    /\ Call(t, "upsert", [NoJob EXCEPT !.op = "create", !.r = r, !.policy = p, !.links = ds, !.twice = twice])
    /\ Reads(t)
    /\ UNCHANGED <<db, file, index, shown, want, overlaid, moved, drifted, edits, faults>>

\* set_route_enabled: get_route reads the rows, then the bindings of each ...
ToolEnable(t) ==
  \E r \in Rows(View(t)), on \in BOOLEAN :
    /\ Call(t, "links", [NoJob EXCEPT !.op = "enable", !.r = r, !.on = on, !.row = View(t).route[r]])
    /\ Reads(t)
    /\ UNCHANGED <<db, file, index, shown, want, overlaid, moved, drifted, edits, faults>>

ToolBindings(t) ==
  /\ pc[t] = "links"
  /\ Goto(t, "put", [job[t] EXCEPT !.links = View(t).link[job[t].r]])
  /\ Reads(t)
  /\ UNCHANGED <<db, file, index, shown, want, overlaid, moved, drifted, calls, edits, faults>>

\* ... and all of the row is written back.
ToolPut(t) ==
  /\ pc[t] = "put"
  /\ LET j == job[t]
     IN  \/ /\ Commit(t, PutRoute(View(t), j.r, [j.row EXCEPT !.on = j.on], j.links))
            /\ want' = IF want.route[j.r] = None THEN want ELSE [want EXCEPT !.route[j.r].on = j.on]
            /\ WritesPart(t, j.r) /\ drifted' = TRUE
         \/ Locked(t) /\ UNCHANGED <<want, overlaid, drifted>>
  /\ Stop(t)
  /\ UNCHANGED <<file, index, shown, moved, calls, edits, faults>>

\* create_webhook_outbound, update_webhook_outbound, set_connector_enabled.
CreateOutbound(t) == \E d \in Dests \ Existing(t), u \in Shapes \X Secrets : NewDest(t, d, u)

UpdateOutbound(t) ==
  \E d \in Existing(t) : \E u \in Sent(t, d), on \in BOOLEAN :
    EditDest(t, d, [on |-> on, url |-> Restore(View(t).dest[d].url, u)])

EnableOutbound(t) ==
  \E d \in Existing(t), on \in BOOLEAN : EditDest(t, d, [on |-> on, url |-> View(t).dest[d].url])

----------------------------------------------------------------------------
(* Everybody else. *)

\* Another write of the API (an event, a delivery) or of a tool (a hook).
OtherWrite(o) ==
  /\ Up /\ (o = "api" => pc["api"] = "idle")
  /\ \E c \in Conns : conn[c].mode # "idle"
  /\ \E c \in Callers : ConnOf(c) = o /\ (Commit(c, View(c)) \/ Locked(c))
  /\ drifted' = (drifted \/ conn[o].mode = "writing")
  /\ UNCHANGED <<file, index, pc, job, shown, want, overlaid, moved, calls, edits, faults>>

\* The worker process commits, or is refused the lock and ends and restarts.
WorkerWrite ==
  /\ \A o \in Conns : conn[o].mode # "writing"
  /\ \E o \in Conns : conn[o].mode = "reading"
  /\ conn' = [o \in Conns |-> Outdated(conn[o])]
  /\ UNCHANGED <<db, file, index, pc, job, shown, want, overlaid, moved, drifted, calls, edits, faults>>

\* An operator edits the policy of the manifest, breaks or repairs it.
EditManifest ==
  /\ edits < MaxEdits /\ edits' = edits + 1
  /\ \E p \in Policies, ok \in BOOLEAN : Replace([file EXCEPT !.policy = p, !.ok = ok])
  /\ UNCHANGED <<db, conn, index, pc, job, shown, want, overlaid, moved, drifted, calls, faults>>

\* The API process ends; open transactions are rolled back.
Crash ==
  /\ Up /\ faults < MaxFaults /\ faults' = faults + 1
  /\ conn' = [o \in Conns |-> Fresh]
  /\ pc' = [c \in Callers |-> IF c = "api" THEN "down" ELSE "idle"]
  /\ job' = [c \in Callers |-> NoJob]
  /\ index' = [stamp |-> 0, policy |-> NoPolicy]
  /\ drifted' = (drifted \/ pc["api"] \in {"collect", "write"})
  /\ UNCHANGED <<db, file, shown, want, overlaid, moved, calls, edits>>

\* create_app refreshes the index and gives every route of a connector the
\* policy of its manifest.
Restart ==
  /\ pc["api"] = "down"
  /\ Goto("api", "stat", [NoJob EXCEPT !.op = "start"])
  /\ UNCHANGED <<db, conn, file, index, shown, want, overlaid, moved, drifted, calls, edits, faults>>

----------------------------------------------------------------------------

\* Any configuration that is in order.
Init ==
  /\ \E rs \in SUBSET Routes, ds \in SUBSET Dests, p \in Policies, u \in Shapes \X Secrets :
       /\ db = [route |-> [r \in Routes |-> IF r \in rs THEN [on |-> TRUE, policy |-> p] ELSE None],
                link  |-> [r \in Routes |-> IF r \in rs THEN ds ELSE {}],
                dest  |-> [d \in Dests |-> IF d \in ds THEN [on |-> TRUE, url |-> u] ELSE None]]
       /\ file = [ok |-> TRUE, stamp |-> 1, policy |-> p, urls |-> Bound(db)]
       /\ index = [stamp |-> 1, policy |-> p]
  /\ conn = [o \in Conns |-> Fresh]
  /\ pc = [c \in Callers |-> "idle"] /\ job = [c \in Callers |-> NoJob]
  /\ shown = [d \in Dests |-> None]
  /\ want = db /\ overlaid = {} /\ moved = FALSE /\ drifted = FALSE
  /\ calls = 0 /\ edits = 0 /\ faults = 0

Api ==
  \/ CreateRoute \/ UpsertRoute("api", "collect") \/ DeleteRoute \/ Collect \/ WriteProjection
  \/ UpdateConnector \/ Stat \/ Build \/ ListRoutes \/ ReadBindings \/ SyncRoute
  \/ CreateWebhook \/ UpdateWebhook \/ UpsertDest("api") \/ DeleteDest \/ ShowDest

Tool(t) ==
  \/ ToolRoute(t) \/ UpsertRoute(t, "idle") \/ ToolEnable(t) \/ ToolBindings(t) \/ ToolPut(t)
  \/ CreateOutbound(t) \/ UpdateOutbound(t) \/ EnableOutbound(t) \/ UpsertDest(t)

Next ==
  \/ Api \/ Crash \/ Restart \/ EditManifest \/ WorkerWrite
  \/ \E t \in Tools : Tool(t)
  \/ \E o \in Conns : Select(o) \/ OtherWrite(o)

Spec == Init /\ [][Next]_vars

----------------------------------------------------------------------------
(* Properties. *)

Manifest == [ok : BOOLEAN, stamp : Nat, policy : Policies, urls : SUBSET Url]

Job ==
  [op : {"none", "create", "delete", "project", "sync", "start", "dest", "enable"},
   r : Routes \cup {None}, d : Dests \cup {None}, on : BOOLEAN, policy : Policies, links : SUBSET Dests, twice : BOOLEAN,
   rows : [Routes -> Route \cup {None}], todo : SUBSET Routes, row : Route \cup Dest \cup {None},
   keep : SUBSET {"on", "url"}, stamp : Nat, doc : Manifest \cup {None}]

Modes  == {"idle", "begun", "reading", "stale", "writing"}
Labels == {"idle", "down", "upsert", "collect", "write", "stat", "build", "list", "links", "sync", "put", "putdest"}

\* The tables, connections, manifest, index and calls have their types.
TypeOK ==
  /\ db \in Tables /\ want \in Tables
  /\ conn \in [Conns -> [mode : Modes, view : Tables \cup {None}]]
  /\ file \in Manifest /\ index \in [stamp : Nat, policy : Policies] /\ index.stamp <= file.stamp
  /\ pc \in [Callers -> Labels] /\ job \in [Callers -> Job]
  /\ shown \in [Dests -> Url \cup {None}] /\ overlaid \subseteq Routes \cup Dests
  /\ moved \in BOOLEAN /\ drifted \in BOOLEAN

\* Between two calls of the API every route and every destination is what the
\* calls that were answered made of it, bindings included, whatever was
\* refused, locked out, read from an old snapshot or lost with the process:
\* except a row that one caller wrote while another held a copy of it
\* (set_route_enabled, _sync_connector_aggregation, update_webhook), or that a
\* refused upsert_route left half made.
RowsAreAsMeant ==
  Up /\ job["api"].op # "sync" =>
    /\ \A r \in Routes \ overlaid :
         db.route[r] = want.route[r] /\ (r \in Rows(db) => db.link[r] = want.link[r])
    /\ \A d \in Dests \ overlaid : db.dest[d] = want.dest[d]

\* _sync_connector_webhooks: between two calls of the API the manifest shows
\* the bindings "that the connector supervisor and the Connectors tab see"
\* (src/api.py), unless they were changed by a call that does not rewrite it
\* or the rewrite failed.
ManifestShowsBindings == Up /\ pc["api"] = "idle" /\ ~drifted => file.urls = Bound(db)

\* ConnectorManifestIndex.refresh: as long as the fingerprint fits the file,
\* the cached policy is what the file says, although the file may be edited
\* between the look at it and the parsing.
IndexMatchesFile == index.stamp = file.stamp => index.policy = Parsed

\* restore_redacted_url: a URL with the marker in the place of its secret is
\* never stored, although clients send back what they were shown: unless the
\* URL changed its visible part after a client had read it, or the client was
\* shown an old snapshot of it, in which case the stale echo is stored.
NoMarkerStored == ~moved => \A d \in Dests : db.dest[d] # None => db.dest[d].url[2] # Marker
=============================================================================
