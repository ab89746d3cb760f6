------------------------- MODULE ControlPlaneProofs -------------------------
(***************************************************************************)
(* What the tables, the manifest and the index of a connector keep, for    *)
(* any routes, destinations, tools, and any number of calls and faults.    *)
(***************************************************************************)
EXTENDS ControlPlane, TLAPS

(* Why it holds. *)

Stale(c) == conn[ConnOf(c)].mode = "stale"

\* A connection has a view while its transaction is open.  A snapshot that is
\* not stale is the committed tables; what is written and not committed differs
\* from them in rows that a refused upsert_route left half made, and only one
\* connection has such rows.
ConnOk(o) ==
  /\ conn[o].mode \in {"idle", "begun"} <=> conn[o].view = None
  /\ conn[o].mode = "reading" => conn[o].view = db
  /\ conn[o].mode = "writing" =>
       /\ conn[o].view.dest = db.dest /\ Rows(db) \subseteq Rows(conn[o].view)
       /\ \A r \in Routes \ overlaid : conn[o].view.route[r] = db.route[r] /\ conn[o].view.link[r] = db.link[r]

ConnInv ==
  /\ \A o \in Conns : ConnOk(o)
  /\ ~(conn["api"].mode = "writing" /\ conn["mcp"].mode = "writing")

\* Where a call is, l, tells which call it is and what its job j holds.
ApiCall(l, j) ==
  /\ l # "put"
  /\ l = "collect" => j.op \in {"create", "delete"}
  /\ l = "write" => j.op = "project" /\ j.doc \in Manifest
  /\ l \in {"stat", "build"} => j.op \in {"create", "sync", "start"} /\ j.todo = {} /\ (j.op = "create" => j.r \in Routes)
  /\ l = "list" => j.op \in {"sync", "start"} /\ j.todo = {}
  /\ l \in {"links", "sync"} => j.op \in {"sync", "start"} /\ \A r \in j.todo : j.rows[r] \in Route
  /\ l = "sync" => j.r \in j.todo

ToolCall(l, j) ==
  /\ l \in {"idle", "upsert", "links", "put", "putdest"}
  /\ l \in {"links", "put"} => j.op = "enable" /\ j.r \in Routes /\ j.row \in Route

CallOk(c, l, j) ==
  /\ l \in {"idle", "down"} => j = NoJob
  /\ l = "upsert"  => j.op = "create" /\ j.r \in Routes
  /\ l = "putdest" => j.op = "dest" /\ j.d \in Dests /\ j.row \in Dest
  /\ IF c = "api" THEN ApiCall(l, j) ELSE ToolCall(l, j)

CallInv == \A c \in Callers : CallOk(c, pc[c], job[c])

\* A fingerprint is of the file as it is or was.
StampOk(l, j) == l = "build" => j.stamp <= file.stamp
StampInv      == file.stamp >= 1 /\ index.stamp <= file.stamp /\ StampOk(pc["api"], job["api"])

\* Who can still write has read the URL as it is, and is about to store one
\* without the marker.
UrlOk(c, l, j) == l = "putdest" /\ ~Stale(c) => j.row.url[2] # Marker

MarkerInv ==
  ~moved =>
    /\ \A d \in Dests : db.dest[d] # None =>
         db.dest[d].url[2] # Marker /\ (shown[d] # None => shown[d] = Redact(db.dest[d].url))
    /\ \A c \in Callers : UrlOk(c, pc[c], job[c])

\* The manifest shows the bindings, or is about to; the API is not left with a
\* transaction when it reads them, and what it writes back of a route are the
\* bindings the route has.
ManifestOk(l, j) ==
  /\ ~drifted =>
       /\ l \notin {"collect", "write"} => file.urls = Bound(db)
       /\ l = "write" => j.doc.urls = Bound(db)
       /\ l = "sync" /\ ~Stale("api") => j.links = db.link[j.r]
  /\ l = "collect" => conn["api"] = Fresh
  /\ l \in {"links", "sync"} /\ ~Stale("api") => j.todo \subseteq Rows(View("api"))

ManifestInv == ManifestOk(pc["api"], job["api"]) /\ (conn["api"].mode = "writing" => drifted)

\* The API has still to give the route r its policy, and which one is known.
Pending(l, j, r) == l = "down" \/ (j.op \in {"sync", "start"} /\ (l \in {"stat", "build", "list"} \/ r \in j.todo))
Decided(l, j)    == j.op = "sync" \/ (j.op = "start" /\ l \notin {"stat", "build"})

\* A row is what the calls made of it, but for a policy that is still to come.
RouteOk(l, j, r) ==
  /\ r \in Rows(db) => db.link[r] = want.link[r]
  /\ ~Pending(l, j, r) => db.route[r] = want.route[r]
  /\ (db.route[r] = None) <=> (want.route[r] = None)
  /\ Pending(l, j, r) /\ want.route[r] # None =>
       want.route[r].on = db.route[r].on /\ (Decided(l, j) => want.route[r].policy = j.policy)

MeantInv ==
  /\ \A r \in Routes \ overlaid : RouteOk(pc["api"], job["api"], r)
  /\ \A d \in Dests \ overlaid : db.dest[d] = want.dest[d]

\* What a caller holds a copy of is as it had read it, unless somebody wrote it
\* meanwhile or the copy comes from an old snapshot.
CopyOk(c, l, j) ==
  ~Stale(c) =>
    /\ l = "putdest" /\ j.d \notin overlaid /\ j.keep # {} =>
         db.dest[j.d] # None /\ \A f \in j.keep : j.row[f] = db.dest[j.d][f]
    /\ c # "api" /\ l \in {"links", "put"} /\ j.r \notin overlaid =>
         j.row = db.route[j.r] /\ (l = "put" => j.links = db.link[j.r])
    /\ c = "api" /\ l \in {"links", "sync"} =>
         /\ \A r \in j.todo \ overlaid : j.rows[r] = db.route[r]
         /\ l = "sync" /\ j.r \notin overlaid => j.links = db.link[j.r]

CopyInv == \A c \in Callers : CopyOk(c, pc[c], job[c])

Inv == TypeOK /\ ConnInv /\ CallInv /\ StampInv /\ MarkerInv /\ ManifestInv /\ MeantInv /\ CopyInv

USE ControlAssumption, NoneIsNothing

----------------------------------------------------------------------------
(* The tables. *)

\* The row of a route and its bindings are put in the place of what was there.
LEMMA PutRouteIs ==
  ASSUME NEW t \in Tables, NEW r \in Routes, NEW row \in Route \cup {None}, NEW ds \in SUBSET Dests
  PROVE  /\ PutRoute(t, r, row, ds) \in Tables
         /\ PutRoute(t, r, row, ds).dest = t.dest
         /\ PutRoute(t, r, row, ds).route[r] = row /\ PutRoute(t, r, row, ds).link[r] = ds
         /\ \A q \in Routes \ {r} : /\ PutRoute(t, r, row, ds).route[q] = t.route[q]
                                    /\ PutRoute(t, r, row, ds).link[q] = t.link[q]
BY DEF PutRoute, Tables

\* The row of a destination is put in the place of what was there.
LEMMA PutDestIs ==
  ASSUME NEW t \in Tables, NEW d \in Dests, NEW row \in Dest \cup {None}
  PROVE  /\ PutDest(t, d, row) \in Tables
         /\ PutDest(t, d, row).route = t.route /\ PutDest(t, d, row).link = t.link
         /\ PutDest(t, d, row).dest[d] = row
         /\ \A q \in Dests \ {d} : PutDest(t, d, row).dest[q] = t.dest[q]
BY DEF PutDest, Tables

\* A route is deleted, its bindings stay.
LEMMA DropRouteIs ==
  ASSUME NEW t \in Tables, NEW r \in Routes
  PROVE  /\ [t EXCEPT !.route[r] = None] \in Tables
         /\ [t EXCEPT !.route[r] = None].dest = t.dest /\ [t EXCEPT !.route[r] = None].link = t.link
         /\ [t EXCEPT !.route[r] = None].route[r] = None
         /\ \A q \in Routes \ {r} : [t EXCEPT !.route[r] = None].route[q] = t.route[q]
BY DEF Tables

\* The routes get a policy.
LEMMA PutPolicyIs ==
  ASSUME NEW t \in Tables, NEW p \in Policies
  PROVE  /\ PutPolicy(t, Routes, p) \in Tables
         /\ PutPolicy(t, Routes, p).dest = t.dest /\ PutPolicy(t, Routes, p).link = t.link
         /\ \A r \in Routes :
              /\ t.route[r] = None => PutPolicy(t, Routes, p).route[r] = None
              /\ t.route[r] # None => /\ PutPolicy(t, Routes, p).route[r] \in Route
                                      /\ PutPolicy(t, Routes, p).route[r].on = t.route[r].on
                                      /\ PutPolicy(t, Routes, p).route[r].policy = p
<1> DEFINE f == [r \in Routes |-> IF t.route[r] # None THEN [t.route[r] EXCEPT !.policy = p] ELSE t.route[r]]
<1>1. PutPolicy(t, Routes, p) = [t EXCEPT !.route = f]
  BY DEF PutPolicy, Tables
<1>2. \A r \in Routes : t.route[r] \in Route \cup {None} /\ (t.route[r] # None => t.route[r] \in Route)
  BY DEF Tables
<1>3. ASSUME NEW q \in Route PROVE [q EXCEPT !.policy = p] \in Route /\ [q EXCEPT !.policy = p].on = q.on /\ [q EXCEPT !.policy = p].policy = p
  BY DEF Route
<1>4. f \in [Routes -> Route \cup {None}]
  BY <1>2, <1>3
<1>5. [t EXCEPT !.route = f] \in Tables /\ [t EXCEPT !.route = f].dest = t.dest /\ [t EXCEPT !.route = f].link = t.link /\ [t EXCEPT !.route = f].route = f
  BY <1>4 DEF Tables
<1>6. QED
  BY <1>1, <1>2, <1>3, <1>5

\* Which destinations are bound depends on the rows, their bindings and the
\* destinations only.
LEMMA BoundSame ==
  ASSUME NEW t, NEW u, t.dest = u.dest, Rows(t) = Rows(u), \A r \in Rows(t) : t.link[r] = u.link[r]
  PROVE  Bound(t) = Bound(u)
<1>1. {t.link[r] : r \in Rows(t)} = {u.link[r] : r \in Rows(u)}
  OBVIOUS
<1>2. QED
  BY <1>1 DEF Bound

----------------------------------------------------------------------------
(* The connections. *)

LEMMA ConnOfIs ==
  ASSUME NEW c \in Callers
  PROVE  ConnOf(c) \in Conns /\ (ConnOf(c) = "api" <=> c = "api") /\ (ConnOf(c) = "mcp" <=> c \in Tools)
BY DEF ConnOf, Conns, Callers

\* What a caller that can still write sees is what is committed, but for rows
\* that are half made.
LEMMA Sees ==
  ASSUME TypeOK, ConnInv, NEW c \in Callers
  PROVE  /\ View(c) \in Tables
         /\ ~Stale(c) => /\ View(c).dest = db.dest /\ Rows(db) \subseteq Rows(View(c))
                         /\ \A r \in Routes \ overlaid : View(c).route[r] = db.route[r] /\ View(c).link[r] = db.link[r]
                         /\ conn[ConnOf(c)].mode # "writing" => View(c) = db
<1>1. ConnOf(c) \in Conns /\ db \in Tables /\ ConnOk(ConnOf(c))
  BY ConnOfIs DEF TypeOK, ConnInv
<1>2. conn[ConnOf(c)].mode \in Modes /\ conn[ConnOf(c)].view \in Tables \cup {None}
  BY <1>1 DEF TypeOK
<1>3. QED
  BY <1>1, <1>2 DEF View, Stale, ConnOk, Modes

LEMMA FreshIs == Fresh \in [mode : Modes, view : Tables \cup {None}] /\ Fresh.mode = "idle" /\ Fresh.view = None
BY DEF Fresh, Modes

\* A commit of new by c.
LEMMA CommitKeeps ==
  ASSUME TypeOK, ConnInv, NEW c \in Callers, NEW new \in Tables, Commit(c, new)
  PROVE  /\ db' = new /\ conn' \in [Conns -> [mode : Modes, view : Tables \cup {None}]] /\ ConnInv'
         /\ ~Stale(c) /\ conn'[ConnOf(c)] = Fresh
         /\ \A o \in Conns : conn[o] = Fresh => conn'[o] = Fresh
         /\ \A o \in Conns : conn'[o].mode # "writing"
         /\ \A o \in Callers : ~Stale(o)' => ~Stale(o) /\ View(o)' = db'
<1>1. ConnOf(c) \in Conns /\ Writable(c) /\ db' = new
      /\ conn' = [o \in Conns |-> IF o = ConnOf(c) THEN Fresh ELSE Outdated(conn[o])]
  BY ConnOfIs DEF Commit
<1>2. ASSUME NEW o \in Conns
      PROVE  /\ Outdated(conn[o]) \in [mode : Modes, view : Tables \cup {None}]
             /\ Outdated(conn[o]).view = conn[o].view
             /\ Outdated(conn[o]).mode = IF conn[o].mode = "reading" THEN "stale" ELSE conn[o].mode
             /\ Outdated(Fresh) = Fresh /\ conn[o].mode \in Modes
  <2>1. conn[o] \in [mode : Modes, view : Tables \cup {None}]
    BY DEF TypeOK
  <2>2. QED
    BY <2>1, FreshIs DEF Outdated, Modes
<1>3. \A o \in Conns : /\ conn'[o] = IF o = ConnOf(c) THEN Fresh ELSE Outdated(conn[o])
                       /\ conn'[o] \in [mode : Modes, view : Tables \cup {None}]
  BY <1>1, <1>2, FreshIs
<1>4. conn' \in [Conns -> [mode : Modes, view : Tables \cup {None}]]
  BY <1>1, <1>3
<1>5. \A o \in Conns : conn'[o].mode \in {"idle", "begun", "stale"}
  BY <1>1, <1>2, <1>3, FreshIs DEF Writable, Modes
<1>6. \A o \in Conns : conn'[o].mode \in {"idle", "begun"} <=> conn'[o].view = None
  BY <1>1, <1>2, <1>3, FreshIs DEF ConnInv, ConnOk, Writable, Modes
<1>7. ConnInv'
  BY <1>5, <1>6 DEF ConnInv, ConnOk, Conns
<1>8. ASSUME NEW o \in Callers, ~Stale(o)' PROVE ~Stale(o) /\ View(o)' = db'
  <2>1. ConnOf(o) \in Conns
    BY ConnOfIs
  <2>2. View(o)' = db'
    BY <1>5, <1>6, <1>8, <2>1 DEF View, Stale
  <2>3. ~Stale(o)
    BY <1>1, <1>2, <1>3, <1>8, <2>1 DEF Stale, Writable
  <2>4. QED
    BY <2>2, <2>3
<1>9. QED
  BY <1>1, <1>2, <1>3, <1>4, <1>5, <1>7, <1>8 DEF Stale, Writable

\* What a step keeps that changes no table: of the connections, ...
Undisturbed ==
  /\ UNCHANGED db /\ conn' \in [Conns -> [mode : Modes, view : Tables \cup {None}]] /\ ConnInv'
  /\ \A o \in Callers : ~Stale(o)' => ~Stale(o)
  /\ \A o \in Callers : View(o)' = View(o)
  /\ \A o \in Conns : conn'[o].mode = "writing" => conn[o].mode = "writing"

\* ... when nothing happens to them,
LEMMA SameConn ==
  ASSUME TypeOK, ConnInv, UNCHANGED <<db, conn, overlaid>>
  PROVE  Undisturbed
BY DEF Undisturbed, TypeOK, ConnInv, ConnOk, Stale, View

\* ... when a statement finds the database locked,
LEMMA LockedKeeps ==
  ASSUME TypeOK, ConnInv, NEW c \in Callers, Locked(c), UNCHANGED overlaid
  PROVE  Undisturbed /\ \A o \in Conns \ {ConnOf(c)} : conn'[o] = conn[o]
<1>1. CASE conn[ConnOf(c)].mode # "idle"
  <2>1. UNCHANGED <<conn, db>>
    BY <1>1 DEF Locked
  <2>2. QED
    BY <2>1, SameConn DEF View
<1>2. CASE conn[ConnOf(c)].mode = "idle"
  <2>1. ConnOf(c) \in Conns /\ UNCHANGED db /\ conn' = [conn EXCEPT ![ConnOf(c)].mode = "begun"]
    BY <1>2, ConnOfIs DEF Locked
  <2>2. conn \in [Conns -> [mode : Modes, view : Tables \cup {None}]]
    BY DEF TypeOK
  <2>3. /\ conn' \in [Conns -> [mode : Modes, view : Tables \cup {None}]]
        /\ \A o \in Conns \ {ConnOf(c)} : conn'[o] = conn[o]
        /\ conn'[ConnOf(c)].mode = "begun" /\ conn'[ConnOf(c)].view = conn[ConnOf(c)].view
    BY <2>1, <2>2 DEF Modes
  <2>4. \A o \in Conns : ConnOk(o)'
    BY <1>2, <2>1, <2>3 DEF ConnInv, ConnOk
  <2>5. ConnInv'
    BY <2>1, <2>3, <2>4 DEF ConnInv, Conns
  <2>6. \A o \in Callers : View(o)' = View(o) /\ (~Stale(o)' => ~Stale(o))
    BY <1>2, <2>1, <2>3, ConnOfIs DEF View, Stale
  <2>7. QED
    BY <1>2, <2>1, <2>3, <2>5, <2>6 DEF Undisturbed
<1>3. QED
  BY <1>1, <1>2

\* ... when a transaction that was begun takes its snapshot,
LEMMA SelectKeeps ==
  ASSUME TypeOK, ConnInv, NEW o \in Conns, Select(o)
  PROVE  Undisturbed /\ \A p \in Conns : conn[p] = Fresh => conn'[p] = Fresh
<1>1. conn[o].mode = "begun" /\ UNCHANGED <<db, overlaid>> /\ conn' = [conn EXCEPT ![o] = [mode |-> "reading", view |-> db]]
      /\ db \in Tables /\ conn \in [Conns -> [mode : Modes, view : Tables \cup {None}]]
  BY DEF Select, TypeOK
<1>2. /\ conn' \in [Conns -> [mode : Modes, view : Tables \cup {None}]]
      /\ conn'[o].mode = "reading" /\ conn'[o].view = db /\ \A p \in Conns \ {o} : conn'[p] = conn[p]
  BY <1>1 DEF Modes
<1>3. \A p \in Conns : ConnOk(p)'
  BY <1>1, <1>2 DEF ConnInv, ConnOk
<1>4. ConnInv'
  BY <1>1, <1>2, <1>3 DEF ConnInv, Conns
<1>5. conn[o].view = None
  BY <1>1 DEF ConnInv, ConnOk
<1>6. \A p \in Callers : View(p)' = View(p) /\ (~Stale(p)' => ~Stale(p))
  BY <1>1, <1>2, <1>5, ConnOfIs DEF View, Stale
<1>7. QED
  BY <1>1, <1>2, <1>4, <1>6, FreshIs DEF Undisturbed

\* ... and when the worker commits.
LEMMA WorkerKeeps ==
  ASSUME TypeOK, ConnInv, WorkerWrite
  PROVE  Undisturbed /\ \A p \in Conns : conn[p] = Fresh => conn'[p] = Fresh
<1>1. UNCHANGED <<db, overlaid>> /\ conn' = [o \in Conns |-> Outdated(conn[o])] /\ \A o \in Conns : conn[o].mode # "writing"
  BY DEF WorkerWrite
<1>2. ASSUME NEW o \in Conns
      PROVE  /\ conn'[o] \in [mode : Modes, view : Tables \cup {None}]
             /\ conn'[o].view = conn[o].view
             /\ conn'[o].mode = IF conn[o].mode = "reading" THEN "stale" ELSE conn[o].mode
             /\ conn[o] = Fresh => conn'[o] = Fresh
  <2>1. conn[o] \in [mode : Modes, view : Tables \cup {None}]
    BY DEF TypeOK
  <2>2. QED
    BY <1>1, <2>1, FreshIs DEF Outdated, Modes
<1>3. \A o \in Conns : ConnOk(o)'
  BY <1>1, <1>2 DEF ConnInv, ConnOk
<1>4. ConnInv'
  BY <1>1, <1>2, <1>3 DEF ConnInv, Conns
<1>5. \A p \in Callers : View(p)' = View(p) /\ (~Stale(p)' => ~Stale(p))
  BY <1>1, <1>2, ConnOfIs DEF View, Stale
<1>6. conn' \in [Conns -> [mode : Modes, view : Tables \cup {None}]]
  BY <1>1, <1>2
<1>7. QED
  BY <1>1, <1>2, <1>4, <1>5, <1>6 DEF Undisturbed

\* A statement that is refused leaves the rows before it, of r only, to the
\* transaction.
LEMMA RefusedKeeps ==
  ASSUME TypeOK, ConnInv, NEW c \in Callers, NEW r \in Routes, NEW row \in Route, NEW ds \in SUBSET Dests,
         Refused(c, PutRoute(View(c), r, row, ds)), overlaid' = overlaid \cup {r}
  PROVE  /\ UNCHANGED db /\ conn' \in [Conns -> [mode : Modes, view : Tables \cup {None}]] /\ ConnInv'
         /\ \A o \in Conns \ {ConnOf(c)} : conn'[o] = conn[o]
         /\ \A o \in Callers : ~Stale(o)' => ~Stale(o)
<1> DEFINE half == PutRoute(View(c), r, row, ds)
<1>1. Writable(c) /\ UNCHANGED db /\ conn' = [conn EXCEPT ![ConnOf(c)] = [mode |-> "writing", view |-> half]]
      /\ ConnOf(c) \in Conns /\ conn \in [Conns -> [mode : Modes, view : Tables \cup {None}]]
  BY ConnOfIs DEF Refused, TypeOK
<1>2. ~Stale(c)
  BY <1>1 DEF Writable, Stale
<1>3. /\ half \in Tables /\ half.dest = db.dest /\ Rows(db) \subseteq Rows(half)
      /\ \A q \in Routes \ (overlaid \cup {r}) : half.route[q] = db.route[q] /\ half.link[q] = db.link[q]
  <2>1. View(c) \in Tables /\ row \in Route \cup {None} /\ row # None
    BY Sees
  <2>2. Rows(View(c)) \subseteq Rows(half)
    BY <2>1, PutRouteIs DEF Rows
  <2>3. QED
    BY <1>2, <2>1, <2>2, Sees, PutRouteIs
<1>4. /\ conn' \in [Conns -> [mode : Modes, view : Tables \cup {None}]]
      /\ conn'[ConnOf(c)].mode = "writing" /\ conn'[ConnOf(c)].view = half
      /\ \A o \in Conns \ {ConnOf(c)} : conn'[o] = conn[o]
  BY <1>1, <1>3 DEF Modes
<1>5. ConnOk(ConnOf(c))'
  BY <1>1, <1>3, <1>4 DEF ConnOk
<1>6. \A o \in Conns \ {ConnOf(c)} : ConnOk(o)'
  BY <1>1, <1>4 DEF ConnInv, ConnOk, Writable
<1>7. ConnInv'
  BY <1>1, <1>4, <1>5, <1>6 DEF ConnInv, Conns, Writable
<1>8. \A o \in Callers : ~Stale(o)' => ~Stale(o)
  BY <1>2, <1>4, ConnOfIs DEF Stale
<1>9. QED
  BY <1>1, <1>4, <1>7, <1>8

----------------------------------------------------------------------------
(* The calls. *)

LEMMA NoJobIs ==
  /\ NoJob \in Job /\ NoJob.op = "none" /\ NoJob.todo = {} /\ NoJob.keep = {} /\ NoJob.policy = NoPolicy
  /\ \A c \in Callers, l \in {"idle", "down"} : (l = "down" => c = "api") => CallOk(c, l, NoJob)
BY DEF NoJob, Job, CallOk, ApiCall, ToolCall, Callers

\* One caller moves.
LEMMA GotoIs ==
  ASSUME TypeOK, NEW c \in Callers, NEW l, NEW j, Goto(c, l, j)
  PROVE  /\ pc'[c] = l /\ job'[c] = j
         /\ \A o \in Callers \ {c} : pc'[o] = pc[o] /\ job'[o] = job[o]
         /\ l \in Labels => pc' \in [Callers -> Labels]
         /\ j \in Job => job' \in [Callers -> Job]
BY DEF Goto, TypeOK

LEMMA StopIs ==
  ASSUME NEW c \in Callers, Stop(c)
  PROVE  Goto(c, "idle", NoJob) /\ CallOk(c, "idle", NoJob) /\ "idle" \in Labels /\ NoJob \in Job
         /\ UrlOk(c, "idle", NoJob) /\ CopyOk(c, "idle", NoJob)
BY NoJobIs DEF Stop, Goto, Labels, UrlOk, CopyOk

LEMMA CallFrame ==
  ASSUME TypeOK, CallInv, NEW c \in Callers, NEW l, NEW j, Goto(c, l, j), CallOk(c, l, j)
  PROVE  CallInv'
BY GotoIs DEF CallInv

\* A destination that nobody writes keeps what is said of its URL.
LEMMA MarkerFrame ==
  ASSUME TypeOK, MarkerInv, NEW c \in Callers, NEW l, NEW j, Goto(c, l, j), UNCHANGED <<shown, moved>>,
         db'.dest = db.dest, \A o \in Callers : ~Stale(o)' => ~Stale(o),
         ~moved => UrlOk(c, l, j)
  PROVE  MarkerInv'
BY GotoIs DEF MarkerInv, UrlOk

\* The copies of the others, when no table changes ...
LEMMA CopyStays ==
  ASSUME TypeOK, CopyInv, NEW c \in Callers, NEW l, NEW j, Goto(c, l, j), UNCHANGED db, overlaid \subseteq overlaid',
         \A o \in Callers : ~Stale(o)' => ~Stale(o), CopyOk(c, l, j)
  PROVE  CopyInv'
<1>1. ASSUME NEW o \in Callers, NEW m, NEW k, CopyOk(o, m, k) PROVE CopyOk(o, m, k)'
  BY <1>1 DEF CopyOk
<1>2. QED
  BY <1>1, GotoIs DEF CopyInv

\* ... when c writes none of the rows they hold,
LEMMA CopyApart ==
  ASSUME TypeOK, CallInv, CopyInv, NEW c \in Callers, NEW l, NEW j, Goto(c, l, j),
         \A x : Held(c, x) /\ x \notin overlaid' =>
           /\ x \notin overlaid
           /\ x \in Routes => db'.route[x] = db.route[x] /\ db'.link[x] = db.link[x]
           /\ x \in Dests => db'.dest[x] = db.dest[x],
         \A o \in Callers : ~Stale(o)' => ~Stale(o), CopyOk(c, l, j)'
  PROVE  CopyInv'
<1>1. ASSUME NEW o \in Callers \ {c}, ~Stale(o)' PROVE CopyOk(o, pc[o], job[o])'
  <2>1. CallOk(o, pc[o], job[o]) /\ CopyOk(o, pc[o], job[o]) /\ ~Stale(o) /\ job[o] \in Job
    BY <1>1 DEF CallInv, CopyInv, TypeOK
  <2>2. \A x \in Holds(o) \ overlaid' :
          /\ x \notin overlaid
          /\ x \in Routes => db'.route[x] = db.route[x] /\ db'.link[x] = db.link[x]
          /\ x \in Dests => db'.dest[x] = db.dest[x]
    BY DEF Held
  <2>3. ASSUME pc[o] = "putdest", job[o].d \notin overlaid', job[o].keep # {}
        PROVE  db'.dest[job[o].d] # None /\ \A f \in job[o].keep : job[o].row[f] = db'.dest[job[o].d][f]
    <3>1. job[o].d \in Holds(o) /\ job[o].d \in Dests
      BY <2>1, <2>3 DEF CallOk, Holds
    <3>2. db'.dest[job[o].d] = db.dest[job[o].d] /\ job[o].d \notin overlaid
      BY <2>2, <2>3, <3>1
    <3>3. QED
      BY <2>1, <2>3, <3>2 DEF CopyOk
  <2>4. ASSUME o # "api", pc[o] \in {"links", "put"}, job[o].r \notin overlaid'
        PROVE  job[o].row = db'.route[job[o].r] /\ (pc[o] = "put" => job[o].links = db'.link[job[o].r])
    <3>1. job[o].r \in Holds(o) /\ job[o].r \in Routes
      BY <2>1, <2>4 DEF CallOk, ToolCall, Holds
    <3>2. /\ db'.route[job[o].r] = db.route[job[o].r] /\ db'.link[job[o].r] = db.link[job[o].r]
          /\ job[o].r \notin overlaid
      BY <2>2, <2>4, <3>1
    <3>3. QED
      BY <2>1, <2>4, <3>2 DEF CopyOk
  <2>5. ASSUME o = "api", pc[o] \in {"links", "sync"}
        PROVE  /\ \A r \in job[o].todo \ overlaid' : job[o].rows[r] = db'.route[r]
               /\ pc[o] = "sync" /\ job[o].r \notin overlaid' => job[o].links = db'.link[job[o].r]
    <3>1. Holds(o) = job[o].todo /\ job[o].todo \subseteq Routes /\ (pc[o] = "sync" => job[o].r \in job[o].todo)
      BY <2>1, <2>5 DEF CallOk, ApiCall, Holds, Job
    <3>2. \A r \in job[o].todo \ overlaid' : db'.route[r] = db.route[r] /\ db'.link[r] = db.link[r] /\ r \notin overlaid
      BY <2>2, <3>1
    <3>3. QED
      BY <2>1, <2>5, <3>1, <3>2 DEF CopyOk
  <2>6. pc'[o] = pc[o] /\ job'[o] = job[o]
    BY GotoIs
  <2>7. QED
    BY <2>3, <2>4, <2>5, <2>6 DEF CopyOk
<1>2. \A o \in Callers \ {c} : CopyOk(o, pc[o], job[o])'
  BY <1>1 DEF CopyOk
<1>3. QED
  BY <1>2, GotoIs DEF CopyInv

\* ... and when c writes the row k.
LEMMA CopyFrame ==
  ASSUME TypeOK, CallInv, CopyInv, NEW c \in Callers, NEW l, NEW j, Goto(c, l, j), NEW k,
         overlaid \subseteq overlaid' \cup {k}, Held(c, k) => k \in overlaid',
         \A r \in Routes \ (overlaid \cup {k}) : db'.route[r] = db.route[r] /\ db'.link[r] = db.link[r],
         \A d \in Dests \ {k} : db'.dest[d] = db.dest[d],
         \A o \in Callers : ~Stale(o)' => ~Stale(o), CopyOk(c, l, j)'
  PROVE  CopyInv'
<1>1. ASSUME NEW x, Held(c, x), x \notin overlaid'
      PROVE  /\ x \notin overlaid
             /\ x \in Routes => db'.route[x] = db.route[x] /\ db'.link[x] = db.link[x]
             /\ x \in Dests => db'.dest[x] = db.dest[x]
  BY <1>1
<1>2. QED
  BY <1>1, CopyApart

\* What the API has still to do is the same, and the tables are.
LEMMA MeantFrame ==
  ASSUME MeantInv, UNCHANGED <<db, want, overlaid>>,
         \A r \in Routes : Pending(pc["api"], job["api"], r)' <=> Pending(pc["api"], job["api"], r),
         Decided(pc["api"], job["api"])' => Decided(pc["api"], job["api"]) /\ job'["api"].policy = job["api"].policy
  PROVE  MeantInv'
BY DEF MeantInv, RouteOk, Rows

\* A call of a tool goes on, and changes nothing but itself and its connection.
LEMMA ToolQuiet ==
  ASSUME Inv, NEW t \in Tools, NEW l \in Labels, NEW j \in Job, Goto(t, l, j), Undisturbed, conn'["api"] = conn["api"],
         UNCHANGED <<file, index, shown, want, overlaid, moved, drifted>>,
         CallOk(t, l, j), ~moved => UrlOk(t, l, j), CopyOk(t, l, j)
  PROVE  Inv'
<1>1. t \in Callers /\ t # "api" /\ "api" \in Callers
  BY DEF Callers
<1>2. pc'["api"] = pc["api"] /\ job'["api"] = job["api"] /\ pc' \in [Callers -> Labels] /\ job' \in [Callers -> Job]
  BY <1>1, GotoIs DEF Inv
<1>3. TypeOK'
  BY <1>2 DEF Inv, TypeOK, Undisturbed
<1>4. StampInv'
  BY <1>2 DEF Inv, StampInv, StampOk
<1>5. CallInv' /\ MarkerInv' /\ CopyInv'
  BY <1>1, CallFrame, MarkerFrame, CopyStays DEF Inv, Undisturbed
<1>6. MeantInv'
  BY <1>2, MeantFrame DEF Inv, Undisturbed, Pending, Decided
<1>7. ManifestInv'
  <2>1. View("api")' = View("api") /\ (Stale("api")' <=> Stale("api"))
    BY <1>1, ConnOfIs DEF Undisturbed, Stale
  <2>2. QED
    BY <1>2, <2>1 DEF Inv, ManifestInv, ManifestOk, Undisturbed
<1>8. QED
  BY <1>3, <1>4, <1>5, <1>6, <1>7 DEF Inv, Undisturbed

\* A call of the API goes on, likewise.
LEMMA ApiQuiet ==
  ASSUME Inv, NEW l \in Labels, NEW j \in Job, Goto("api", l, j), Undisturbed, UNCHANGED <<shown, overlaid, moved>>,
         CallOk("api", l, j), ~moved => UrlOk("api", l, j), CopyOk("api", l, j),
         drifted' \in BOOLEAN, want' \in Tables, file' \in Manifest, index' \in [stamp : Nat, policy : Policies],
         StampInv', ManifestInv', MeantInv'
  PROVE  Inv'
<1>1. "api" \in Callers
  BY DEF Callers
<1>2. pc' \in [Callers -> Labels] /\ job' \in [Callers -> Job]
  BY <1>1, GotoIs DEF Inv
<1>3. TypeOK'
  BY <1>2 DEF Inv, TypeOK, Undisturbed, StampInv
<1>4. CallInv' /\ MarkerInv' /\ CopyInv'
  BY <1>1, CallFrame, MarkerFrame, CopyStays DEF Inv, Undisturbed
<1>5. QED
  BY <1>3, <1>4 DEF Inv, Undisturbed

----------------------------------------------------------------------------
(* The handlers of the API, up to what they write. *)

LEMMA ApiIsCaller == "api" \in Callers /\ ConnOf("api") = "api" /\ "api" \in Conns
BY DEF Callers, ConnOf, Conns

LEMMA CallIs ==
  ASSUME Inv, NEW c \in Callers, NEW l, NEW j, Call(c, l, j)
  PROVE  pc[c] = "idle" /\ job[c] = NoJob /\ Goto(c, l, j)
BY DEF Call, Inv, CallInv, CallOk

\* A call of the API that starts, or ends, without having written.
LEMMA ApiBetween ==
  ASSUME Inv, NEW l \in Labels, NEW j \in Job, Goto("api", l, j), Undisturbed,
         UNCHANGED <<file, index, shown, want, overlaid, moved, drifted>>,
         ~\E r \in Routes : Pending(pc["api"], job["api"], r), pc["api"] \notin {"collect", "write"},
         l \in {"idle", "upsert", "stat", "putdest"}, j.op \in {"none", "create", "dest"}, CallOk("api", l, j),
         ~moved => UrlOk("api", l, j), CopyOk("api", l, j), conn'["api"].mode = "writing" => conn["api"].mode = "writing"
  PROVE  Inv'
<1>1. pc'["api"] = l /\ job'["api"] = j
  BY ApiIsCaller, GotoIs DEF Inv
<1>2. StampInv'
  BY <1>1 DEF Inv, StampInv, StampOk
<1>3. ManifestInv'
  BY <1>1 DEF Inv, ManifestInv, ManifestOk, Undisturbed
<1>4. MeantInv'
  <2>1. (\A r \in Routes : ~Pending(l, j, r)) /\ ~Decided(l, j)
    BY DEF Pending, Decided
  <2>2. \A r \in Routes : ~Pending(pc["api"], job["api"], r)'
    BY <1>1, <2>1 DEF Pending
  <2>3. ~Decided(pc["api"], job["api"])'
    BY <1>1, <2>1 DEF Decided
  <2>4. QED
    BY <2>2, <2>3, MeantFrame DEF Inv, Undisturbed
<1>5. QED
  BY <1>2, <1>3, <1>4, ApiQuiet DEF Inv, TypeOK

\* Inv through the start of create_route.
LEMMA CreateRouteKeeps ==
  ASSUME Inv, CreateRoute
  PROVE  Inv'
<1>1. PICK r \in Routes, ds \in SUBSET Dests, given \in Policies \cup {None}, twice \in BOOLEAN :
        Call("api", IF given = None THEN "stat" ELSE "upsert",
             [NoJob EXCEPT !.op = "create", !.r = r, !.policy = IF given = None THEN NoPolicy ELSE given, !.links = ds, !.twice = twice])
  BY DEF CreateRoute
<1> DEFINE p == IF given = None THEN NoPolicy ELSE given
           l == IF given = None THEN "stat" ELSE "upsert"
           j == [NoJob EXCEPT !.op = "create", !.r = r, !.policy = p, !.links = ds, !.twice = twice]
<1>2. p \in Policies /\ l \in {"stat", "upsert"} /\ l \in Labels
  BY DEF Labels
<1>3. j \in Job /\ j.op = "create" /\ j.r = r /\ j.todo = {}
  BY <1>2, NoJobIs DEF Job
<1>4. pc["api"] = "idle" /\ job["api"] = NoJob /\ Goto("api", l, j)
  BY <1>1, ApiIsCaller, CallIs
<1>5. Undisturbed /\ UNCHANGED <<conn, file, index, shown, want, overlaid, moved, drifted>>
  BY SameConn DEF CreateRoute, Inv
<1>6. CallOk("api", l, j) /\ UrlOk("api", l, j) /\ CopyOk("api", l, j)
  BY <1>2, <1>3 DEF CallOk, ApiCall, UrlOk, CopyOk
<1>7. ~\E q \in Routes : Pending(pc["api"], job["api"], q)
  BY <1>4, NoJobIs DEF Pending
<1>8. QED
  BY <1>2, <1>3, <1>4, <1>5, <1>6, <1>7, ApiBetween

\* Inv through a look at the fingerprint of the manifest.
LEMMA StatKeeps ==
  ASSUME Inv, Stat
  PROVE  Inv'
<1> DEFINE J == job["api"]
           known == J.op = "create" /\ index.stamp = file.stamp
           l == IF known THEN "upsert" ELSE "build"
           j == IF known THEN [J EXCEPT !.policy = index.policy] ELSE [J EXCEPT !.stamp = file.stamp]
<1>1. pc["api"] = "stat" /\ Goto("api", l, j) /\ UNCHANGED <<db, conn, file, index, shown, want, overlaid, moved, drifted>>
  BY DEF Stat
<1>2. CallOk("api", "stat", J) /\ J \in Job /\ index.policy \in Policies /\ file.stamp \in Nat
  BY <1>1, ApiIsCaller DEF Inv, CallInv, TypeOK, Manifest
<1>3. /\ j \in Job /\ j.op = J.op /\ j.r = J.r /\ j.todo = J.todo /\ l \in Labels
      /\ ~known => j.policy = J.policy /\ j.stamp = file.stamp
  BY <1>2 DEF Job, Labels
<1>4. J.op \in {"create", "sync", "start"} /\ J.todo = {} /\ (J.op = "create" => J.r \in Routes)
  BY <1>2 DEF CallOk, ApiCall
<1>5. CallOk("api", l, j) /\ UrlOk("api", l, j) /\ CopyOk("api", l, j)
  BY <1>3, <1>4 DEF CallOk, ApiCall, UrlOk, CopyOk
<1>6. pc'["api"] = l /\ job'["api"] = j /\ Undisturbed
  BY <1>1, ApiIsCaller, GotoIs, SameConn DEF Inv
<1>7. StampInv'
  BY <1>1, <1>3, <1>6 DEF Inv, StampInv, StampOk, TypeOK, Manifest
<1>8. ManifestInv'
  BY <1>1, <1>6 DEF Inv, ManifestInv, ManifestOk
<1>9. MeantInv'
  <2>1. \A r \in Routes : Pending(l, j, r) <=> Pending("stat", J, r)
    BY <1>3, <1>4 DEF Pending
  <2>2. Decided(l, j) => Decided("stat", J) /\ j.policy = J.policy
    BY <1>3, <1>4 DEF Decided
  <2>3. \A r \in Routes : Pending(pc["api"], job["api"], r)' <=> Pending(pc["api"], job["api"], r)
    BY <1>1, <1>6, <2>1 DEF Pending
  <2>4. Decided(pc["api"], job["api"])' => Decided(pc["api"], job["api"]) /\ job'["api"].policy = job["api"].policy
    BY <1>1, <1>6, <2>2 DEF Decided
  <2>5. QED
    BY <1>1, <2>3, <2>4, MeantFrame DEF Inv
<1>10. QED
  BY <1>1, <1>3, <1>5, <1>6, <1>7, <1>8, <1>9, ApiQuiet DEF Inv, TypeOK

\* A policy is decided for all routes: by a call, or from the manifest when the
\* API starts.
LEMMA PolicyMeant ==
  ASSUME Inv, NEW p \in Policies, want' = PutPolicy(want, Routes, p), UNCHANGED <<db, overlaid>>,
         \A r \in Routes : Pending(pc["api"], job["api"], r)', job'["api"].policy = p
  PROVE  want' \in Tables /\ MeantInv'
<1>1. want \in Tables
  BY DEF Inv, TypeOK
<1>2. /\ want' \in Tables /\ want'.dest = want.dest /\ want'.link = want.link
      /\ \A r \in Routes : /\ want.route[r] = None => want'.route[r] = None
                           /\ want.route[r] # None => /\ want'.route[r] # None /\ want'.route[r].on = want.route[r].on
                                                      /\ want'.route[r].policy = p
  BY <1>1, PutPolicyIs
<1>3. ASSUME NEW r \in Routes \ overlaid PROVE RouteOk(pc["api"], job["api"], r)'
  <2>1. RouteOk(pc["api"], job["api"], r)
    BY DEF Inv, MeantInv
  <2>2. want.route[r] # None => want.route[r].on = db.route[r].on
    BY <2>1 DEF RouteOk
  <2>3. QED
    BY <1>2, <2>1, <2>2 DEF RouteOk, Rows
<1>4. QED
  BY <1>2, <1>3 DEF Inv, MeantInv

LEMMA ParsedTyped == ASSUME TypeOK PROVE Parsed \in Policies
BY DEF TypeOK, Manifest, Parsed

\* Inv through the parsing of the manifest.
LEMMA BuildKeeps ==
  ASSUME Inv, Build
  PROVE  Inv'
<1> DEFINE J == job["api"]
           l == IF J.op = "create" THEN "upsert" ELSE "list"
           j == IF J.op = "sync" THEN J ELSE [J EXCEPT !.policy = Parsed]
<1>1. CallOk("api", "build", J) /\ J \in Job /\ pc["api"] = "build" /\ J.stamp \in Nat
  BY ApiIsCaller DEF Build, Inv, CallInv, TypeOK, Job
<1>2. J.op \in {"create", "sync", "start"} /\ J.todo = {} /\ (J.op = "create" => J.r \in Routes)
  BY <1>1 DEF CallOk, ApiCall
<1>3. /\ Goto("api", l, j) /\ UNCHANGED <<db, conn, file, shown, overlaid, moved, drifted>>
      /\ index' = [stamp |-> J.stamp, policy |-> Parsed]
      /\ want' = IF J.op = "start" THEN PutPolicy(want, Routes, Parsed) ELSE want
  BY <1>2 DEF Build
<1>4. /\ j \in Job /\ j.op = J.op /\ j.r = J.r /\ j.todo = J.todo /\ l \in Labels
      /\ (J.op = "sync" => j.policy = J.policy) /\ (J.op = "start" => j.policy = Parsed)
  BY <1>1, <1>2, ParsedTyped DEF Job, Labels, Inv
<1>5. CallOk("api", l, j) /\ UrlOk("api", l, j) /\ CopyOk("api", l, j)
  BY <1>2, <1>4 DEF CallOk, ApiCall, UrlOk, CopyOk
<1>6. pc'["api"] = l /\ job'["api"] = j /\ Undisturbed
  BY <1>3, ApiIsCaller, GotoIs, SameConn DEF Inv
<1>7. index' \in [stamp : Nat, policy : Policies] /\ index'.stamp = J.stamp
  BY <1>1, <1>3, ParsedTyped DEF Inv
<1>8. StampInv'
  BY <1>1, <1>3, <1>6, <1>7 DEF Inv, StampInv, StampOk
<1>9. ManifestInv'
  BY <1>1, <1>3, <1>6 DEF Inv, ManifestInv, ManifestOk
<1>10. want' \in Tables /\ MeantInv'
  <2>1. CASE J.op = "start"
    <3>1. \A r \in Routes : Pending(pc["api"], job["api"], r)'
      BY <1>4, <1>6, <2>1 DEF Pending
    <3>2. job'["api"].policy = Parsed
      BY <1>6, <2>1
    <3>3. QED
      BY <1>3, <2>1, <3>1, <3>2, PolicyMeant, ParsedTyped DEF Inv
  <2>2. CASE J.op # "start"
    <3>1. \A r \in Routes : Pending(l, j, r) <=> Pending("build", J, r)
      BY <1>2, <1>4, <2>2 DEF Pending
    <3>2. Decided(l, j) => Decided("build", J) /\ j.policy = J.policy
      BY <1>2, <1>4, <2>2 DEF Decided
    <3>3. \A r \in Routes : Pending(pc["api"], job["api"], r)' <=> Pending(pc["api"], job["api"], r)
      BY <1>1, <1>6, <3>1 DEF Pending
    <3>4. Decided(pc["api"], job["api"])' => Decided(pc["api"], job["api"]) /\ job'["api"].policy = job["api"].policy
      BY <1>1, <1>6, <3>2 DEF Decided
    <3>5. QED
      BY <1>3, <2>2, <3>3, <3>4, MeantFrame DEF Inv, TypeOK
  <2>3. QED
    BY <2>1, <2>2
<1>11. QED
  BY <1>3, <1>4, <1>5, <1>6, <1>7, <1>8, <1>9, <1>10, ApiQuiet DEF Inv, TypeOK

\* The manifest is replaced.
LEMMA ReplaceIs ==
  ASSUME TypeOK, NEW doc \in Manifest, Replace(doc)
  PROVE  /\ file' \in Manifest /\ file'.stamp = file.stamp + 1 /\ file'.urls = doc.urls /\ file'.policy = doc.policy
         /\ file.stamp \in Nat /\ index.stamp \in Nat
BY DEF Replace, Manifest, TypeOK

\* Inv through the replacement of the policy in the manifest.
LEMMA UpdateConnectorKeeps ==
  ASSUME Inv, UpdateConnector
  PROVE  Inv'
<1>1. PICK p \in Policies \ {NoPolicy} :
        /\ Call("api", "stat", [NoJob EXCEPT !.op = "sync", !.policy = p])
        /\ Replace([file EXCEPT !.policy = p]) /\ want' = PutPolicy(want, Routes, p)
  BY DEF UpdateConnector
<1> DEFINE j == [NoJob EXCEPT !.op = "sync", !.policy = p]
<1>2. j \in Job /\ j.op = "sync" /\ j.policy = p /\ j.todo = {} /\ "stat" \in Labels
  BY NoJobIs DEF Job, Labels
<1>3. pc["api"] = "idle" /\ Goto("api", "stat", j) /\ UNCHANGED <<db, conn, index, shown, overlaid, moved, drifted>>
  BY <1>1, ApiIsCaller, CallIs DEF UpdateConnector
<1>4. CallOk("api", "stat", j) /\ UrlOk("api", "stat", j) /\ CopyOk("api", "stat", j)
  BY <1>2 DEF CallOk, ApiCall, UrlOk, CopyOk
<1>5. pc'["api"] = "stat" /\ job'["api"] = j /\ Undisturbed
  BY <1>3, ApiIsCaller, GotoIs, SameConn DEF Inv
<1>6. [file EXCEPT !.policy = p] \in Manifest /\ [file EXCEPT !.policy = p].urls = file.urls
  BY DEF Inv, TypeOK, Manifest
<1>7. file' \in Manifest /\ file'.stamp = file.stamp + 1 /\ file'.urls = file.urls /\ file.stamp \in Nat /\ index.stamp \in Nat
  BY <1>1, <1>6, ReplaceIs DEF Inv
<1>8. StampInv'
  BY <1>3, <1>5, <1>7 DEF Inv, StampInv, StampOk
<1>9. ManifestInv'
  BY <1>3, <1>5, <1>7 DEF Inv, ManifestInv, ManifestOk
<1>10. want' \in Tables /\ MeantInv'
  <2>1. \A r \in Routes : Pending(pc["api"], job["api"], r)'
    BY <1>2, <1>5 DEF Pending
  <2>2. QED
    BY <1>1, <1>2, <1>3, <1>5, <2>1, PolicyMeant
<1>11. QED
  BY <1>2, <1>3, <1>4, <1>5, <1>7, <1>8, <1>9, <1>10, ApiQuiet DEF Inv, TypeOK

\* A table without destinations that are bound has no URL that is: what is
\* bound are URLs.
LEMMA BoundTyped == ASSUME NEW t \in Tables PROVE Bound(t) \subseteq Url
<1>1. \A d : d \in UNION {t.link[r] : r \in Rows(t)} => d \in Dests
  BY DEF Tables, Rows
<1>2. \A d \in Dests : t.dest[d] # None => t.dest[d].url \in Url
  BY DEF Tables, Dest
<1>3. QED
  BY <1>1, <1>2 DEF Bound

\* Inv through the collection of the bindings for the manifest.
LEMMA CollectKeeps ==
  ASSUME Inv, Collect
  PROVE  Inv'
<1> DEFINE doc == [file EXCEPT !.urls = Bound(View("api"))]
           write == file.ok /\ file.urls # Bound(View("api"))
           l == IF write THEN "write" ELSE "idle"
           j == IF write THEN [NoJob EXCEPT !.op = "project", !.doc = doc] ELSE NoJob
<1>1. /\ pc["api"] = "collect" /\ UNCHANGED <<db, conn, file, index, shown, want, overlaid, moved>>
      /\ Goto("api", l, j) /\ drifted' = ~file.ok /\ file.ok \in BOOLEAN
  BY ApiIsCaller, StopIs DEF Collect, Reads, Inv, TypeOK, Manifest
<1>2. View("api") = db
  BY <1>1, ApiIsCaller, FreshIs DEF Inv, ManifestInv, ManifestOk, View
<1>3. doc \in Manifest /\ doc.urls = Bound(db)
  BY <1>2, BoundTyped DEF Inv, TypeOK, Manifest
<1>4. /\ j \in Job /\ l \in Labels /\ j.op \in {"none", "project"} /\ j.todo = {}
      /\ l = "write" => j.op = "project" /\ j.doc = doc
  BY <1>3, NoJobIs DEF Job, Labels
<1>5. CallOk("api", l, j) /\ UrlOk("api", l, j) /\ CopyOk("api", l, j)
  BY <1>3, <1>4, NoJobIs DEF CallOk, ApiCall, UrlOk, CopyOk
<1>6. pc'["api"] = l /\ job'["api"] = j /\ Undisturbed
  BY <1>1, ApiIsCaller, GotoIs, SameConn DEF Inv
<1>7. StampInv'
  BY <1>1, <1>6 DEF Inv, StampInv, StampOk
<1>8. ManifestInv'
  <2>1. conn["api"].mode # "writing"
    BY <1>1, FreshIs DEF Inv, ManifestInv, ManifestOk
  <2>2. ~drifted' => (l = "idle" => file.urls = Bound(db)) /\ (l = "write" => j.doc.urls = Bound(db))
    BY <1>1, <1>2, <1>3, <1>4
  <2>3. QED
    BY <1>1, <1>6, <2>1, <2>2 DEF ManifestInv, ManifestOk
<1>9. MeantInv'
  <2>1. job["api"].op \in {"create", "delete"}
    BY <1>1, ApiIsCaller DEF Inv, CallInv, CallOk, ApiCall
  <2>2. \A r \in Routes : ~Pending(pc["api"], job["api"], r)
    BY <1>1, <2>1 DEF Pending
  <2>3. \A r \in Routes : ~Pending(pc["api"], job["api"], r)'
    BY <1>4, <1>6 DEF Pending
  <2>4. ~Decided(pc["api"], job["api"])'
    BY <1>4, <1>6 DEF Decided
  <2>5. QED
    BY <1>1, <2>2, <2>3, <2>4, MeantFrame DEF Inv
<1>10. QED
  BY <1>1, <1>4, <1>5, <1>6, <1>7, <1>8, <1>9, ApiQuiet DEF Inv, TypeOK

\* Inv through the writing of the bindings into the manifest.
LEMMA WriteProjectionKeeps ==
  ASSUME Inv, WriteProjection
  PROVE  Inv'
<1>1. pc["api"] = "write" /\ Goto("api", "idle", NoJob) /\ UNCHANGED <<db, conn, index, shown, want, overlaid, moved>>
  BY ApiIsCaller, StopIs DEF WriteProjection
<1>2. job["api"].op = "project" /\ job["api"].doc \in Manifest
  BY <1>1, ApiIsCaller DEF Inv, CallInv, CallOk, ApiCall
<1>3. pc'["api"] = "idle" /\ job'["api"] = NoJob /\ Undisturbed
  BY <1>1, ApiIsCaller, GotoIs, SameConn DEF Inv
<1>4. /\ file' \in Manifest /\ file'.stamp >= file.stamp /\ file.stamp \in Nat /\ index.stamp \in Nat /\ file'.stamp \in Nat
      /\ (file'.urls = job["api"].doc.urls /\ drifted' = drifted) \/ (drifted' = TRUE)
  <2>1. CASE Replace(job["api"].doc) /\ UNCHANGED drifted
    BY <1>2, <2>1, ReplaceIs DEF Inv
  <2>2. CASE UNCHANGED file /\ drifted' = TRUE
    BY <2>2 DEF Inv, TypeOK, Manifest
  <2>3. QED
    BY <2>1, <2>2 DEF WriteProjection
<1>5. StampInv'
  BY <1>1, <1>3, <1>4 DEF Inv, StampInv, StampOk
<1>6. ManifestInv'
  BY <1>1, <1>3, <1>4 DEF Inv, ManifestInv, ManifestOk
<1>7. MeantInv'
  <2>1. \A r \in Routes : ~Pending(pc["api"], job["api"], r)
    BY <1>1, <1>2 DEF Pending
  <2>2. (\A r \in Routes : ~Pending(pc["api"], job["api"], r)') /\ ~Decided(pc["api"], job["api"])'
    BY <1>3, NoJobIs DEF Pending, Decided
  <2>3. QED
    BY <1>1, <2>1, <2>2, MeantFrame DEF Inv
<1>8. drifted' \in BOOLEAN
  BY <1>4 DEF Inv, TypeOK
<1>9. QED
  BY <1>1, <1>3, <1>4, <1>5, <1>6, <1>7, <1>8, ApiIsCaller, ApiQuiet, NoJobIs DEF Inv, TypeOK, Labels, UrlOk, CopyOk

\* Inv through the listing of the routes to synchronise.
LEMMA ListRoutesKeeps ==
  ASSUME Inv, ListRoutes
  PROVE  Inv'
<1> DEFINE J == job["api"]
           V == View("api")
           l == IF Rows(V) = {} THEN "idle" ELSE "links"
           j == IF Rows(V) = {} THEN NoJob ELSE [J EXCEPT !.rows = V.route, !.todo = Rows(V)]
           f == [r \in Routes |-> IF r \in Rows(V) THEN want.route[r] ELSE db.route[r]]
<1>1. /\ pc["api"] = "list" /\ UNCHANGED <<db, conn, file, index, shown, overlaid, moved, drifted>>
      /\ Goto("api", l, j) /\ want' = [want EXCEPT !.route = f]
  BY ApiIsCaller, StopIs DEF ListRoutes, Reads, Inv, TypeOK, Tables
<1>2. J.op \in {"sync", "start"} /\ J.todo = {} /\ J \in Job
  BY <1>1, ApiIsCaller DEF Inv, CallInv, CallOk, ApiCall, TypeOK
<1>3. V \in Tables /\ db \in Tables /\ want \in Tables
  BY ApiIsCaller, Sees DEF Inv, TypeOK
<1>4. Rows(V) \subseteq Routes /\ \A r \in Rows(V) : V.route[r] \in Route
  BY <1>3 DEF Rows, Tables
<1>5. f \in [Routes -> Route \cup {None}]
  BY <1>3 DEF Tables
<1>6. want' \in Tables /\ want'.route = f /\ want'.link = want.link /\ want'.dest = want.dest
  BY <1>1, <1>3, <1>5 DEF Tables
<1>7. /\ j \in Job /\ l \in Labels
      /\ Rows(V) = {} => j.op = "none" /\ j.todo = {}
      /\ Rows(V) # {} => j.op = J.op /\ j.policy = J.policy /\ j.todo = Rows(V) /\ j.rows = V.route
  <2>1. ASSUME Rows(V) # {}
        PROVE  LET k == [J EXCEPT !.rows = V.route, !.todo = Rows(V)]
               IN  k \in Job /\ k.op = J.op /\ k.policy = J.policy /\ k.todo = Rows(V) /\ k.rows = V.route
    <3>1. V.route \in [Routes -> Route \cup {None}] /\ Rows(V) \in SUBSET Routes
      BY <1>3, <1>4 DEF Tables
    <3>2. QED
      BY <1>2, <3>1 DEF Job
  <2>2. QED
    BY <2>1, NoJobIs DEF Labels
<1>8. CallOk("api", l, j) /\ UrlOk("api", l, j)
  BY <1>2, <1>4, <1>7, ApiIsCaller, NoJobIs DEF CallOk, ApiCall, UrlOk
<1>9. CopyOk("api", l, j)
  BY <1>4, <1>7, ApiIsCaller, Sees DEF CopyOk, Inv
<1>10. pc'["api"] = l /\ job'["api"] = j /\ Undisturbed
  BY <1>1, ApiIsCaller, GotoIs, SameConn DEF Inv
<1>11. StampInv'
  BY <1>1, <1>10 DEF Inv, StampInv, StampOk
<1>12. ManifestInv'
  BY <1>1, <1>7, <1>10, ApiIsCaller DEF Inv, ManifestInv, ManifestOk, Undisturbed
<1>13. MeantInv'
  <2>1. ASSUME NEW r \in Routes \ overlaid PROVE RouteOk(pc["api"], job["api"], r)'
    <3>1. RouteOk("list", J, r) /\ Pending("list", J, r) /\ Decided("list", J)
      BY <1>1, <1>2 DEF Inv, MeantInv, Pending, Decided
    <3>2. CASE r \in Rows(V)
      <4>1. want'.route[r] = want.route[r] /\ Pending("links", j, r) /\ j.policy = J.policy /\ l = "links"
        BY <1>2, <1>6, <1>7, <3>2 DEF Pending
      <4>2. QED
        BY <1>1, <1>6, <1>10, <3>1, <4>1 DEF RouteOk, Rows
    <3>3. CASE r \notin Rows(V)
      <4>1. want'.route[r] = db.route[r] /\ ~Pending(l, j, r)
        BY <1>6, <1>7, <3>3 DEF Pending
      <4>2. QED
        BY <1>1, <1>6, <1>10, <3>1, <4>1 DEF RouteOk, Rows
    <3>4. QED
      BY <3>2, <3>3
  <2>2. QED
    BY <1>1, <1>6, <2>1 DEF Inv, MeantInv
<1>14. QED
  BY <1>1, <1>6, <1>7, <1>8, <1>9, <1>10, <1>11, <1>12, <1>13, ApiQuiet DEF Inv, TypeOK

\* Inv through the reading of the bindings of a route.
LEMMA ReadBindingsKeeps ==
  ASSUME Inv, ReadBindings
  PROVE  Inv'
<1>1. /\ pc["api"] = "links" /\ UNCHANGED <<db, conn, file, index, shown, want, overlaid, moved, drifted>>
      /\ \E r \in job["api"].todo : Goto("api", "sync", [job["api"] EXCEPT !.r = r, !.links = View("api").link[r]])
  BY DEF ReadBindings, Reads
<1> DEFINE J == job["api"]
<1>2. /\ J.op \in {"sync", "start"} /\ J \in Job /\ View("api") \in Tables
      /\ \A q \in J.todo : J.rows[q] \in Route
  BY <1>1, ApiIsCaller, Sees DEF Inv, CallInv, CallOk, ApiCall, TypeOK
<1>3. PICK r \in J.todo : Goto("api", "sync", [J EXCEPT !.r = r, !.links = View("api").link[r]])
  BY <1>1
<1> DEFINE j == [J EXCEPT !.r = r, !.links = View("api").link[r]]
<1>4. r \in Routes /\ View("api").link[r] \in SUBSET Dests
  BY <1>2 DEF Job, Tables
<1>5. /\ j \in Job /\ j.op = J.op /\ j.todo = J.todo /\ j.rows = J.rows /\ j.policy = J.policy /\ "sync" \in Labels
      /\ j.r = r /\ j.links = View("api").link[r]
  BY <1>2, <1>4 DEF Job, Labels
<1>6. CallOk("api", "sync", j) /\ UrlOk("api", "sync", j)
  BY <1>2, <1>5 DEF CallOk, ApiCall, UrlOk
<1>7. CopyOk("api", "sync", j)
  BY <1>1, <1>4, <1>5, ApiIsCaller, Sees DEF CopyOk, Inv, CopyInv
<1>8. pc'["api"] = "sync" /\ job'["api"] = j /\ Undisturbed
  BY <1>1, <1>3, ApiIsCaller, GotoIs, SameConn DEF Inv
<1>9. StampInv'
  BY <1>1, <1>8 DEF Inv, StampInv, StampOk
<1>10. ManifestInv'
  <2>1. ~drifted /\ ~Stale("api") => j.links = db.link[j.r]
    BY <1>5, ApiIsCaller, Sees DEF Inv, ManifestInv
  <2>2. (Stale("api")' <=> Stale("api")) /\ View("api")' = View("api")
    BY <1>1, <1>8, ApiIsCaller DEF Undisturbed, Stale
  <2>3. QED
    BY <1>1, <1>5, <1>8, <2>1, <2>2 DEF Inv, ManifestInv, ManifestOk
<1>11. MeantInv'
  <2>1. \A q \in Routes : Pending(pc["api"], job["api"], q)' <=> Pending(pc["api"], job["api"], q)
    BY <1>1, <1>5, <1>8 DEF Pending
  <2>2. Decided(pc["api"], job["api"])' => Decided(pc["api"], job["api"]) /\ job'["api"].policy = job["api"].policy
    BY <1>1, <1>5, <1>8 DEF Decided
  <2>3. QED
    BY <1>1, <2>1, <2>2, MeantFrame DEF Inv
<1>12. QED
  BY <1>1, <1>3, <1>5, <1>6, <1>7, <1>8, <1>9, <1>10, <1>11, ApiQuiet DEF Inv, TypeOK

----------------------------------------------------------------------------
(* A destination is read, and what is to be written is put together. *)

\* A client that echoes what it was shown of the URL, or sends another, does
\* not store the marker.
LEMMA RestoreIs ==
  ASSUME NEW old \in Url, old[2] # Marker,
         NEW u \in (Shapes \X Secrets) \cup {Redact(old), old}
  PROVE  Restore(old, u) \in Url /\ Restore(old, u)[2] # Marker
BY DEF Restore, Redact, Url

LEMMA RestoreTyped ==
  ASSUME NEW old \in Url, NEW u \in Url
  PROVE  Restore(old, u) \in Url
BY DEF Restore

\* The row d of a destination goes to be written, by the API or by a tool.
LEMMA DestCall ==
  ASSUME Inv, NEW c \in Callers, NEW j \in Job, j.op = "dest", j.d \in Dests, j.row \in Dest, Call(c, "putdest", j),
         UNCHANGED <<db, conn, file, index, shown, want, overlaid, moved, drifted>>,
         ~moved /\ ~Stale(c) => j.row.url[2] # Marker,
         j.keep # {} => View(c).dest[j.d] # None /\ \A f \in j.keep : j.row[f] = View(c).dest[j.d][f]
  PROVE  Inv'
<1>1. "putdest" \in Labels /\ pc[c] = "idle" /\ job[c] = NoJob /\ Goto(c, "putdest", j)
  BY CallIs DEF Labels
<1>2. Undisturbed
  BY SameConn DEF Inv
<1>3. CallOk(c, "putdest", j) /\ (~moved => UrlOk(c, "putdest", j))
  BY DEF CallOk, ApiCall, ToolCall, UrlOk
<1>4. CopyOk(c, "putdest", j)
  BY Sees DEF CopyOk, Inv
<1>5. CASE c \in Tools
  BY <1>1, <1>2, <1>3, <1>4, <1>5, ToolQuiet
<1>6. CASE c = "api"
  <2>1. ~\E q \in Routes : Pending(pc["api"], job["api"], q)
    BY <1>1, <1>6, NoJobIs DEF Pending
  <2>2. QED
    BY <1>1, <1>2, <1>3, <1>4, <1>6, <2>1, ApiBetween
<1>7. QED
  BY <1>5, <1>6 DEF Callers

\* ... of a destination that is new to the caller,
LEMMA NewDestKeeps ==
  ASSUME Inv, NEW c \in Callers, NEW d \in Dests, NEW u \in Shapes \X Secrets, NewDest(c, d, u)
  PROVE  Inv'
<1> DEFINE row == [on |-> TRUE, url |-> u]
           j == [NoJob EXCEPT !.op = "dest", !.d = d, !.row = row]
<1>1. /\ row \in Dest /\ row.url[2] # Marker
      /\ UNCHANGED <<db, conn, file, index, shown, want, overlaid, moved, drifted>>
  BY DEF Dest, Url, NewDest, Reads
<1>2. j \in Job /\ j.op = "dest" /\ j.d = d /\ j.row = row /\ j.keep = {}
  BY <1>1, NoJobIs DEF Job
<1>3. Call(c, "putdest", j)
  BY DEF NewDest
<1>4. QED
  BY <1>1, <1>2, <1>3, DestCall

\* ... or of one that is edited.
LEMMA EditDestKeeps ==
  ASSUME Inv, NEW c \in Callers, NEW d \in Existing(c), NEW on \in BOOLEAN, NEW u \in Sent(c, d),
         NEW url \in {View(c).dest[d].url, Restore(View(c).dest[d].url, u)}, EditDest(c, d, [on |-> on, url |-> url])
  PROVE  Inv'
<1> DEFINE old == View(c).dest[d]
           new == [on |-> on, url |-> url]
           keep == {f \in {"on", "url"} : old[f] = new[f]}
           j == [NoJob EXCEPT !.op = "dest", !.d = d, !.row = new, !.keep = keep]
<1>1. d \in Dests /\ old \in Dest /\ old # None /\ old.url \in Url
  BY Sees DEF Existing, Inv, Tables, Dest
<1>2. u \in Url
  BY <1>1 DEF Sent, Inv, TypeOK, Url
<1>3. new \in Dest /\ new.url = url
  BY <1>1, <1>2, RestoreTyped DEF Dest
<1>4. UNCHANGED <<db, conn, file, index, shown, want, overlaid, moved, drifted>> /\ Call(c, "putdest", j)
  BY DEF EditDest, Reads
<1>5. ASSUME ~moved, ~Stale(c) PROVE new.url[2] # Marker
  <2>1. old = db.dest[d] /\ db.dest[d] # None
    BY <1>1, <1>5, Sees DEF Inv
  <2>2. old.url[2] # Marker /\ (shown[d] # None => shown[d] = Redact(old.url))
    BY <1>1, <1>5, <2>1 DEF Inv, MarkerInv
  <2>3. u \in (Shapes \X Secrets) \cup {Redact(old.url), old.url}
    BY <1>1, <2>2 DEF Sent
  <2>4. QED
    BY <1>1, <1>3, <2>2, <2>3, RestoreIs
<1>6. keep \in SUBSET {"on", "url"} /\ \A f \in keep : new[f] = old[f]
  OBVIOUS
<1>7. j \in Job /\ j.op = "dest" /\ j.d = d /\ j.row = new /\ j.keep = keep
  <2> HIDE DEF new, keep, old
  <2>1. QED
    BY <1>1, <1>3, <1>6, NoJobIs DEF Job
<1>8. QED
  <2> HIDE DEF new, keep, j
  <2>1. \A f \in keep : j.row[f] = View(c).dest[d][f]
    BY <1>6, <1>7
  <2>2. ~moved /\ ~Stale(c) => j.row.url[2] # Marker
    BY <1>5, <1>7
  <2>3. j \in Job /\ j.op = "dest" /\ j.d \in Dests /\ j.row \in Dest /\ Call(c, "putdest", j)
    BY <1>1, <1>3, <1>4, <1>7
  <2>4. View(c).dest[j.d] # None /\ \A f \in j.keep : j.row[f] = View(c).dest[j.d][f]
    BY <1>1, <1>7, <2>1
  <2>5. QED
    BY <1>4, <2>2, <2>3, <2>4, DestCall

\* Inv through create_webhook and update_webhook of the API.
LEMMA ApiWebhookKeeps ==
  ASSUME Inv, CreateWebhook \/ UpdateWebhook
  PROVE  Inv'
BY ApiIsCaller, NewDestKeeps, EditDestKeeps DEF CreateWebhook, UpdateWebhook

\* Inv through the tools that change a destination.
LEMMA OutboundKeeps ==
  ASSUME Inv, NEW t \in Tools, CreateOutbound(t) \/ UpdateOutbound(t) \/ EnableOutbound(t)
  PROVE  Inv'
<1>1. t \in Callers
  BY DEF Callers
<1>2. CASE CreateOutbound(t) \/ UpdateOutbound(t)
  BY <1>1, <1>2, NewDestKeeps, EditDestKeeps DEF CreateOutbound, UpdateOutbound
<1>3. CASE EnableOutbound(t)
  <2>1. PICK d \in Existing(t), on \in BOOLEAN : EditDest(t, d, [on |-> on, url |-> View(t).dest[d].url])
    BY <1>3 DEF EnableOutbound
  <2>2. View(t).dest[d].url \in Sent(t, d)
    <3>1. View(t).dest[d].url # None
      BY <1>1, Sees DEF Existing, Inv, Tables, Dest
    <3>2. QED
      BY <3>1 DEF Sent
  <2>3. QED
    BY <1>1, <2>1, <2>2, EditDestKeeps
<1>4. QED
  BY <1>2, <1>3

----------------------------------------------------------------------------
(* Steps of everybody else, and of tools before they write. *)

\* A step in which no call goes on.
LEMMA Standing ==
  ASSUME Inv, UNCHANGED <<pc, job, shown, want, overlaid, moved, drifted, index>>, Undisturbed,
         file' \in Manifest, file'.stamp >= file.stamp, file'.urls = file.urls,
         pc["api"] = "collect" => (conn["api"] = Fresh => conn'["api"] = Fresh)
  PROVE  Inv'
<1> DEFINE l == pc["api"]
           j == job["api"]
<1>1. l \in Labels /\ j \in Job /\ Goto("api", l, j)
  BY ApiIsCaller DEF Inv, TypeOK, Goto
<1>2. CallOk("api", l, j) /\ (~moved => UrlOk("api", l, j)) /\ CopyOk("api", l, j)
  BY ApiIsCaller DEF Inv, CallInv, MarkerInv, CopyInv
<1>3. StampInv'
  <2>1. file.stamp \in Nat /\ file'.stamp \in Nat /\ index.stamp \in Nat /\ j.stamp \in Nat
    BY ApiIsCaller DEF Inv, TypeOK, Manifest, Job
  <2>2. QED
    BY <2>1 DEF Inv, StampInv, StampOk
<1>4. ManifestInv'
  BY ApiIsCaller DEF Inv, ManifestInv, ManifestOk, Undisturbed
<1>5. MeantInv'
  BY MeantFrame DEF Inv, Undisturbed, Pending, Decided
<1>6. QED
  BY <1>1, <1>2, <1>3, <1>4, <1>5, ApiQuiet DEF Inv, TypeOK

\* Inv through reads of anybody and writes of the worker.
LEMMA SelectWorkerKeeps ==
  ASSUME Inv, WorkerWrite \/ \E o \in Conns : Select(o)
  PROVE  Inv'
<1>1. Undisturbed /\ \A p \in Conns : conn[p] = Fresh => conn'[p] = Fresh
  BY SelectKeeps, WorkerKeeps DEF Inv
<1>2. UNCHANGED <<pc, job, shown, want, overlaid, moved, drifted, index, file>>
  BY DEF WorkerWrite, Select
<1>3. file \in Manifest /\ file.stamp \in Nat
  BY DEF Inv, TypeOK, Manifest
<1>4. QED
  BY <1>1, <1>2, <1>3, ApiIsCaller, Standing

\* Inv through an edit of the manifest by hand.
LEMMA EditManifestKeeps ==
  ASSUME Inv, EditManifest
  PROVE  Inv'
<1>1. PICK p \in Policies, ok \in BOOLEAN : Replace([file EXCEPT !.policy = p, !.ok = ok])
  BY DEF EditManifest
<1>2. [file EXCEPT !.policy = p, !.ok = ok] \in Manifest /\ [file EXCEPT !.policy = p, !.ok = ok].urls = file.urls
  BY DEF Inv, TypeOK, Manifest
<1>3. file' \in Manifest /\ file'.stamp >= file.stamp /\ file'.urls = file.urls
  <2>1. file' \in Manifest /\ file'.stamp = file.stamp + 1 /\ file'.urls = file.urls /\ file.stamp \in Nat
    BY <1>1, <1>2, ReplaceIs DEF Inv
  <2>2. QED
    BY <2>1
<1>4. Undisturbed /\ UNCHANGED <<conn, pc, job, shown, want, overlaid, moved, drifted, index>>
  BY SameConn DEF EditManifest, Inv
<1>5. QED
  BY <1>3, <1>4, Standing

\* Inv through the showing of a destination to a client.
LEMMA ShowDestKeeps ==
  ASSUME Inv, ShowDest
  PROVE  Inv'
<1>1. PICK d \in Dests :
        /\ View("api").dest[d] # None /\ shown' = [shown EXCEPT ![d] = Redact(View("api").dest[d].url)]
        /\ moved' = (moved \/ (db.dest[d] # None /\ shown'[d] # Redact(db.dest[d].url)))
        /\ UNCHANGED <<db, conn, file, index, pc, job, want, overlaid, drifted>>
  BY DEF ShowDest
<1>2. View("api").dest[d].url \in Url
  BY <1>1, ApiIsCaller, Sees DEF Inv, Tables, Dest
<1>3. Redact(View("api").dest[d].url) \in Url
  BY <1>2 DEF Redact, Url
<1>4. shown' \in [Dests -> Url \cup {None}] /\ moved' \in BOOLEAN /\ \A e \in Dests \ {d} : shown'[e] = shown[e]
  BY <1>1, <1>3 DEF Inv, TypeOK
<1>5. TypeOK'
  BY <1>1, <1>4 DEF Inv, TypeOK
<1>6. Undisturbed
  BY <1>1, SameConn DEF Inv
<1>7. MarkerInv'
  BY <1>1, <1>4 DEF Inv, MarkerInv, UrlOk, Stale
<1>8. CallInv' /\ StampInv'
  BY <1>1 DEF Inv, CallInv, StampInv, StampOk
<1>9. ManifestInv'
  BY <1>1, <1>6, ApiIsCaller DEF Inv, ManifestInv, ManifestOk, Undisturbed
<1>10. MeantInv'
  BY <1>1, MeantFrame DEF Inv, Pending, Decided
<1>11. CopyInv'
  BY <1>1, <1>6 DEF Inv, CopyInv, CopyOk, Undisturbed
<1>12. QED
  BY <1>5, <1>6, <1>7, <1>8, <1>9, <1>10, <1>11 DEF Inv, Undisturbed

\* Inv through what a tool reads before it writes.
LEMMA ToolReads ==
  ASSUME Inv, NEW t \in Tools, ToolRoute(t) \/ ToolEnable(t) \/ ToolBindings(t)
  PROVE  Inv'
<1>1. t \in Callers /\ t # "api"
  BY DEF Callers
<1>2. Undisturbed /\ UNCHANGED <<db, conn, file, index, shown, want, overlaid, moved, drifted>>
  BY SameConn DEF Inv, ToolRoute, ToolEnable, ToolBindings, Reads
<1>3. CASE ToolRoute(t)
  <2>1. PICK r \in Routes, ds \in SUBSET Dests \ {{}}, p \in Policies, twice \in BOOLEAN :
          Call(t, "upsert", [NoJob EXCEPT !.op = "create", !.r = r, !.policy = p, !.links = ds, !.twice = twice])
    BY <1>3 DEF ToolRoute
  <2> DEFINE j == [NoJob EXCEPT !.op = "create", !.r = r, !.policy = p, !.links = ds, !.twice = twice]
  <2>2. j \in Job /\ j.op = "create" /\ j.r = r /\ "upsert" \in Labels
    BY NoJobIs DEF Job, Labels
  <2>3. CallOk(t, "upsert", j) /\ UrlOk(t, "upsert", j) /\ CopyOk(t, "upsert", j)
    BY <1>1, <2>2 DEF CallOk, ToolCall, UrlOk, CopyOk
  <2>4. Goto(t, "upsert", j)
    BY <1>1, <2>1, CallIs
  <2>5. QED
    BY <1>2, <2>2, <2>3, <2>4, ToolQuiet
<1>4. CASE ToolEnable(t)
  <2>1. PICK r \in Rows(View(t)), on \in BOOLEAN :
          Call(t, "links", [NoJob EXCEPT !.op = "enable", !.r = r, !.on = on, !.row = View(t).route[r]])
    BY <1>4 DEF ToolEnable
  <2> DEFINE j == [NoJob EXCEPT !.op = "enable", !.r = r, !.on = on, !.row = View(t).route[r]]
  <2>2. r \in Routes /\ View(t).route[r] \in Route
    BY <1>1, Sees DEF Rows, Tables, Inv
  <2>3. j \in Job /\ j.op = "enable" /\ j.r = r /\ j.row = View(t).route[r] /\ "links" \in Labels
    BY <2>2, NoJobIs DEF Job, Labels
  <2>4. CallOk(t, "links", j) /\ UrlOk(t, "links", j)
    BY <1>1, <2>2, <2>3 DEF CallOk, ToolCall, UrlOk
  <2>5. CopyOk(t, "links", j)
    BY <1>1, <2>2, <2>3, Sees DEF CopyOk, Inv
  <2>6. Goto(t, "links", j)
    BY <1>1, <2>1, CallIs
  <2>7. QED
    BY <1>2, <2>3, <2>4, <2>5, <2>6, ToolQuiet
<1>5. CASE ToolBindings(t)
  <2> DEFINE J == job[t]
             j == [J EXCEPT !.links = View(t).link[J.r]]
  <2>1. pc[t] = "links" /\ Goto(t, "put", j)
    BY <1>5 DEF ToolBindings
  <2>2. J \in Job /\ J.op = "enable" /\ J.r \in Routes /\ J.row \in Route /\ View(t) \in Tables /\ CopyOk(t, "links", J)
    BY <1>1, <2>1, Sees DEF Inv, TypeOK, CallInv, CallOk, ToolCall, CopyInv
  <2>3. View(t).link[J.r] \in SUBSET Dests
    BY <2>2 DEF Tables
  <2>4. /\ j \in Job /\ j.op = "enable" /\ j.r = J.r /\ j.row = J.row /\ "put" \in Labels
        /\ j.links = View(t).link[J.r]
    BY <2>2, <2>3 DEF Job, Labels
  <2>5. CallOk(t, "put", j) /\ UrlOk(t, "put", j)
    BY <1>1, <2>2, <2>4 DEF CallOk, ToolCall, UrlOk
  <2>6. CopyOk(t, "put", j)
    BY <1>1, <2>2, <2>4, Sees DEF CopyOk, Inv
  <2>7. QED
    BY <1>2, <2>1, <2>4, <2>5, <2>6, ToolQuiet
<1>6. QED
  BY <1>3, <1>4, <1>5

\* Inv through the end of the API process.
LEMMA CrashKeeps ==
  ASSUME Inv, Crash
  PROVE  Inv'
<1>1. /\ conn' = [o \in Conns |-> Fresh] /\ pc' = [c \in Callers |-> IF c = "api" THEN "down" ELSE "idle"]
      /\ job' = [c \in Callers |-> NoJob] /\ index' = [stamp |-> 0, policy |-> NoPolicy]
      /\ drifted' = (drifted \/ pc["api"] \in {"collect", "write"})
      /\ UNCHANGED <<db, file, shown, want, overlaid, moved>>
  BY DEF Crash
<1>2. \A o \in Conns : conn'[o].mode = "idle" /\ conn'[o].view = None
  BY <1>1, FreshIs
<1>3. ConnInv'
  BY <1>2 DEF ConnInv, ConnOk, Conns
<1>4. \A c \in Callers : pc'[c] \in {"idle", "down"} /\ job'[c] = NoJob /\ (pc'[c] = "down" <=> c = "api")
  BY <1>1
<1>5. TypeOK'
  <2>1. pc' \in [Callers -> Labels] /\ job' \in [Callers -> Job]
    BY <1>1, NoJobIs DEF Labels
  <2>2. conn' \in [Conns -> [mode : Modes, view : Tables \cup {None}]]
    BY <1>1, FreshIs
  <2>3. drifted' \in BOOLEAN /\ index' \in [stamp : Nat, policy : Policies] /\ index'.stamp <= file'.stamp
    BY <1>1 DEF Inv, TypeOK, Manifest
  <2>4. QED
    BY <1>1, <2>1, <2>2, <2>3 DEF Inv, TypeOK
<1>6. CallInv'
  BY <1>4, NoJobIs DEF CallInv
<1>7. StampInv'
  BY <1>1, <1>4, ApiIsCaller DEF Inv, StampInv, StampOk, TypeOK, Manifest
<1>8. MarkerInv'
  BY <1>1, <1>4 DEF Inv, MarkerInv, UrlOk
<1>9. ManifestInv'
  BY <1>1, <1>2, <1>4, ApiIsCaller DEF Inv, ManifestInv, ManifestOk
<1>10. MeantInv'
  <2>1. pc'["api"] = "down" /\ job'["api"].op = "none"
    BY <1>4, ApiIsCaller, NoJobIs
  <2>2. \A r \in Routes : Pending(pc["api"], job["api"], r)' /\ ~Decided(pc["api"], job["api"])'
    BY <2>1 DEF Pending, Decided
  <2>3. QED
    BY <1>1, <2>2 DEF Inv, MeantInv, RouteOk, Rows
<1>11. CopyInv'
  BY <1>4 DEF CopyInv, CopyOk
<1>12. QED
  BY <1>3, <1>5, <1>6, <1>7, <1>8, <1>9, <1>10, <1>11 DEF Inv

\* Inv through its restart.
LEMMA RestartKeeps ==
  ASSUME Inv, Restart
  PROVE  Inv'
<1> DEFINE j == [NoJob EXCEPT !.op = "start"]
<1>1. pc["api"] = "down" /\ Goto("api", "stat", j) /\ UNCHANGED <<db, conn, file, index, shown, want, overlaid, moved, drifted>>
  BY DEF Restart
<1>2. j \in Job /\ j.op = "start" /\ j.todo = {} /\ "stat" \in Labels
  BY NoJobIs DEF Job, Labels
<1>3. CallOk("api", "stat", j) /\ UrlOk("api", "stat", j) /\ CopyOk("api", "stat", j)
  BY <1>2 DEF CallOk, ApiCall, UrlOk, CopyOk
<1>4. pc'["api"] = "stat" /\ job'["api"] = j /\ Undisturbed
  BY <1>1, ApiIsCaller, GotoIs, SameConn DEF Inv
<1>5. StampInv'
  BY <1>1, <1>4 DEF Inv, StampInv, StampOk
<1>6. ManifestInv'
  BY <1>1, <1>4 DEF Inv, ManifestInv, ManifestOk
<1>7. MeantInv'
  BY <1>1, <1>2, <1>4, MeantFrame DEF Inv, Pending, Decided
<1>8. QED
  BY <1>1, <1>2, <1>3, <1>4, <1>5, <1>6, <1>7, ApiQuiet DEF Inv, TypeOK

----------------------------------------------------------------------------
(* The steps that write. *)

\* What the API has still to do does not change by a step of a tool, nor of a
\* call that has no policy to hand out.
LEMMA StillPending ==
  ASSUME Inv, NEW c \in Callers, NEW l, NEW j, Goto(c, l, j),
         c = "api" => (\A r \in Routes : ~Pending(pc["api"], job["api"], r)) /\ j.op \notin {"sync", "start"} /\ l # "down"
  PROVE  /\ \A r \in Routes : Pending(pc["api"], job["api"], r)' <=> Pending(pc["api"], job["api"], r)
         /\ Decided(pc["api"], job["api"])' => Decided(pc["api"], job["api"]) /\ job'["api"].policy = job["api"].policy
<1>1. CASE c = "api"
  <2>1. pc'["api"] = l /\ job'["api"] = j
    BY <1>1, GotoIs DEF Inv
  <2>2. QED
    BY <1>1, <2>1 DEF Pending, Decided
<1>2. CASE c # "api"
  <2>1. pc'["api"] = pc["api"] /\ job'["api"] = job["api"]
    BY <1>2, GotoIs, ApiIsCaller DEF Inv
  <2>2. QED
    BY <2>1 DEF Pending, Decided
<1>3. QED
  BY <1>1, <1>2

\* Who is to be given a policy that is known is held by the API.
LEMMA PendingIsHeld ==
  ASSUME Inv, NEW t \in Tools, NEW r \in Routes, Pending(pc["api"], job["api"], r), Decided(pc["api"], job["api"])
  PROVE  Held(t, r)
<1>1. t \in Callers /\ t # "api"
  BY DEF Callers
<1>2. CallOk("api", pc["api"], job["api"]) /\ pc["api"] \in Labels
  BY ApiIsCaller DEF Inv, CallInv, TypeOK
<1>3. job["api"].op \in {"sync", "start"}
  BY DEF Decided
<1>4. pc["api"] # "down"
  BY <1>2, <1>3, NoJobIs DEF CallOk
<1>5. pc["api"] \in {"stat", "build", "list"} \/ r \in job["api"].todo
  BY <1>4 DEF Pending
<1>6. r \in Holds("api")
  BY <1>2, <1>3, <1>5, NoJobIs DEF Holds, CallOk, ApiCall
<1>7. QED
  BY <1>1, <1>6, ApiIsCaller DEF Held

\* A tool that commits has changed the bindings of which the manifest knows
\* nothing, or none.
LEMMA ToolCommit ==
  ASSUME Inv, NEW t \in Tools, NEW new \in Tables, Commit(t, new), pc'["api"] = pc["api"], job'["api"] = job["api"],
         UNCHANGED file, drifted' = TRUE \/ (new = db /\ UNCHANGED drifted), Rows(View(t)) \subseteq Rows(new)
  PROVE  ManifestInv'
<1>1. t \in Callers
  BY ApiIsCaller DEF Callers
<1>2. /\ db' = new /\ ~Stale(t) /\ (conn["api"] = Fresh => conn'["api"] = Fresh) /\ conn'["api"].mode # "writing"
      /\ ~Stale("api")' => ~Stale("api") /\ View("api")' = db'
  BY <1>1, CommitKeeps, ApiIsCaller DEF Inv
<1>3. conn["api"].mode # "writing"
  BY <1>1, ApiIsCaller, ConnOfIs DEF Commit, Writable
<1>4. ~Stale("api") => View("api") = db
  BY <1>3, ApiIsCaller, Sees DEF Inv
<1>5. Rows(db) \subseteq Rows(new)
  BY <1>1, <1>2, Sees DEF Inv
<1>6. ~Stale("api")' /\ pc["api"] \in {"links", "sync"} => job["api"].todo \subseteq Rows(View("api")')
  BY <1>2, <1>4, <1>5 DEF Inv, ManifestInv, ManifestOk
<1>7. Rows(View("api"))' = Rows(View("api")')
  BY DEF Rows
<1>8. CASE drifted' = TRUE
  BY <1>2, <1>6, <1>7, <1>8 DEF Inv, ManifestInv, ManifestOk
<1>9. CASE new = db /\ UNCHANGED drifted
  BY <1>2, <1>6, <1>7, <1>9 DEF Inv, ManifestInv, ManifestOk
<1>10. QED
  BY <1>8, <1>9

\* Inv through writes of events, deliveries and hooks.
LEMMA OtherWriteKeeps ==
  ASSUME Inv, NEW o \in Conns, OtherWrite(o)
  PROVE  Inv'
<1>1. PICK c \in Callers : ConnOf(c) = o /\ (Commit(c, View(c)) \/ Locked(c))
  BY DEF OtherWrite
<1>2. /\ UNCHANGED <<file, index, pc, job, shown, want, overlaid, moved>> /\ (o = "api" => pc["api"] = "idle")
      /\ drifted' = (drifted \/ conn[o].mode = "writing")
  BY DEF OtherWrite
<1>3. CASE Locked(c)
  <2>1. Undisturbed /\ \A p \in Conns \ {o} : conn'[p] = conn[p]
    BY <1>1, <1>2, <1>3, LockedKeeps DEF Inv
  <2>2. CASE ~drifted /\ conn[o].mode = "writing"
    <3>1. o # "api"
      BY <2>2 DEF Inv, ManifestInv
    <3>2. ManifestInv'
      BY <1>2, <2>1, <3>1, ApiIsCaller DEF Inv, ManifestInv, ManifestOk, Undisturbed
    <3>3. Goto("api", pc["api"], job["api"]) /\ pc["api"] \in Labels /\ job["api"] \in Job
      BY <1>2, ApiIsCaller DEF Inv, TypeOK, Goto
    <3>4. CallOk("api", pc["api"], job["api"]) /\ (~moved => UrlOk("api", pc["api"], job["api"])) /\ CopyOk("api", pc["api"], job["api"])
      BY ApiIsCaller DEF Inv, CallInv, MarkerInv, CopyInv
    <3>5. StampInv' /\ MeantInv'
      BY <1>2, <2>1, MeantFrame DEF Inv, StampInv, StampOk, Undisturbed, Pending, Decided
    <3>6. QED
      BY <1>2, <2>1, <3>2, <3>3, <3>4, <3>5, ApiQuiet DEF Inv, TypeOK
  <2>3. CASE drifted \/ conn[o].mode # "writing"
    <3>1. UNCHANGED drifted
      BY <1>2, <2>3 DEF Inv, TypeOK
    <3>2. pc["api"] = "collect" => (conn["api"] = Fresh => conn'["api"] = Fresh)
      BY <1>2, <2>1, ApiIsCaller
    <3>3. file \in Manifest /\ file.stamp \in Nat
      BY DEF Inv, TypeOK, Manifest
    <3>4. QED
      BY <1>2, <2>1, <3>1, <3>2, <3>3, Standing
  <2>4. QED
    BY <2>2, <2>3
<1>4. CASE Commit(c, View(c))
  <2>1. View(c) \in Tables /\ ~Stale(c) /\ Writable(c)
    BY <1>4, Sees DEF Inv, Commit, Writable, Stale
  <2>2. /\ View(c).dest = db.dest /\ Rows(db) \subseteq Rows(View(c))
        /\ \A r \in Routes \ overlaid : View(c).route[r] = db.route[r] /\ View(c).link[r] = db.link[r]
        /\ conn[o].mode # "writing" => View(c) = db
    BY <1>1, <2>1, Sees DEF Inv
  <2>3. /\ db' = View(c) /\ conn' \in [Conns -> [mode : Modes, view : Tables \cup {None}]] /\ ConnInv'
        /\ \A p \in Callers : ~Stale(p)' => ~Stale(p) /\ View(p)' = db'
        /\ conn["api"] = Fresh => conn'["api"] = Fresh
        /\ conn'["api"].mode # "writing"
    BY <1>4, <2>1, CommitKeeps, ApiIsCaller DEF Inv
  <2>4. TypeOK'
    BY <1>2, <2>1, <2>3 DEF Inv, TypeOK
  <2>5. CallInv' /\ StampInv'
    BY <1>2 DEF Inv, CallInv, StampInv, StampOk
  <2>6. MarkerInv'
    BY <1>2, <2>2, <2>3 DEF Inv, MarkerInv, UrlOk
  <2>7. MeantInv'
    <3>1. ASSUME NEW r \in Routes \ overlaid PROVE RouteOk(pc["api"], job["api"], r)'
      <4>1. db'.route[r] = db.route[r] /\ db'.link[r] = db.link[r] /\ RouteOk(pc["api"], job["api"], r)
        BY <2>2, <2>3 DEF Inv, MeantInv
      <4>2. QED
        BY <1>2, <4>1 DEF RouteOk, Rows, Pending, Decided
    <3>2. QED
      BY <1>2, <2>2, <2>3, <3>1 DEF Inv, MeantInv
  <2>8. CopyInv'
    <3>1. ASSUME NEW p \in Callers, ~Stale(p)' PROVE CopyOk(p, pc[p], job[p])'
      <4>1. CallOk(p, pc[p], job[p]) /\ CopyOk(p, pc[p], job[p]) /\ ~Stale(p) /\ job[p] \in Job
        BY <2>3, <3>1 DEF Inv, CallInv, CopyInv, TypeOK
      <4>2. p = "api" /\ pc[p] \in {"links", "sync"} => job[p].todo \subseteq Routes /\ (pc[p] = "sync" => job[p].r \in job[p].todo)
        BY <4>1 DEF CallOk, ApiCall, Job
      <4>3. p # "api" /\ pc[p] \in {"links", "put"} => job[p].r \in Routes
        BY <4>1 DEF CallOk, ToolCall
      <4>4. QED
        BY <1>2, <2>2, <2>3, <4>1, <4>2, <4>3 DEF CopyOk
    <3>2. QED
      BY <3>1 DEF CopyInv, CopyOk
  <2>9. ManifestInv'
    <3>1. CASE c = "api"
      <4>1. pc["api"] = "idle"
        BY <1>1, <1>2, <3>1, ApiIsCaller
      <4>2. ~drifted' => ~drifted /\ db' = db
        BY <1>2, <2>2, <2>3
      <4>3. QED
        BY <1>2, <2>3, <4>1, <4>2 DEF Inv, ManifestInv, ManifestOk
    <3>2. CASE c \in Tools
      <4>1. drifted' = TRUE \/ (View(c) = db /\ UNCHANGED drifted)
        BY <1>2, <2>2 DEF Inv, TypeOK
      <4>2. QED
        BY <1>2, <1>4, <2>1, <3>2, <4>1, ToolCommit
    <3>3. QED
      BY <3>1, <3>2 DEF Callers
  <2>10. QED
    BY <2>3, <2>4, <2>5, <2>6, <2>7, <2>8, <2>9 DEF Inv
<1>5. QED
  BY <1>1, <1>3, <1>4

\* A call that finds the database locked ends, and nothing has changed.
LEMMA GiveUp ==
  ASSUME Inv, NEW c \in Callers, Goto(c, "idle", NoJob), Locked(c),
         UNCHANGED <<file, index, shown, want, overlaid, moved, drifted>>,
         c = "api" => (\A r \in Routes : ~Pending(pc["api"], job["api"], r)) /\ pc["api"] \notin {"collect", "write"}
  PROVE  Inv'
<1>1. Undisturbed /\ \A o \in Conns \ {ConnOf(c)} : conn'[o] = conn[o]
  BY LockedKeeps DEF Inv
<1>2. /\ CallOk(c, "idle", NoJob) /\ UrlOk(c, "idle", NoJob) /\ CopyOk(c, "idle", NoJob)
      /\ "idle" \in Labels /\ NoJob \in Job /\ NoJob.op = "none"
  BY NoJobIs DEF UrlOk, CopyOk, Labels
<1>3. CASE c = "api"
  BY <1>1, <1>2, <1>3, ApiIsCaller, ApiBetween DEF Undisturbed
<1>4. CASE c \in Tools
  <2>1. conn'["api"] = conn["api"]
    BY <1>1, <1>4, ApiIsCaller, ConnOfIs
  <2>2. QED
    BY <1>1, <1>2, <1>4, <2>1, ToolQuiet
<1>5. QED
  BY <1>3, <1>4 DEF Callers

\* The row r of a route is written, by the API or a tool, and the call goes on.
LEMMA RouteCommit ==
  ASSUME Inv, NEW c \in Callers, NEW new \in Tables, Commit(c, new), NEW r \in Routes, new.dest = View(c).dest,
         \A q \in Routes \ {r} : new.route[q] = View(c).route[q] /\ new.link[q] = View(c).link[q]
  PROVE  /\ db' = new /\ db'.dest = db.dest /\ ~Stale(c) /\ View(c) \in Tables /\ Rows(db) \subseteq Rows(View(c))
         /\ \A q \in Routes \ (overlaid \cup {r}) : db'.route[q] = db.route[q] /\ db'.link[q] = db.link[q]
<1>1. db' = new /\ ~Stale(c)
  BY CommitKeeps DEF Inv
<1>2. QED
  BY <1>1, Sees DEF Inv

\* Inv through a commit that changes one route.
LEMMA RouteWritten ==
  ASSUME Inv, NEW c \in Callers, NEW new \in Tables, Commit(c, new), NEW r \in Routes, new.dest = View(c).dest,
         \A q \in Routes \ {r} : new.route[q] = View(c).route[q] /\ new.link[q] = View(c).link[q],
         NEW l \in Labels, NEW j \in Job, Goto(c, l, j), CallOk(c, l, j), UrlOk(c, l, j), CopyOk(c, l, j)',
         UNCHANGED <<shown, moved, file, index>>, overlaid' \subseteq overlaid \cup {r},
         overlaid \subseteq overlaid' \cup {r}, Held(c, r) => r \in overlaid',
         want' \in Tables, drifted' \in BOOLEAN, ManifestInv', c = "api" => l # "build",
         want'.dest = want.dest,
         \A q \in Routes \ (overlaid' \cup {r}) : RouteOk(pc["api"], job["api"], q)',
         r \notin overlaid' => RouteOk(pc["api"], job["api"], r)'
  PROVE  Inv'
<1>1. /\ db' = new /\ db'.dest = db.dest
      /\ \A q \in Routes \ (overlaid \cup {r}) : db'.route[q] = db.route[q] /\ db'.link[q] = db.link[q]
  BY RouteCommit
<1>2. /\ conn' \in [Conns -> [mode : Modes, view : Tables \cup {None}]] /\ ConnInv'
      /\ \A o \in Callers : ~Stale(o)' => ~Stale(o)
  BY CommitKeeps DEF Inv
<1>3. pc' \in [Callers -> Labels] /\ job' \in [Callers -> Job]
  BY GotoIs DEF Inv
<1>4. TypeOK'
  BY <1>1, <1>2, <1>3 DEF Inv, TypeOK
<1>5. CallInv'
  BY CallFrame DEF Inv
<1>6. MarkerInv'
  BY <1>1, <1>2, MarkerFrame DEF Inv
<1>7. CopyInv'
  BY <1>1, <1>2, CopyFrame DEF Inv
<1>8. StampInv'
  <2>1. CASE c = "api"
    <3>1. pc'["api"] = l /\ l # "build"
      BY <2>1, GotoIs DEF Inv
    <3>2. QED
      BY <3>1 DEF Inv, StampInv, StampOk
  <2>2. CASE c # "api"
    <3>1. pc'["api"] = pc["api"] /\ job'["api"] = job["api"]
      BY <2>2, ApiIsCaller, GotoIs DEF Inv
    <3>2. QED
      BY <3>1 DEF Inv, StampInv, StampOk
  <2>3. QED
    BY <2>1, <2>2
<1>9. MeantInv'
  <2>1. \A q \in Routes \ overlaid' : RouteOk(pc["api"], job["api"], q)'
    OBVIOUS
  <2>2. \A d \in Dests \ overlaid' : db'.dest[d] = want'.dest[d]
    <3>1. \A d \in Dests : d # r
      OBVIOUS
    <3>2. QED
      BY <1>1, <3>1 DEF Inv, MeantInv
  <2>3. QED
    BY <2>1, <2>2 DEF MeantInv
<1>10. QED
  BY <1>2, <1>4, <1>5, <1>6, <1>7, <1>8, <1>9 DEF Inv

\* A row that is neither written nor meant anew is what it was.
LEMMA RouteStays ==
  ASSUME MeantInv, NEW r \in Routes \ overlaid,
         db'.route[r] = db.route[r], db'.link[r] = db.link[r], want'.route[r] = want.route[r], want'.link[r] = want.link[r],
         Pending(pc["api"], job["api"], r)' <=> Pending(pc["api"], job["api"], r),
         Decided(pc["api"], job["api"])' /\ Pending(pc["api"], job["api"], r)' =>
           Decided(pc["api"], job["api"]) /\ job'["api"].policy = job["api"].policy
  PROVE  RouteOk(pc["api"], job["api"], r)'
<1>1. RouteOk(pc["api"], job["api"], r)
  BY DEF MeantInv
<1>2. QED
  BY <1>1 DEF RouteOk, Rows

\* Inv through upsert_route, committed, refused or locked out.
LEMMA UpsertRouteKeeps ==
  ASSUME Inv, NEW c \in Callers, NEW l, l = IF c = "api" THEN "collect" ELSE "idle", UpsertRoute(c, l)
  PROVE  Inv'
<1> DEFINE J == job[c]
           row == [on |-> J.on, policy |-> J.policy]
<1>1. pc[c] = "upsert" /\ UNCHANGED <<file, index, shown, moved>>
  BY DEF UpsertRoute
<1>2. J.op = "create" /\ J.r \in Routes /\ J \in Job
  BY <1>1 DEF Inv, CallInv, CallOk, TypeOK
<1> PICK r \in Routes : r = J.r
  BY <1>2
<1>3. row \in Route /\ row # None /\ row \in Route \cup {None} /\ J.links \in SUBSET Dests
  BY <1>2 DEF Job, Route
<1>4. c = "api" => (\A q \in Routes : ~Pending(pc["api"], job["api"], q)) /\ pc["api"] \notin {"collect", "write"}
  BY <1>1, <1>2 DEF Pending
<1>5. View(c) \in Tables /\ want \in Tables
  BY Sees DEF Inv, TypeOK
<1>6. CASE ~J.twice /\ Commit(c, PutRoute(View(c), J.r, row, J.links)) /\ want' = PutRoute(want, J.r, row, J.links)
           /\ WritesAll(c, J.r) /\ Drifts(c) /\ (IF l = "idle" THEN Stop(c) ELSE Goto(c, l, J))
  <2> DEFINE new == PutRoute(View(c), J.r, row, J.links)
  <2> PICK j \in Job : j = IF c = "api" THEN J ELSE NoJob
    BY <1>2, NoJobIs
  <2>1. Goto(c, l, j) /\ j \in Job /\ l \in Labels /\ j.op \notin {"sync", "start"} /\ l \notin {"down", "build"}
    BY <1>2, <1>6, StopIs, NoJobIs DEF Labels
  <2>2. CallOk(c, l, j) /\ UrlOk(c, l, j) /\ CopyOk(c, l, j)'
    BY <1>2, NoJobIs DEF CallOk, ApiCall, ToolCall, UrlOk, CopyOk
  <2>3. /\ new \in Tables /\ new.dest = View(c).dest /\ new.route[r] = row /\ new.link[r] = J.links
        /\ \A q \in Routes \ {r} : new.route[q] = View(c).route[q] /\ new.link[q] = View(c).link[q]
    BY <1>2, <1>3, <1>5, PutRouteIs
  <2>4. /\ want' \in Tables /\ want'.dest = want.dest /\ want'.route[r] = row /\ want'.link[r] = J.links
        /\ \A q \in Routes \ {r} : want'.route[q] = want.route[q] /\ want'.link[q] = want.link[q]
    BY <1>2, <1>3, <1>5, <1>6, PutRouteIs
  <2>5. overlaid' \subseteq overlaid \cup {r} /\ overlaid \subseteq overlaid' \cup {r} /\ (Held(c, r) => r \in overlaid')
        /\ (r \notin overlaid' => ~Held(c, r))
    BY <1>6 DEF WritesAll
  <2>6. db' = new /\ \A q \in Routes \ (overlaid \cup {r}) : db'.route[q] = db.route[q] /\ db'.link[q] = db.link[q]
    <3> HIDE DEF new
    <3>1. QED
      BY <1>2, <1>6, <2>3, RouteCommit DEF new
  <2>7. /\ \A q \in Routes : Pending(pc["api"], job["api"], q)' <=> Pending(pc["api"], job["api"], q)
        /\ Decided(pc["api"], job["api"])' => Decided(pc["api"], job["api"]) /\ job'["api"].policy = job["api"].policy
    BY <1>4, <2>1, StillPending
  <2>8. \A q \in Routes \ (overlaid' \cup {r}) : RouteOk(pc["api"], job["api"], q)'
    BY <2>4, <2>5, <2>6, <2>7, RouteStays DEF Inv
  <2>9. ASSUME r \notin overlaid' PROVE RouteOk(pc["api"], job["api"], r)'
    <3>1. db'.route[r] = row /\ db'.link[r] = J.links /\ want'.route[r] = row /\ want'.link[r] = J.links
      BY <2>3, <2>4, <2>6
    <3>2. ~(Pending(pc["api"], job["api"], r) /\ Decided(pc["api"], job["api"]))
      BY <1>2, <1>4, <2>5, <2>9, PendingIsHeld DEF Callers
    <3>3. ~(Pending(pc["api"], job["api"], r)' /\ Decided(pc["api"], job["api"])')
      BY <1>2, <2>7, <3>2
    <3>4. QED
      BY <3>1, <3>3 DEF RouteOk, Rows
  <2>10. ManifestInv'
    <3>1. CASE c = "api"
      <4>1. conn'["api"] = Fresh /\ pc'["api"] = "collect"
        BY <1>6, <2>1, <2>3, <3>1, ApiIsCaller, CommitKeeps, GotoIs DEF Inv
      <4>2. QED
        BY <4>1, FreshIs DEF ManifestInv, ManifestOk
    <3>2. CASE c \in Tools
      <4>1. drifted' = TRUE /\ pc'["api"] = pc["api"] /\ job'["api"] = job["api"]
        BY <1>6, <2>1, <3>2, ApiIsCaller, GotoIs DEF Drifts, Inv
      <4>2. Rows(View(c)) \subseteq Rows(new)
        BY <1>3, <2>3 DEF Rows
      <4>3. QED
        BY <1>1, <1>6, <2>3, <3>2, <4>1, <4>2, ToolCommit
    <3>3. QED
      BY <3>1, <3>2 DEF Callers
  <2>11. drifted' \in BOOLEAN
    BY <1>6 DEF Drifts
  <2>12. Commit(c, new) /\ (c = "api" => l # "build")
    BY <1>6, <2>1
  <2>13. QED
    <3> HIDE DEF new
    <3>1. QED
      BY <1>1, <2>1, <2>2, <2>3, <2>4, <2>5, <2>8, <2>9, <2>10, <2>11, <2>12, RouteWritten
<1>7. ASSUME NEW some \in SUBSET J.links, Refused(c, PutRoute(View(c), J.r, row, some)),
             overlaid' = overlaid \cup {r}, drifted' = TRUE, Stop(c), UNCHANGED want
      PROVE  Inv'
  <2>1. Goto(c, "idle", NoJob) /\ CallOk(c, "idle", NoJob) /\ UrlOk(c, "idle", NoJob) /\ CopyOk(c, "idle", NoJob)
        /\ "idle" \in Labels /\ NoJob \in Job /\ NoJob.op = "none"
    BY <1>7, StopIs, NoJobIs
  <2>2. /\ UNCHANGED db /\ conn' \in [Conns -> [mode : Modes, view : Tables \cup {None}]] /\ ConnInv'
        /\ \A o \in Conns \ {ConnOf(c)} : conn'[o] = conn[o]
        /\ \A o \in Callers : ~Stale(o)' => ~Stale(o)
    <3>1. some \in SUBSET Dests
      BY <1>3
    <3>2. QED
      BY <1>2, <1>3, <1>7, <3>1, RefusedKeeps DEF Inv
  <2>3. TypeOK'
    <3>1. pc' \in [Callers -> Labels] /\ job' \in [Callers -> Job]
      BY <2>1, GotoIs DEF Inv
    <3>2. QED
      BY <1>1, <1>2, <1>7, <2>2, <3>1 DEF Inv, TypeOK
  <2>4. CallInv' /\ MarkerInv' /\ CopyInv'
    <3>1. CallInv'
      BY <2>1, CallFrame DEF Inv
    <3>2. MarkerInv'
      BY <1>1, <2>1, <2>2, MarkerFrame DEF Inv
    <3>3. CopyInv'
      BY <1>7, <2>1, <2>2, CopyStays DEF Inv
    <3>4. QED
      BY <3>1, <3>2, <3>3
  <2>5. MeantInv'
    <3>1. /\ \A q \in Routes : Pending(pc["api"], job["api"], q)' <=> Pending(pc["api"], job["api"], q)
          /\ Decided(pc["api"], job["api"])' => Decided(pc["api"], job["api"]) /\ job'["api"].policy = job["api"].policy
      BY <1>4, <2>1, StillPending
    <3>2. \A q \in Routes \ overlaid' : RouteOk(pc["api"], job["api"], q)'
      BY <1>7, <2>2, <3>1, RouteStays DEF Inv
    <3>3. QED
      BY <1>7, <2>2, <3>2 DEF Inv, MeantInv
  <2>6. CASE c = "api"
    <3>1. pc'["api"] = "idle"
      BY <2>1, <2>6, GotoIs DEF Inv
    <3>2. StampInv' /\ ManifestInv'
      BY <1>1, <1>7, <3>1 DEF Inv, StampInv, StampOk, ManifestInv, ManifestOk
    <3>3. QED
      BY <2>2, <2>3, <2>4, <2>5, <3>2 DEF Inv
  <2>7. CASE c \in Tools
    <3>1. pc'["api"] = pc["api"] /\ job'["api"] = job["api"] /\ conn'["api"] = conn["api"]
      BY <2>1, <2>2, <2>7, ApiIsCaller, GotoIs, ConnOfIs DEF Inv
    <3>2. StampInv'
      BY <1>1, <3>1 DEF Inv, StampInv, StampOk
    <3>3. View("api")' = View("api") /\ (Stale("api")' <=> Stale("api"))
      BY <2>2, <3>1, ApiIsCaller DEF View, Stale
    <3>4. ManifestInv'
      BY <1>7, <3>1, <3>3 DEF Inv, ManifestInv, ManifestOk
    <3>5. QED
      BY <2>2, <2>3, <2>4, <2>5, <3>2, <3>4 DEF Inv
  <2>8. QED
    BY <2>6, <2>7 DEF Callers
<1>8. CASE Locked(c) /\ Stop(c) /\ UNCHANGED <<want, overlaid, drifted, faults>>
  BY <1>1, <1>4, <1>8, StopIs, GiveUp
<1>9. QED
  BY <1>6, <1>7, <1>8 DEF UpsertRoute

\* Inv through delete_route.
LEMMA DeleteRouteKeeps ==
  ASSUME Inv, DeleteRoute
  PROVE  Inv'
<1>1. PICK r \in Rows(View("api")) :
        \/ /\ Commit("api", [View("api") EXCEPT !.route[r] = None])
           /\ want' = [want EXCEPT !.route[r] = None]
           /\ WritesAll("api", r)
           /\ Call("api", "collect", [NoJob EXCEPT !.op = "delete"])
        \/ Locked("api") /\ Call("api", "idle", NoJob) /\ UNCHANGED <<want, overlaid>>
  BY DEF DeleteRoute
<1>2. r \in Routes /\ View("api") \in Tables /\ want \in Tables /\ UNCHANGED <<file, index, shown, moved, drifted>>
  BY ApiIsCaller, Sees DEF Inv, TypeOK, DeleteRoute, Rows
<1>3. pc["api"] = "idle" /\ job["api"] = NoJob
  BY <1>1, ApiIsCaller, CallIs
<1>4. (\A q \in Routes : ~Pending(pc["api"], job["api"], q)) /\ pc["api"] \notin {"collect", "write"}
  BY <1>3, NoJobIs DEF Pending
<1>5. CASE /\ Commit("api", [View("api") EXCEPT !.route[r] = None])
           /\ want' = [want EXCEPT !.route[r] = None]
           /\ WritesAll("api", r)
           /\ Call("api", "collect", [NoJob EXCEPT !.op = "delete"])
  <2> DEFINE new == [View("api") EXCEPT !.route[r] = None]
  <2> PICK j \in Job : j = [NoJob EXCEPT !.op = "delete"]
    BY NoJobIs DEF Job
  <2>1. Goto("api", "collect", j) /\ j.op = "delete" /\ "collect" \in Labels
    BY <1>5, ApiIsCaller, CallIs, NoJobIs DEF Labels, NoJob
  <2>2. CallOk("api", "collect", j) /\ UrlOk("api", "collect", j) /\ CopyOk("api", "collect", j)'
    BY <2>1 DEF CallOk, ApiCall, UrlOk, CopyOk
  <2>3. /\ new \in Tables /\ new.dest = View("api").dest /\ new.route[r] = None /\ new.link = View("api").link
        /\ \A q \in Routes \ {r} : new.route[q] = View("api").route[q] /\ new.link[q] = View("api").link[q]
    BY <1>2, DropRouteIs
  <2>4. /\ want' \in Tables /\ want'.dest = want.dest /\ want'.route[r] = None
        /\ \A q \in Routes \ {r} : want'.route[q] = want.route[q] /\ want'.link[q] = want.link[q]
    BY <1>2, <1>5, DropRouteIs
  <2>5. overlaid' \subseteq overlaid \cup {r} /\ overlaid \subseteq overlaid' \cup {r} /\ (Held("api", r) => r \in overlaid')
    BY <1>5 DEF WritesAll
  <2>6. Commit("api", new)
    BY <1>5
  <2> HIDE DEF new
  <2>7. db' = new /\ \A q \in Routes \ (overlaid \cup {r}) : db'.route[q] = db.route[q] /\ db'.link[q] = db.link[q]
    BY <1>2, <2>3, <2>6, ApiIsCaller, RouteCommit
  <2>8. /\ \A q \in Routes : Pending(pc["api"], job["api"], q)' <=> Pending(pc["api"], job["api"], q)
        /\ Decided(pc["api"], job["api"])' => Decided(pc["api"], job["api"]) /\ job'["api"].policy = job["api"].policy
    BY <1>4, <2>1, ApiIsCaller, StillPending
  <2>9. \A q \in Routes \ (overlaid' \cup {r}) : RouteOk(pc["api"], job["api"], q)'
    BY <2>4, <2>5, <2>7, <2>8, RouteStays DEF Inv
  <2>10. RouteOk(pc["api"], job["api"], r)'
    BY <1>4, <2>3, <2>4, <2>7, <2>8 DEF RouteOk, Rows
  <2>11. ManifestInv'
    <3>1. conn'["api"] = Fresh /\ pc'["api"] = "collect"
      BY <2>1, <2>3, <2>6, ApiIsCaller, CommitKeeps, GotoIs DEF Inv
    <3>2. QED
      BY <3>1, FreshIs DEF ManifestInv, ManifestOk
  <2>12. drifted' \in BOOLEAN
    BY <1>2 DEF Inv, TypeOK
  <2>13. QED
    BY <1>2, <2>1, <2>2, <2>3, <2>4, <2>5, <2>6, <2>9, <2>10, <2>11, <2>12, ApiIsCaller, RouteWritten
<1>6. CASE Locked("api") /\ Call("api", "idle", NoJob) /\ UNCHANGED <<want, overlaid>>
  BY <1>2, <1>4, <1>6, ApiIsCaller, CallIs, GiveUp
<1>7. QED
  BY <1>1, <1>5, <1>6

\* Where a route is switched on or off, the rest of its row and its bindings
\* are what they were.
LEMMA ToolPutKeeps ==
  ASSUME Inv, NEW t \in Tools, ToolPut(t)
  PROVE  Inv'
<1> DEFINE J == job[t]
           row == [J.row EXCEPT !.on = J.on]
<1>1. t \in Callers /\ t # "api" /\ pc[t] = "put" /\ Stop(t) /\ UNCHANGED <<file, index, shown, moved>>
  BY DEF ToolPut, Callers
<1>2. J.r \in Routes /\ J.row \in Route /\ J.op = "enable" /\ J \in Job
  BY <1>1 DEF Inv, CallInv, CallOk, ToolCall, TypeOK
<1> PICK r \in Routes : r = J.r
  BY <1>2
<1>3. row \in Route /\ row # None /\ row \in Route \cup {None} /\ J.links \in SUBSET Dests /\ J.on \in BOOLEAN
      /\ row.on = J.on /\ row.policy = J.row.policy
  BY <1>2 DEF Job, Route
<1>4. View(t) \in Tables /\ want \in Tables
  BY <1>1, Sees DEF Inv, TypeOK
<1>5. CASE /\ Commit(t, PutRoute(View(t), J.r, row, J.links))
           /\ want' = IF want.route[J.r] = None THEN want ELSE [want EXCEPT !.route[J.r].on = J.on]
           /\ WritesPart(t, J.r) /\ drifted' = TRUE
  <2> DEFINE new == PutRoute(View(t), J.r, row, J.links)
  <2>1. Goto(t, "idle", NoJob) /\ CallOk(t, "idle", NoJob) /\ UrlOk(t, "idle", NoJob) /\ CopyOk(t, "idle", NoJob)'
        /\ "idle" \in Labels /\ NoJob \in Job
    BY <1>1, StopIs, NoJobIs DEF CopyOk
  <2>2. Goto(t, "idle", NoJob)
    BY <2>1
  <2>3. /\ new \in Tables /\ new.dest = View(t).dest /\ new.route[r] = row /\ new.link[r] = J.links
        /\ \A q \in Routes \ {r} : new.route[q] = View(t).route[q] /\ new.link[q] = View(t).link[q]
    BY <1>2, <1>3, <1>4, PutRouteIs
  <2>4. /\ want' \in Tables /\ want'.dest = want.dest /\ want'.link = want.link
        /\ \A q \in Routes \ {r} : want'.route[q] = want.route[q]
        /\ want.route[r] = None => want'.route[r] = None
        /\ want.route[r] # None =>
             want'.route[r] \in Route /\ want'.route[r].on = J.on /\ want'.route[r].policy = want.route[r].policy
    <3>1. CASE want.route[r] = None
      BY <1>4, <1>5, <3>1
    <3>2. CASE want.route[r] # None
      <4>1. want.route[r] \in Route /\ want' = [want EXCEPT !.route[r].on = J.on]
        BY <1>4, <1>5, <3>2 DEF Tables
      <4>2. want' = [want EXCEPT !.route[r] = [@ EXCEPT !.on = J.on]]
        BY <1>4, <4>1 DEF Tables
      <4>3. /\ [want.route[r] EXCEPT !.on = J.on] \in Route
            /\ [want.route[r] EXCEPT !.on = J.on].on = J.on
            /\ [want.route[r] EXCEPT !.on = J.on].policy = want.route[r].policy
        BY <1>3, <4>1 DEF Route
      <4>4. QED
        BY <1>4, <3>2, <4>2, <4>3 DEF Tables
    <3>3. QED
      BY <3>1, <3>2
  <2>5. overlaid' \subseteq overlaid \cup {r} /\ overlaid \subseteq overlaid' /\ (Held(t, r) => r \in overlaid')
    BY <1>5 DEF WritesPart
  <2>6. Commit(t, new) /\ drifted' = TRUE
    BY <1>5
  <2>7. Rows(View(t)) \subseteq Rows(new)
    BY <1>3, <2>3 DEF Rows
  <2> HIDE DEF new
  <2>8. /\ db' = new /\ ~Stale(t)
        /\ \A q \in Routes \ (overlaid \cup {r}) : db'.route[q] = db.route[q] /\ db'.link[q] = db.link[q]
    BY <1>1, <2>3, <2>6, RouteCommit
  <2>9. /\ \A q \in Routes : Pending(pc["api"], job["api"], q)' <=> Pending(pc["api"], job["api"], q)
        /\ Decided(pc["api"], job["api"])' => Decided(pc["api"], job["api"]) /\ job'["api"].policy = job["api"].policy
    BY <1>1, <2>1, StillPending
  <2>10. \A q \in Routes \ (overlaid' \cup {r}) : RouteOk(pc["api"], job["api"], q)'
    BY <2>4, <2>5, <2>8, <2>9, RouteStays DEF Inv
  <2>11. ASSUME r \notin overlaid' PROVE RouteOk(pc["api"], job["api"], r)'
    <3>1. J.row = db.route[r] /\ J.links = db.link[r] /\ r \in Rows(db)
      BY <1>1, <1>2, <2>5, <2>8, <2>11 DEF Inv, CopyInv, CopyOk, Rows
    <3>2. RouteOk(pc["api"], job["api"], r)
      BY <2>5, <2>11 DEF Inv, MeantInv
    <3>3. /\ want.route[r] # None /\ db'.route[r] = row /\ db'.link[r] = db.link[r] /\ db.link[r] = want.link[r]
          /\ ~Pending(pc["api"], job["api"], r) => db.route[r] = want.route[r]
          /\ Pending(pc["api"], job["api"], r) /\ Decided(pc["api"], job["api"]) => want.route[r].policy = job["api"].policy
      BY <2>3, <2>8, <3>1, <3>2 DEF RouteOk, Rows
    <3>4. want'.route[r] # None /\ want'.link[r] = want.link[r] /\ want'.route[r].on = row.on
      BY <1>3, <2>4, <3>3
    <3>5. db.route[r].policy = want.route[r].policy => db'.route[r] = want'.route[r]
      <4>1. db.route[r].policy = want.route[r].policy => row.on = want'.route[r].on /\ row.policy = want'.route[r].policy
        BY <1>3, <2>4, <3>1, <3>3
      <4>2. row \in Route /\ want'.route[r] \in Route
        BY <1>3, <2>4, <3>3
      <4>3. QED
        BY <3>3, <4>1, <4>2 DEF Route
    <3>6. QED
      BY <1>3, <2>4, <2>9, <3>3, <3>4, <3>5 DEF RouteOk, Rows
  <2>12. ManifestInv'
    <3>1. pc'["api"] = pc["api"] /\ job'["api"] = job["api"]
      BY <1>1, <2>1, ApiIsCaller, GotoIs DEF Inv
    <3>2. QED
      BY <1>1, <2>3, <2>6, <2>7, <3>1, ToolCommit
  <2>13. QED
    BY <1>1, <2>1, <2>3, <2>4, <2>5, <2>6, <2>10, <2>11, <2>12, RouteWritten
<1>6. CASE Locked(t) /\ UNCHANGED <<want, overlaid, drifted>>
  BY <1>1, <1>6, StopIs, GiveUp
<1>7. QED
  BY <1>5, <1>6 DEF ToolPut

\* A route gets its policy and keeps all else, whatever the API had read.
LEMMA SyncRouteKeeps ==
  ASSUME Inv, SyncRoute
  PROVE  Inv'
<1> DEFINE J == job["api"]
           left == J.todo \ {J.r}
           row == [J.rows[J.r] EXCEPT !.policy = J.policy]
<1>1. pc["api"] = "sync" /\ UNCHANGED <<file, index, shown, moved, drifted>>
  BY DEF SyncRoute
<1>2. /\ J.op \in {"sync", "start"} /\ J.r \in J.todo /\ J.todo \subseteq Routes /\ J \in Job
      /\ \A q \in J.todo : J.rows[q] \in Route
  BY <1>1, ApiIsCaller DEF Inv, CallInv, CallOk, ApiCall, TypeOK, Job
<1> PICK r \in Routes : r = J.r
  BY <1>2
<1>3. row \in Route /\ row # None /\ row \in Route \cup {None} /\ J.links \in SUBSET Dests
      /\ row.on = J.rows[r].on /\ row.policy = J.policy
  BY <1>2 DEF Job, Route
<1>4. View("api") \in Tables /\ want \in Tables
  BY ApiIsCaller, Sees DEF Inv, TypeOK
<1>5. CASE /\ Commit("api", PutRoute(View("api"), J.r, row, J.links))
           /\ WritesPart("api", J.r)
           /\ IF left = {} THEN Stop("api") ELSE Goto("api", "links", [J EXCEPT !.todo = left])
           /\ UNCHANGED want
  <2> DEFINE new == PutRoute(View("api"), J.r, row, J.links)
  <2>1. NoJob \in Job /\ [J EXCEPT !.todo = left] \in Job
    BY <1>2, NoJobIs DEF Job
  <2> PICK j \in Job : j = IF left = {} THEN NoJob ELSE [J EXCEPT !.todo = left]
    BY <2>1
  <2> PICK l \in {"idle", "links"} : l = IF left = {} THEN "idle" ELSE "links"
    OBVIOUS
  <2>2. Goto("api", l, j) /\ l \in Labels
    BY <1>5, ApiIsCaller, StopIs DEF Labels
  <2>3. l = "links" => j.todo = left /\ j.op = J.op /\ j.rows = J.rows /\ j.policy = J.policy
    BY <1>2 DEF Job
  <2>4. l = "idle" => j = NoJob /\ J.todo = {r}
    BY <1>2
  <2>5. CallOk("api", l, j) /\ UrlOk("api", l, j)
    BY <1>2, <2>3, <2>4, ApiIsCaller, NoJobIs DEF CallOk, ApiCall, UrlOk
  <2>6. /\ new \in Tables /\ new.dest = View("api").dest /\ new.route[r] = row /\ new.link[r] = J.links
        /\ \A q \in Routes \ {r} : new.route[q] = View("api").route[q] /\ new.link[q] = View("api").link[q]
    <3>1. new = PutRoute(View("api"), r, row, J.links)
      OBVIOUS
    <3> HIDE DEF new, row, J
    <3>2. QED
      BY <1>3, <1>4, <3>1, PutRouteIs
  <2>7. overlaid' \subseteq overlaid \cup {r} /\ overlaid \subseteq overlaid' /\ (Held("api", r) => r \in overlaid')
    BY <1>5 DEF WritesPart
  <2>8. Commit("api", new) /\ Rows(View("api")) \subseteq Rows(new)
    BY <1>3, <1>5, <2>6 DEF Rows
  <2> HIDE DEF new
  <2>9. /\ db' = new /\ ~Stale("api")
        /\ \A q \in Routes \ (overlaid \cup {r}) : db'.route[q] = db.route[q] /\ db'.link[q] = db.link[q]
    BY <2>6, <2>8, ApiIsCaller, RouteCommit
  <2>10. /\ \A q \in J.todo \ overlaid : J.rows[q] = db.route[q]
         /\ r \notin overlaid => J.links = db.link[r]
    BY <1>1, <2>9, ApiIsCaller DEF Inv, CopyInv, CopyOk
  <2>11. pc'["api"] = l /\ job'["api"] = j
    BY <2>2, ApiIsCaller, GotoIs DEF Inv
  <2>12. CopyOk("api", l, j)'
    <3>1. \A q \in left \ overlaid' : J.rows[q] = db'.route[q]
      BY <1>2, <2>7, <2>9, <2>10
    <3>2. QED
      BY <2>3, <3>1 DEF CopyOk
  <2>13. ASSUME NEW q \in Routes \ {r}
         PROVE  /\ Pending(pc["api"], job["api"], q)' <=> Pending(pc["api"], job["api"], q)
                /\ Decided(pc["api"], job["api"])' /\ Pending(pc["api"], job["api"], q)' =>
                     Decided(pc["api"], job["api"]) /\ job'["api"].policy = job["api"].policy
    BY <1>1, <1>2, <2>3, <2>4, <2>11, NoJobIs DEF Pending, Decided
  <2>14. \A q \in Routes \ (overlaid' \cup {r}) : RouteOk(pc["api"], job["api"], q)'
    BY <1>5, <2>7, <2>9, <2>13, RouteStays DEF Inv
  <2>15. ASSUME r \notin overlaid' PROVE RouteOk(pc["api"], job["api"], r)'
    <3>1. J.rows[r] = db.route[r] /\ J.links = db.link[r] /\ db.route[r] \in Route /\ r \in Rows(db)
      BY <1>2, <2>7, <2>10, <2>15 DEF Rows
    <3>2. RouteOk(pc["api"], job["api"], r) /\ Pending(pc["api"], job["api"], r) /\ Decided(pc["api"], job["api"])
      BY <1>1, <1>2, <2>7, <2>15 DEF Inv, MeantInv, Pending, Decided
    <3>3. want.route[r] # None /\ want.route[r].on = row.on /\ want.route[r].policy = row.policy /\ db.link[r] = want.link[r]
      BY <1>3, <3>1, <3>2 DEF RouteOk
    <3>4. want.route[r] = row
      BY <1>3, <1>4, <3>3 DEF Tables, Route
    <3>5. db'.route[r] = want'.route[r] /\ db'.link[r] = want'.link[r]
      BY <1>5, <2>6, <2>9, <3>1, <3>3, <3>4
    <3>6. ~Pending(pc["api"], job["api"], r)'
      BY <1>2, <2>3, <2>4, <2>11, NoJobIs DEF Pending
    <3>7. QED
      BY <3>5, <3>6 DEF RouteOk
  <2>16. ManifestInv'
    <3>1. View("api")' = db' /\ conn'["api"].mode # "writing"
      <4>1. conn'["api"] = Fresh /\ (~Stale("api")' => View("api")' = db')
        BY <2>6, <2>8, CommitKeeps, ApiIsCaller DEF Inv
      <4>2. QED
        BY <4>1, FreshIs, ApiIsCaller DEF Stale
    <3>2. l = "links" => j.todo \subseteq Rows(db')
      BY <1>1, <2>3, <2>8, <2>9 DEF Inv, ManifestInv, ManifestOk
    <3>3. ASSUME ~drifted PROVE file.urls = Bound(db')
      <4>1. View("api") = db
        BY <2>9, <3>3, ApiIsCaller, Sees DEF Inv, ManifestInv
      <4>2. file.urls = Bound(db) /\ J.links = db.link[r] /\ r \in Rows(db)
        BY <1>1, <1>2, <2>9, <3>3, <4>1 DEF Inv, ManifestInv, ManifestOk
      <4>3. db'.dest = db.dest /\ Rows(db') = Rows(db) /\ \A q \in Rows(db) : db'.link[q] = db.link[q]
        BY <1>3, <2>6, <2>9, <4>1, <4>2 DEF Rows
      <4>4. QED
        BY <4>2, <4>3, BoundSame
    <3>4. Rows(View("api"))' = Rows(db') /\ Bound(db)' = Bound(db')
      BY <3>1 DEF Rows, Bound
    <3>5. QED
      BY <1>1, <2>11, <3>1, <3>2, <3>3, <3>4 DEF ManifestInv, ManifestOk
  <2>17. drifted' \in BOOLEAN /\ want' \in Tables /\ want'.dest = want.dest
    BY <1>1, <1>5 DEF Inv, TypeOK
  <2>18. QED
    BY <1>1, <2>2, <2>5, <2>6, <2>7, <2>8, <2>12, <2>14, <2>15, <2>16, <2>17, ApiIsCaller, RouteWritten
<1>6. CASE /\ Locked("api") /\ Stop("api")
           /\ want' = [want EXCEPT !.route = [q \in Routes |-> IF q \in J.todo THEN db.route[q] ELSE @[q]]]
           /\ UNCHANGED overlaid
  <2>1. Undisturbed /\ Goto("api", "idle", NoJob) /\ UNCHANGED db
    BY <1>6, ApiIsCaller, LockedKeeps, StopIs DEF Inv, Undisturbed
  <2>2. /\ CallOk("api", "idle", NoJob) /\ UrlOk("api", "idle", NoJob) /\ CopyOk("api", "idle", NoJob)
        /\ "idle" \in Labels /\ NoJob \in Job
    BY ApiIsCaller, NoJobIs DEF UrlOk, CopyOk, Labels
  <2>3. pc'["api"] = "idle" /\ job'["api"] = NoJob
    BY <2>1, ApiIsCaller, GotoIs DEF Inv
  <2>4. /\ want' \in Tables /\ want'.dest = want.dest /\ want'.link = want.link
        /\ \A q \in Routes : want'.route[q] = IF q \in J.todo THEN db.route[q] ELSE want.route[q]
    <3>1. [q \in Routes |-> IF q \in J.todo THEN db.route[q] ELSE want.route[q]] \in [Routes -> Route \cup {None}]
      BY <1>4 DEF Inv, TypeOK, Tables
    <3>2. QED
      BY <1>4, <1>6, <3>1 DEF Tables
  <2>5. MeantInv'
    <3>1. ASSUME NEW q \in Routes \ overlaid PROVE RouteOk(pc["api"], job["api"], q)'
      <4>1. RouteOk(pc["api"], job["api"], q) /\ ~Pending(pc["api"], job["api"], q)'
        BY <2>3, NoJobIs DEF Inv, MeantInv, Pending
      <4>2. q \notin J.todo => ~Pending(pc["api"], job["api"], q)
        BY <1>1 DEF Pending
      <4>3. db.route[q] = want'.route[q]
        BY <2>4, <4>1, <4>2 DEF RouteOk
      <4>4. QED
        BY <2>1, <2>4, <4>1, <4>3 DEF RouteOk, Rows
    <3>2. QED
      BY <1>6, <2>1, <2>4, <3>1 DEF Inv, MeantInv
  <2>6. ManifestInv' /\ StampInv'
    BY <1>1, <2>1, <2>3, ApiIsCaller DEF Inv, ManifestInv, ManifestOk, StampInv, StampOk, Undisturbed
  <2>7. QED
    BY <1>1, <1>6, <2>1, <2>2, <2>4, <2>5, <2>6, ApiQuiet DEF Inv, TypeOK
<1>7. QED
  BY <1>5, <1>6 DEF SyncRoute

\* The row d of a destination is written, and the call ends.
LEMMA DestWritten ==
  ASSUME Inv, NEW c \in Callers, NEW d \in Dests, NEW row \in Dest \cup {None}, NEW meant \in Dest \cup {None},
         Commit(c, PutDest(View(c), d, row)), Goto(c, "idle", NoJob), want' = PutDest(want, d, meant),
         UNCHANGED <<file, index, shown>>, drifted' = TRUE, moved' \in BOOLEAN,
         overlaid' \subseteq overlaid \cup {d}, overlaid \subseteq overlaid' \cup {d}, Held(c, d) => d \in overlaid',
         d \notin overlaid' => meant = row, c = "api" => \A r \in Routes : ~Pending(pc["api"], job["api"], r),
         ~moved' => ~moved /\ (row # None => row.url[2] # Marker /\ (shown[d] # None => shown[d] = Redact(row.url)))
  PROVE  Inv'
<1> DEFINE new == PutDest(View(c), d, row)
<1>1. View(c) \in Tables /\ want \in Tables
  BY Sees DEF Inv, TypeOK
<1>2. /\ new \in Tables /\ new.route = View(c).route /\ new.link = View(c).link /\ new.dest[d] = row
      /\ \A x \in Dests \ {d} : new.dest[x] = View(c).dest[x]
  BY <1>1, PutDestIs
<1>3. /\ want' \in Tables /\ want'.route = want.route /\ want'.link = want.link /\ want'.dest[d] = meant
      /\ \A x \in Dests \ {d} : want'.dest[x] = want.dest[x]
  <2> HIDE DEF new
  <2>1. /\ PutDest(want, d, meant) \in Tables
        /\ PutDest(want, d, meant).route = want.route /\ PutDest(want, d, meant).link = want.link
        /\ PutDest(want, d, meant).dest[d] = meant
        /\ \A x \in Dests \ {d} : PutDest(want, d, meant).dest[x] = want.dest[x]
    BY <1>1, PutDestIs, SMTT(60)
  <2>2. QED
    BY <2>1
<1>4. Commit(c, new)
  OBVIOUS
<1> HIDE DEF new
<1>5. /\ db' = new /\ ~Stale(c) /\ conn' \in [Conns -> [mode : Modes, view : Tables \cup {None}]] /\ ConnInv'
      /\ conn'["api"].mode # "writing" /\ \A o \in Callers : ~Stale(o)' => ~Stale(o)
  BY <1>2, <1>4, ApiIsCaller, CommitKeeps DEF Inv
<1>6. /\ \A r \in Routes \ overlaid : db'.route[r] = db.route[r] /\ db'.link[r] = db.link[r]
      /\ \A x \in Dests \ {d} : db'.dest[x] = db.dest[x]
      /\ db'.dest[d] = row
  BY <1>2, <1>5, Sees DEF Inv
<1>7. /\ CallOk(c, "idle", NoJob) /\ UrlOk(c, "idle", NoJob)
      /\ "idle" \in Labels /\ NoJob \in Job /\ NoJob.op = "none"
  BY NoJobIs DEF UrlOk, Labels
<1>8. pc' \in [Callers -> Labels] /\ job' \in [Callers -> Job]
  BY <1>7, GotoIs DEF Inv
<1>9. TypeOK'
  BY <1>2, <1>3, <1>5, <1>8 DEF Inv, TypeOK
<1>10. CallInv'
  BY <1>7, CallFrame DEF Inv
<1>11. MarkerInv'
  <2>1. \A o \in Callers \ {c} : UrlOk(o, pc[o], job[o]) => UrlOk(o, pc[o], job[o])'
    BY <1>5, GotoIs DEF Inv, UrlOk
  <2>2. UrlOk(c, pc[c], job[c])'
    BY GotoIs DEF Inv, UrlOk
  <2>3. QED
    BY <1>6, <2>1, <2>2 DEF Inv, MarkerInv
<1>12. CopyInv'
  <2>1. CopyOk(c, "idle", NoJob)'
    BY DEF CopyOk
  <2>2. QED
    BY <1>5, <1>6, <2>1, CopyFrame DEF Inv
<1>13. MeantInv'
  <2>1. /\ \A r \in Routes : Pending(pc["api"], job["api"], r)' <=> Pending(pc["api"], job["api"], r)
        /\ Decided(pc["api"], job["api"])' => Decided(pc["api"], job["api"]) /\ job'["api"].policy = job["api"].policy
    BY <1>7, StillPending
  <2>2. \A r \in Routes : r # d
    OBVIOUS
  <2>3. \A r \in Routes \ overlaid' : RouteOk(pc["api"], job["api"], r)'
    BY <1>3, <1>6, <2>1, <2>2, RouteStays DEF Inv
  <2>4. \A x \in Dests \ overlaid' : db'.dest[x] = want'.dest[x]
    BY <1>3, <1>6 DEF Inv, MeantInv
  <2>5. QED
    BY <2>3, <2>4 DEF MeantInv
<1>14. CASE c = "api"
  <2>1. pc'["api"] = "idle"
    BY <1>14, GotoIs DEF Inv
  <2>2. StampInv' /\ ManifestInv'
    BY <2>1 DEF Inv, StampInv, StampOk, ManifestInv, ManifestOk
  <2>3. QED
    BY <1>5, <1>9, <1>10, <1>11, <1>12, <1>13, <2>2 DEF Inv
<1>15. CASE c \in Tools
  <2>1. pc'["api"] = pc["api"] /\ job'["api"] = job["api"]
    BY <1>15, ApiIsCaller, GotoIs DEF Inv
  <2>2. StampInv'
    BY <2>1 DEF Inv, StampInv, StampOk
  <2>3. Rows(View(c)) \subseteq Rows(new)
    BY <1>2 DEF Rows
  <2>4. ManifestInv'
    BY <1>2, <1>4, <1>15, <2>1, <2>3, ToolCommit
  <2>5. QED
    BY <1>5, <1>9, <1>10, <1>11, <1>12, <1>13, <2>2, <2>4 DEF Inv
<1>16. QED
  BY <1>14, <1>15 DEF Callers

\* Inv through upsert_destination.
LEMMA UpsertDestKeeps ==
  ASSUME Inv, NEW c \in Callers, UpsertDest(c)
  PROVE  Inv'
<1> PICK j \in Job : j = job[c]
  BY DEF Inv, TypeOK
<1>1. pc[c] = "putdest" /\ Stop(c) /\ UNCHANGED <<file, index, shown>>
  BY DEF UpsertDest
<1>2. /\ j.op = "dest" /\ j.d \in Dests /\ j.row \in Dest /\ j.keep \subseteq {"on", "url"} /\ j.row # None
      /\ UrlOk(c, "putdest", j) <=> (~Stale(c) => j.row.url[2] # Marker)
      /\ ~moved => UrlOk(c, "putdest", j)
      /\ CopyOk(c, "putdest", j)
  BY <1>1 DEF Inv, CallInv, CallOk, MarkerInv, CopyInv, UrlOk, Job
<1> PICK d \in Dests : d = j.d
  BY <1>2
<1>3. c = "api" => (\A r \in Routes : ~Pending(pc["api"], job["api"], r)) /\ pc["api"] \notin {"collect", "write"}
  BY <1>1, <1>2 DEF Pending
<1> DEFINE old == want.dest[d]
           part(f) == IF f \in j.keep THEN old[f] ELSE j.row[f]
           meant == IF old = None THEN IF j.keep = {} THEN j.row ELSE None ELSE [on |-> part("on"), url |-> part("url")]
<1>4. CASE /\ Commit(c, PutDest(View(c), d, j.row)) /\ want' = PutDest(want, d, meant)
           /\ IF j.keep = {} THEN WritesAll(c, d) ELSE WritesPart(c, d)
           /\ moved' = (moved \/ (shown[d] # None /\ shown[d] # Redact(j.row.url)))
           /\ drifted' = TRUE
  <2>1. old \in Dest \cup {None}
    BY DEF Inv, TypeOK, Tables
  <2>2. meant \in Dest \cup {None}
    BY <1>2, <2>1 DEF Dest
  <2>3. old # None /\ (\A f \in j.keep : j.row[f] = old[f]) => meant = j.row
    BY <1>2, <2>1 DEF Dest
  <2>4. j.keep = {} => meant = j.row
    BY <1>2, <2>3
  <2>5. overlaid' \subseteq overlaid \cup {d} /\ overlaid \subseteq overlaid' \cup {d} /\ (Held(c, d) => d \in overlaid')
        /\ (d \notin overlaid' => j.keep = {} \/ d \notin overlaid)
    BY <1>4 DEF WritesAll, WritesPart
  <2>6. ~Stale(c)
    BY <1>4 DEF Commit, Writable, Stale
  <2>7. ASSUME d \notin overlaid' PROVE meant = j.row
    <3>1. CASE d \notin overlaid /\ j.keep # {}
      <4>1. db.dest[d] # None /\ \A f \in j.keep : j.row[f] = db.dest[d][f]
        BY <1>2, <2>6, <3>1 DEF CopyOk
      <4>2. db.dest[d] = old
        BY <3>1 DEF Inv, MeantInv
      <4>3. QED
        BY <2>3, <4>1, <4>2
    <3>2. QED
      BY <2>4, <2>5, <2>7, <3>1
  <2>8. moved' \in BOOLEAN /\ (~moved' => ~moved /\ j.row.url[2] # Marker /\ (shown[d] # None => shown[d] = Redact(j.row.url)))
    BY <1>2, <1>4, <2>6 DEF Inv, TypeOK
  <2>9. Goto(c, "idle", NoJob)
    BY <1>1, StopIs
  <2> HIDE DEF meant
  <2>10. QED
    BY <1>1, <1>2, <1>3, <1>4, <2>2, <2>5, <2>7, <2>8, <2>9, DestWritten
<1>5. CASE Locked(c) /\ UNCHANGED <<want, overlaid, moved, drifted>>
  BY <1>1, <1>3, <1>5, StopIs, GiveUp
<1>6. QED
  BY <1>4, <1>5 DEF UpsertDest

\* Inv through delete_destination.
LEMMA DeleteDestKeeps ==
  ASSUME Inv, DeleteDest
  PROVE  Inv'
<1>1. PICK d \in Dests :
        /\ \/ /\ Commit("api", PutDest(View("api"), d, None)) /\ want' = PutDest(want, d, None)
              /\ WritesAll("api", d) /\ drifted' = TRUE
           \/ Locked("api") /\ UNCHANGED <<want, overlaid, drifted>>
        /\ Call("api", "idle", NoJob) /\ UNCHANGED <<file, index, shown, moved>>
  BY DEF DeleteDest
<1>2. pc["api"] = "idle" /\ job["api"] = NoJob /\ Goto("api", "idle", NoJob)
  BY <1>1, ApiIsCaller, CallIs
<1>3. (\A r \in Routes : ~Pending(pc["api"], job["api"], r)) /\ pc["api"] \notin {"collect", "write"}
  BY <1>2, NoJobIs DEF Pending
<1>4. CASE /\ Commit("api", PutDest(View("api"), d, None)) /\ want' = PutDest(want, d, None)
           /\ WritesAll("api", d) /\ drifted' = TRUE
  <2>1. overlaid' \subseteq overlaid \cup {d} /\ overlaid \subseteq overlaid' \cup {d} /\ (Held("api", d) => d \in overlaid')
    BY <1>4 DEF WritesAll
  <2>2. moved' \in BOOLEAN /\ (~moved' => ~moved)
    BY <1>1 DEF Inv, TypeOK
  <2>3. QED
    BY <1>1, <1>2, <1>3, <1>4, <2>1, <2>2, ApiIsCaller, DestWritten
<1>5. CASE Locked("api") /\ UNCHANGED <<want, overlaid, drifted>>
  BY <1>1, <1>2, <1>3, <1>5, ApiIsCaller, GiveUp
<1>6. QED
  BY <1>1, <1>4, <1>5

----------------------------------------------------------------------------
(* All of it. *)

\* Inv holds at the start.
LEMMA ControlInit == Init => Inv
<1> SUFFICES ASSUME Init PROVE Inv
  OBVIOUS
<1>1. PICK rs \in SUBSET Routes, ds \in SUBSET Dests, p \in Policies, u \in Shapes \X Secrets :
        /\ db = [route |-> [r \in Routes |-> IF r \in rs THEN [on |-> TRUE, policy |-> p] ELSE None],
                 link  |-> [r \in Routes |-> IF r \in rs THEN ds ELSE {}],
                 dest  |-> [d \in Dests |-> IF d \in ds THEN [on |-> TRUE, url |-> u] ELSE None]]
        /\ file = [ok |-> TRUE, stamp |-> 1, policy |-> p, urls |-> Bound(db)]
        /\ index = [stamp |-> 1, policy |-> p]
  BY DEF Init
<1>2. /\ conn = [o \in Conns |-> Fresh] /\ pc = [c \in Callers |-> "idle"] /\ job = [c \in Callers |-> NoJob]
      /\ shown = [d \in Dests |-> None] /\ want = db /\ overlaid = {} /\ moved = FALSE /\ drifted = FALSE
  BY DEF Init
<1>3. db \in Tables
  <2>1. [on |-> TRUE, policy |-> p] \in Route
    BY DEF Route
  <2>2. [on |-> TRUE, url |-> u] \in Dest
    BY DEF Dest, Url
  <2>3. QED
    BY <1>1, <2>1, <2>2 DEF Tables
<1>4. TypeOK
  <2>1. file \in Manifest /\ index \in [stamp : Nat, policy : Policies] /\ index.stamp <= file.stamp
    <3>1. Bound(db) \in SUBSET Url
      BY <1>3, BoundTyped
    <3>2. QED
      BY <1>1, <3>1 DEF Manifest
  <2>2. conn \in [Conns -> [mode : Modes, view : Tables \cup {None}]]
    BY <1>2, FreshIs
  <2>3. pc \in [Callers -> Labels] /\ job \in [Callers -> Job]
    BY <1>2, NoJobIs DEF Labels
  <2>4. QED
    BY <1>2, <1>3, <2>1, <2>2, <2>3 DEF TypeOK
<1>5. ConnInv /\ conn["api"].mode = "idle"
  BY <1>2, FreshIs DEF ConnInv, ConnOk, Conns
<1>6. CallInv
  BY <1>2, NoJobIs DEF CallInv
<1>7. StampInv
  BY <1>1, <1>2, ApiIsCaller DEF StampInv, StampOk
<1>8. MarkerInv
  <2>1. \A d \in Dests : db.dest[d] # None => db.dest[d].url = u
    BY <1>1
  <2>2. u[2] # Marker
    OBVIOUS
  <2>3. QED
    BY <1>2, <2>1, <2>2 DEF MarkerInv, UrlOk
<1>9. ManifestInv
  BY <1>1, <1>2, <1>5, ApiIsCaller DEF ManifestInv, ManifestOk
<1>10. MeantInv
  BY <1>2, ApiIsCaller, NoJobIs DEF MeantInv, RouteOk, Pending
<1>11. CopyInv
  BY <1>2 DEF CopyInv, CopyOk
<1>12. QED
  BY <1>4, <1>5, <1>6, <1>7, <1>8, <1>9, <1>10, <1>11 DEF Inv

\* Every step keeps Inv.
LEMMA ControlStep ==
  ASSUME Inv, [Next]_vars
  PROVE  Inv'
<1>1. CASE Api
  <2>1. CASE CreateRoute \/ DeleteRoute \/ Collect \/ WriteProjection \/ UpdateConnector
    BY <2>1, CreateRouteKeeps, DeleteRouteKeeps, CollectKeeps, WriteProjectionKeeps, UpdateConnectorKeeps
  <2>2. CASE Stat \/ Build \/ ListRoutes \/ ReadBindings \/ SyncRoute
    BY <2>2, StatKeeps, BuildKeeps, ListRoutesKeeps, ReadBindingsKeeps, SyncRouteKeeps
  <2>3. CASE CreateWebhook \/ UpdateWebhook \/ DeleteDest \/ ShowDest
    BY <2>3, ApiWebhookKeeps, DeleteDestKeeps, ShowDestKeeps
  <2>4. CASE UpsertRoute("api", "collect") \/ UpsertDest("api")
    BY <2>4, ApiIsCaller, UpsertRouteKeeps, UpsertDestKeeps
  <2>5. QED
    BY <1>1, <2>1, <2>2, <2>3, <2>4 DEF Api
<1>2. CASE \E t \in Tools : Tool(t)
  <2>1. PICK t \in Tools : Tool(t)
    BY <1>2
  <2>2. t \in Callers /\ t # "api"
    BY DEF Callers
  <2>3. CASE ToolRoute(t) \/ ToolEnable(t) \/ ToolBindings(t)
    BY <2>3, ToolReads
  <2>4. CASE CreateOutbound(t) \/ UpdateOutbound(t) \/ EnableOutbound(t)
    BY <2>4, OutboundKeeps
  <2>5. CASE UpsertRoute(t, "idle") \/ ToolPut(t) \/ UpsertDest(t)
    BY <2>2, <2>5, UpsertRouteKeeps, ToolPutKeeps, UpsertDestKeeps
  <2>6. QED
    BY <2>1, <2>3, <2>4, <2>5 DEF Tool
<1>3. CASE Crash \/ Restart \/ EditManifest
  BY <1>3, CrashKeeps, RestartKeeps, EditManifestKeeps
<1>4. CASE WorkerWrite \/ \E o \in Conns : Select(o) \/ OtherWrite(o)
  BY <1>4, SelectWorkerKeeps, OtherWriteKeeps
<1>5. CASE UNCHANGED vars
  <2>1. UNCHANGED <<db, conn, file, index, pc, job, shown, want, overlaid, moved, drifted>>
    BY <1>5 DEF vars
  <2>2. Undisturbed
    BY <2>1, SameConn DEF Inv
  <2>3. file \in Manifest /\ file.stamp \in Nat
    BY DEF Inv, TypeOK, Manifest
  <2>4. QED
    BY <2>1, <2>2, <2>3, Standing
<1>6. QED
  BY <1>1, <1>2, <1>3, <1>4, <1>5 DEF Next

\* Inv holds always.
LEMMA ControlInvariant == Spec => []Inv
<1>1. Init => Inv
  BY ControlInit
<1>2. Inv /\ [Next]_vars => Inv'
  BY ControlStep
<1>3. QED
  BY <1>1, <1>2, PTL DEF Spec

\* The tables, the connections, the manifest, the index and the calls have
\* their types, in whatever order callers, tools, the worker and the operator
\* come, and whatever fails.
THEOREM ControlIsTyped == Spec => []TypeOK
<1>1. Inv => TypeOK
  BY DEF Inv
<1>2. QED
  BY <1>1, ControlInvariant, PTL

\* Between two calls of the API a route or a destination is what the calls made
\* of it (upsert_route, upsert_destination, _sync_connector_aggregation and the
\* tools), unless a copy of it was written back.
THEOREM RowsAreMeant == Spec => []RowsAreAsMeant
<1>1. Inv => RowsAreAsMeant
  <2> SUFFICES ASSUME Inv, Up, job["api"].op # "sync" PROVE RowsAreAsMeant
    BY DEF RowsAreAsMeant
  <2>1. \A r \in Routes : ~Pending(pc["api"], job["api"], r)
    BY DEF Up, Pending
  <2>2. QED
    BY <2>1 DEF Inv, MeantInv, RouteOk, RowsAreAsMeant
<1>2. QED
  BY <1>1, ControlInvariant, PTL

\* Between two calls of the API the manifest shows the bindings, unless they
\* were changed where nobody rewrites it (_sync_connector_webhooks).
THEOREM ManifestShows == Spec => []ManifestShowsBindings
<1>1. Inv => ManifestShowsBindings
  BY DEF Inv, ManifestInv, ManifestOk, ManifestShowsBindings
<1>2. QED
  BY <1>1, ControlInvariant, PTL

\* A URL that hides its secret is stored only if the shape of the URL moved
\* under a client, or an old snapshot was shown (restore_redacted_url).
THEOREM MarkerStaysOut == Spec => []NoMarkerStored
<1>1. Inv => NoMarkerStored
  BY DEF Inv, MarkerInv, NoMarkerStored
<1>2. QED
  BY <1>1, ControlInvariant, PTL

\* The cached policy is the one of the file that has its fingerprint: the file
\* is given a new one whenever it changes, and the index keeps the one it saw
\* before it parsed (ConnectorManifestIndex.refresh).
THEOREM IndexFollowsFile == Spec => []IndexMatchesFile
<1>1. Init => IndexMatchesFile
  BY DEF Init, IndexMatchesFile, Parsed
<1>2. Inv /\ IndexMatchesFile /\ [Next]_vars => IndexMatchesFile'
  <2> SUFFICES ASSUME Inv, IndexMatchesFile, [Next]_vars PROVE IndexMatchesFile'
    OBVIOUS
  <2>1. CASE UNCHANGED <<file, index>>
    BY <2>1 DEF IndexMatchesFile, Parsed
  <2>2. CASE Build
    BY <2>2 DEF Build, IndexMatchesFile, Parsed
  <2>3. CASE UNCHANGED index /\ \E doc \in Manifest : Replace(doc)
    <3>1. file'.stamp = file.stamp + 1 /\ file.stamp \in Nat /\ index.stamp \in Nat /\ index.stamp <= file.stamp
      BY <2>3, ReplaceIs DEF Inv, TypeOK, Manifest
    <3>2. index'.stamp # file'.stamp
      BY <2>3, <3>1
    <3>3. QED
      BY <3>2 DEF IndexMatchesFile
  <2>4. CASE Crash
    <3>1. file.stamp >= 1 /\ UNCHANGED file /\ index'.stamp = 0
      BY <2>4 DEF Crash, Inv, StampInv
    <3>2. QED
      BY <3>1 DEF IndexMatchesFile
  <2>5. UNCHANGED <<file, index>> \/ Build \/ Crash \/ (UNCHANGED index /\ \E doc \in Manifest : Replace(doc))
    <3>1. CASE UpdateConnector
      <4>1. PICK p \in Policies \ {NoPolicy} : Replace([file EXCEPT !.policy = p])
        BY <3>1 DEF UpdateConnector
      <4>2. [file EXCEPT !.policy = p] \in Manifest
        BY DEF Inv, TypeOK, Manifest
      <4>3. QED
        BY <3>1, <4>1, <4>2 DEF UpdateConnector
    <3>2. CASE EditManifest
      <4>1. PICK p \in Policies, ok \in BOOLEAN : Replace([file EXCEPT !.policy = p, !.ok = ok])
        BY <3>2 DEF EditManifest
      <4>2. [file EXCEPT !.policy = p, !.ok = ok] \in Manifest
        BY DEF Inv, TypeOK, Manifest
      <4>3. QED
        BY <3>2, <4>1, <4>2 DEF EditManifest
    <3>3. CASE WriteProjection
      <4>1. pc["api"] = "write" /\ job["api"].doc \in Manifest
        BY <3>3, ApiIsCaller DEF WriteProjection, Inv, CallInv, CallOk, ApiCall
      <4>2. QED
        BY <3>3, <4>1 DEF WriteProjection
    <3>4. CASE CreateRoute \/ DeleteRoute \/ Collect \/ Stat \/ ListRoutes \/ ReadBindings \/ SyncRoute
      BY <3>4 DEF CreateRoute, DeleteRoute, Collect, Stat, ListRoutes, ReadBindings, SyncRoute
    <3>5. CASE CreateWebhook \/ UpdateWebhook \/ DeleteDest \/ ShowDest
      BY <3>5 DEF CreateWebhook, UpdateWebhook, NewDest, EditDest, DeleteDest, ShowDest
    <3>6. CASE UpsertRoute("api", "collect") \/ UpsertDest("api")
      BY <3>6 DEF UpsertRoute, UpsertDest
    <3>7. CASE \E t \in Tools : Tool(t)
      <4>1. PICK t \in Tools : Tool(t)
        BY <3>7
      <4>2. CASE ToolRoute(t) \/ ToolEnable(t) \/ ToolBindings(t) \/ ToolPut(t)
        BY <4>2 DEF ToolRoute, ToolEnable, ToolBindings, ToolPut
      <4>3. CASE CreateOutbound(t) \/ UpdateOutbound(t) \/ EnableOutbound(t)
        BY <4>3 DEF CreateOutbound, UpdateOutbound, EnableOutbound, NewDest, EditDest
      <4>4. CASE UpsertRoute(t, "idle") \/ UpsertDest(t)
        BY <4>4 DEF UpsertRoute, UpsertDest
      <4>5. QED
        BY <4>1, <4>2, <4>3, <4>4 DEF Tool
    <3>8. CASE Restart \/ WorkerWrite \/ \E o \in Conns : Select(o) \/ OtherWrite(o)
      BY <3>8 DEF Restart, WorkerWrite, Select, OtherWrite
    <3>9. CASE UNCHANGED vars
      BY <3>9 DEF vars
    <3>10. QED
      BY <3>1, <3>2, <3>3, <3>4, <3>5, <3>6, <3>7, <3>8, <3>9 DEF Next, Api
  <2>6. QED
    BY <2>1, <2>2, <2>3, <2>4, <2>5
<1>3. QED
  BY <1>1, <1>2, ControlInvariant, PTL DEF Spec
=============================================================================
