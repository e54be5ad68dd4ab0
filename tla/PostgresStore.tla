---------------------------- MODULE PostgresStore ----------------------------
(***************************************************************************)
(* The platform's database as its routes, mappers and live demos use it:   *)
(* the rows of storage/postgres.ts with their keys and cascades, the calls *)
(* of server.ts that write them, and the calls one request makes after its *)
(* first, which others may come between and a crash may drop.  A call is a *)
(* transaction: it does all it says or, refused, nothing.  Row ids are     *)
(* drawn once; an id names one row for ever.                               *)
(***************************************************************************)
EXTENDS Naturals, FiniteSets, FiniteSetsExt, Functions

CONSTANTS
  Orgs, ProductKeys, RoleKeys, Products, Versions, JobIds, WorkerIds, Sessions, Grants, Credentials, SignalIds, Events, Plays,
  Maps, Null,
  MaxCalls,     \* bound: requests people make of the platform
  MaxPending,   \* bound: requests under way at once
  MaxRevision   \* bound: revisions of a journey

\* Null names nothing, and a mapper delivers journeys and screens by key.
Sensible ==
  /\ Null \notin Versions \cup WorkerIds \cup Products \cup JobIds
  /\ \A m \in Maps : /\ m = [f \in {"job", "journeys", "screens", "moves"} |-> m[f]]
                     /\ m.job \in JobIds

VARIABLES
  db,     \* the rows, see RowsInit
  work,   \* [requests: what requests have still to write, serving: worker -> its job,
          \*  hosting: {<<worker, session>>} in memory, calls: how many requests]
  kept,   \* rows of removed products that the store in memory keeps, and their ids
  read    \* the aggregates and snapshots that the rows amount to for a caller, see Read

databaseVars == <<db, work, kept, read>>

\* Rows with an id are functions of it, the others sets.
RowsInit ==
  LET none == [k \in {} |-> Null] IN
  [products |-> none,      \* [org, key, active]
   roles |-> {},           \* [product, key, credential]: a product has one environment
   versions |-> none,      \* [org, product, n, status]
   tasks |-> {},           \* customer_jobs: [version, key]
   journeys |-> {},        \* [version, key, role, text, rev, approval, approved]
   coverage |-> {},        \* [version, role, key]
   types |-> none,         \* screen_types: <<version, screen>> -> name, url_template and purpose, whatever the role
   screens |-> {},         \* screen_states: [version, role, screen]
   moves |-> {},           \* transitions: [version, role, from, to]
   plays |-> {},           \* [version, id, approved]
   training |-> none,      \* [org, product, job, journey]
   jobs |-> none,          \* [org, product, version, role, status, owner, live]
   artifacts |-> none,     \* job -> what its mapper delivered
   sessions |-> none, credentials |-> none, grants |-> none, feedback |-> none]     \* as in PlatformStore

Put(f, k, v) == [x \in DOMAIN f \cup {k} |-> IF x = k THEN v ELSE f[x]]
Drop(f, K) == Restrict(f, DOMAIN f \ K)
Over(f, g) == [x \in DOMAIN f \cup DOMAIN g |-> IF x \in DOMAIN f THEN f[x] ELSE g[x]]
OfProduct(f, p) == {k \in DOMAIN f : f[k].product = p}
Of(rows, v) == {x \in rows : x.version = v}
Without(row, columns) == Restrict(row, DOMAIN row \ columns)
Owned(o, table) == {k \in DOMAIN db[table] : db[table][k].org = o}
Open(v) == v \in DOMAIN db.versions /\ db.versions[v].status \in {"draft", "mapping", "verifying", "review"}
IsRole(p, r) == \E x \in db.roles : x.product = p /\ x.key = r
Saves(table, rows) == db' = [db EXCEPT ![table] = rows]
Stores(table, id, row) == Saves(table, Put(db[table], id, row))
\* gen_random_uuid, randomUUID: the next id nobody has drawn.
Drawn(S, table) == LET free == S \ (DOMAIN db[table] \cup kept.ids) IN IF free = {} THEN {} ELSE {CHOOSE x \in free : TRUE}
Called == work' = [work EXCEPT !.calls = @ + 1]
Asks(request) == work' = [work EXCEPT !.calls = @ + 1, !.requests = @ \cup {request}]
Done(request) == work' = [work EXCEPT !.requests = @ \ {request}]

-----------------------------------------------------------------------------
(* The rows as the aggregates and snapshots a caller reads. *)
Leases == [j \in {x \in DOMAIN db.jobs : db.jobs[x].owner # Null} |-> [owner |-> db.jobs[j].owner, live |-> db.jobs[j].live]]
RolesOf(p) == {r \in db.roles : r.product = p}
\* The state of a screen is its role's, what is said about it its type's.
DescribedScreen(s) == [role |-> s.role, screen |-> s.screen, about |-> db.types[<<s.version, s.screen>>]]
Snapshot(v) ==
  [org |-> db.versions[v].org, product |-> db.versions[v].product, n |-> db.versions[v].n, status |-> db.versions[v].status,
   journeys |-> {Without(j, {"version"}) : j \in Of(db.journeys, v)},
   coverage |-> {Without(c, {"version"}) : c \in Of(db.coverage, v)},
   screens |-> {DescribedScreen(s) : s \in Of(db.screens, v)},
   moves |-> {Without(t, {"version"}) : t \in Of(db.moves, v)},
   plays |-> {Without(t, {"version"}) : t \in Of(db.plays, v)}]

\* Keys of screens are numbered anew by each survey, so that maps may say
\* different things of one key.  What another map disputes the stores tell
\* differently: the last map's word for every role here, each role's own in
\* memory.  There `read` holds Null; all else is compared.
Disputed(s, about) == \E m \in Maps : s \in DOMAIN m.screens /\ m.screens[s] # about
Said(s, about) == IF Disputed(s, about) THEN Null ELSE about
Compared(v) == [Snapshot(v) EXCEPT !.screens = {[x EXCEPT !.about = Said(x.screen, @)] : x \in @}]
Undisputed(m) == [m EXCEPT !.screens = [s \in DOMAIN @ |-> Said(s, @[s])]]

Read ==
  [products |-> [p \in DOMAIN db.products |-> [org |-> db.products[p].org, key |-> db.products[p].key, active |-> db.products[p].active,
     roles |-> [k \in {r.key : r \in RolesOf(p)} |-> (CHOOSE r \in RolesOf(p) : r.key = k).credential]]],
   catalogs |-> [v \in DOMAIN db.versions |-> Compared(v)],
   jobs |-> [j \in DOMAIN db.jobs |-> Without(db.jobs[j], {"owner", "live"})],
   leases |-> Over(Leases, kept.leases), artifacts |-> Over(db.artifacts, kept.artifacts),
   sessions |-> db.sessions, credentials |-> db.credentials,
   grants |-> Over(db.grants, kept.grants), feedback |-> db.feedback, training |-> Over(db.training, kept.training)]

-----------------------------------------------------------------------------
(* Products.  A key is taken once in an organization. *)

PostProduct(o, p, k) ==
  /\ \A x \in Owned(o, "products") : db.products[x].key # k
  /\ db' = [db EXCEPT !.products = Put(@, p, [org |-> o, key |-> k, active |-> Null]),
                      !.roles = @ \cup {[product |-> p, key |-> "default", credential |-> Null]}]
  /\ Called /\ UNCHANGED kept

\* Sessions go first, for they hold on to their version; what was learned from
\* one would be left without an organization, and the call is refused.
DeleteProduct(o, p) ==
  LET vs == OfProduct(db.versions, p)
      js == OfProduct(db.jobs, p)
      Others(rows) == {x \in rows : x.version \notin vs}
      With(more, f, K) == Over(Restrict(more, DOMAIN more \ K), Restrict(f, DOMAIN f \cap K))
  IN
  /\ p \in Owned(o, "products") /\ OfProduct(db.feedback, p) = {}
  /\ db' = [db EXCEPT !.products = Drop(@, {p}), !.roles = {r \in @ : r.product # p}, !.versions = Drop(@, vs),
              !.types = Restrict(@, {k \in DOMAIN @ : k[1] \notin vs}),
              !.tasks = Others(@), !.journeys = Others(@), !.coverage = Others(@), !.screens = Others(@), !.moves = Others(@),
              !.plays = Others(@), !.training = Drop(@, OfProduct(@, p)), !.jobs = Drop(@, js), !.artifacts = Drop(@, js),
              !.sessions = Drop(@, OfProduct(@, p)), !.grants = Drop(@, OfProduct(@, p))]
  /\ kept' = [leases |-> With(kept.leases, Leases, js), artifacts |-> With(kept.artifacts, db.artifacts, js),
              grants |-> With(kept.grants, db.grants, OfProduct(db.grants, p)),
              training |-> With(kept.training, db.training, OfProduct(db.training, p)),
              ids |-> kept.ids \cup {p} \cup vs \cup js \cup UNION {OfProduct(db[t], p) : t \in {"sessions", "grants", "training"}}]
  /\ Called

-----------------------------------------------------------------------------
(* A draft begins as a copy of what the product has published, in rows of   *)
(* its own.                                                                 *)

Copies(rows, source, v) == {[x EXCEPT !.version = v] : x \in Of(rows, source)}
Cloned(source, v) ==
  [db EXCEPT !.types = Over([k \in {<<v, t[2]>> : t \in {x \in DOMAIN @ : x[1] = source}} |-> @[<<source, k[2]>>]], @),
             !.tasks = @ \cup Copies(@, source, v), !.screens = @ \cup Copies(@, source, v), !.moves = @ \cup Copies(@, source, v),
             !.journeys = @ \cup Copies(@, source, v), !.coverage = @ \cup Copies(@, source, v),
             !.plays = @ \cup {x \in Copies(@, source, v) : x.approved}]
Drafted(o, p, v) ==
  LET active == db.products[p].active
      row == [org |-> o, product |-> p, status |-> "draft", n |-> Max({0} \cup {db.versions[x].n : x \in OfProduct(db.versions, p)}) + 1]
      rows == IF active # Null /\ db.versions[active].status = "published" THEN Cloned(active, v) ELSE db
  IN [rows EXCEPT !.versions = Put(@, v, row)]
PostCatalog(o, p, v) == p \in Owned(o, "products") /\ db' = Drafted(o, p, v) /\ Called /\ UNCHANGED kept

\* CatalogService checks that each role is covered, and stores the bundle, before
\* the version is locked and its approvals are counted.
PostPublish(o, v) ==
  /\ v \in Owned(o, "versions")
  /\ \A r \in db.roles : r.product = db.versions[v].product => \E c \in Of(db.coverage, v) : c.role = r.key
  /\ Asks([kind |-> "publish", org |-> o, of |-> v])
  /\ UNCHANGED <<db, kept>>
Approved(v) == Of(db.journeys, v) # {} /\ \A j \in Of(db.journeys, v) : j.approval = "approved" /\ j.approved = j.text
PublishCatalog(f) ==
  /\ f.kind = "publish" /\ Open(f.of) /\ Approved(f.of) /\ Done(f)
  /\ LET p == db.versions[f.of].product
         Status(x) == IF x = f.of THEN "published"
                      ELSE IF db.versions[x].product = p /\ db.versions[x].status = "published" THEN "retired"
                      ELSE db.versions[x].status
     IN db' = [db EXCEPT !.versions = [x \in DOMAIN @ |-> [@[x] EXCEPT !.status = Status(x)]], !.products[p].active = f.of]
  /\ UNCHANGED kept

\* SalesTrainingService: captured as drafts, approved one by one.
SavePlay(o, v, play) ==
  /\ v \in Owned(o, "versions") /\ Open(v)
  /\ Saves("plays", {x \in db.plays : x.version # v \/ x.id # play.id} \cup {play})
  /\ Called /\ UNCHANGED kept
IsPlay(v, n) == \E x \in Of(db.plays, v) : x.id = n
TrainPlay(o, v, n) == ~IsPlay(v, n) /\ SavePlay(o, v, [version |-> v, id |-> n, approved |-> FALSE])
ApprovePlay(o, v, n) == IsPlay(v, n) /\ SavePlay(o, v, [version |-> v, id |-> n, approved |-> TRUE])

-----------------------------------------------------------------------------
(* A review decides, then notes what was decided, and for a rework queues a *)
(* job for the journey's role.                                              *)

Id(j) == <<j.version, j.key, j.role>>
PostReview(o, j, decision) ==
  /\ j.version \in Owned(o, "versions") /\ Open(j.version)
  /\ Saves("journeys", (db.journeys \ {j}) \cup
       {[j EXCEPT !.approval = decision, !.approved = IF decision = "approved" THEN j.text ELSE Null]})
  /\ Asks([kind |-> "review", org |-> o, of |-> Id(j), rework |-> decision = "rework_requested"])
  /\ UNCHANGED kept
NoteReview(f, e) ==
  /\ f.kind = "review" /\ \E j \in db.journeys : Id(j) = f.of
  /\ Stores("training", e, [org |-> f.org, product |-> db.versions[f.of[1]].product, job |-> Null, journey |-> f.of])
  /\ work' = [work EXCEPT !.requests = (@ \ {f}) \cup (IF f.rework THEN {[kind |-> "rework", org |-> f.org, of |-> f.of]} ELSE {})]
  /\ UNCHANGED kept

\* The keys of a job want its version.
Queues(o, j, v, r) ==
  /\ v \in DOMAIN db.versions
  /\ Stores("jobs", j, [org |-> o, product |-> db.versions[v].product, version |-> v, role |-> r, status |-> "queued", owner |-> Null, live |-> FALSE])
QueueRework(f, j) == f.kind = "rework" /\ Queues(f.org, j, f.of[1], f.of[3]) /\ Done(f) /\ UNCHANGED kept
\* Of an open version: the one asked for, or the latest; the draft that a product
\* without one gets, or that was asked for, is PostCatalog's.
PostMappingJob(o, v, r) ==
  /\ v \in Owned(o, "versions") /\ Open(v) /\ IsRole(db.versions[v].product, r)
  /\ Asks([kind |-> "map", org |-> o, of |-> <<v, r>>]) /\ UNCHANGED <<db, kept>>
QueueMapping(f, j) == f.kind = "map" /\ Queues(f.org, j, f.of[1], f.of[2]) /\ Done(f) /\ UNCHANGED kept

\* The process of a request died, or the database refused what it had still to write.
Abandon(f) == Done(f) /\ UNCHANGED <<db, kept>>

-----------------------------------------------------------------------------
(* Mapping jobs: controlled by people, claimed and checkpointed by workers  *)

JobSet(j, status, owner) == Put(db.jobs, j, [db.jobs[j] EXCEPT !.status = status, !.owner = owner, !.live = owner # Null])
From == [pause |-> {"queued", "running"}, resume |-> {"waiting_for_human"}, cancel |-> {"queued", "running", "waiting_for_human"}]
ToStatus == [pause |-> "waiting_for_human", resume |-> "queued", cancel |-> "cancelled"]
PostControl(o, j, action) ==
  /\ j \in Owned(o, "jobs") /\ db.jobs[j].status \in From[action]
  /\ Saves("jobs", JobSet(j, ToStatus[action], Null))
  /\ Asks([kind |-> "control", org |-> o, of |-> j])
  /\ UNCHANGED kept
NoteControl(f, e) ==
  /\ f.kind = "control" /\ f.of \in DOMAIN db.jobs /\ Done(f)
  /\ Stores("training", e, [org |-> f.org, product |-> db.jobs[f.of].product, job |-> f.of, journey |-> <<>>])
  /\ UNCHANGED kept

Serves(w, j) == work' = [work EXCEPT !.serving[w] = j]
ClaimRow(w, j) ==
  /\ work.serving[w] = Null
  /\ LET row == db.jobs[j] IN
     \/ row.status = "queued" \/ row.owner = w
     \/ row.status = "running" /\ (row.owner = Null \/ ~row.live)
  /\ Saves("jobs", JobSet(j, "running", w)) /\ Serves(w, j) /\ UNCHANGED kept
Holds(w) == work.serving[w] \in DOMAIN db.jobs /\ db.jobs[work.serving[w]].owner = w
\* Between stages a worker saves its job as running; refused, it has lost the
\* lease and stops.
Progress(w) ==
  /\ work.serving[w] # Null /\ UNCHANGED kept
  /\ \/ Holds(w) /\ Saves("jobs", JobSet(work.serving[w], "running", w)) /\ UNCHANGED work
     \/ ~Holds(w) /\ Serves(w, Null) /\ UNCHANGED db
Stops(w, outcomes) ==
  /\ work.serving[w] # Null /\ Holds(w) /\ Serves(w, Null) /\ UNCHANGED kept
  /\ \E status \in outcomes : Saves("jobs", JobSet(work.serving[w], status, Null))
\* The key of a journey names the role it was mapped for.
Keyed(m, r) == [m EXCEPT !.journeys = [key \in (DOMAIN m.journeys) \X {r} |-> m.journeys[key[1]]]]
\* A mapper reports its progress and delivers its map whoever holds the lease.
Reports(w, e) ==
  LET j == work.serving[w] IN
  /\ j \in DOMAIN db.jobs
  /\ Stores("training", e, [org |-> db.jobs[j].org, product |-> db.jobs[j].product, job |-> j, journey |-> <<>>])
  /\ UNCHANGED <<work, kept>>
Delivers(w, m) ==
  /\ work.serving[w] \in DOMAIN db.jobs /\ m.job = work.serving[w]
  /\ Stores("artifacts", m.job, Keyed(m, db.jobs[m.job].role)) /\ UNCHANGED <<work, kept>>

-----------------------------------------------------------------------------
(* The map of a role replaces that role's rows.  An event, or a move of     *)
(* another screen, that still names a row about to go is to be set null, by *)
(* a key of which the organization is a part that may not be null: the call *)
(* is refused.  For the moves it is the order of the rows that decides.     *)

OfRole(rows, v, r) == {x \in Of(rows, v) : x.role = r}
Replaced(v, r) == {Id(j) : j \in OfRole(db.journeys, v, r)}
Named(v, r) == \E e \in DOMAIN db.training : db.training[e].journey \in Replaced(v, r)
Pointed(v, r) == \E t \in OfRole(db.moves, v, r) : t.from # t.to
\* wrong: an approval outlives the text it was given for
JourneyRowStillApproved(v, r, k, text) ==
  LET before == {j \in OfRole(db.journeys, v, r) : j.key = k}
      was == CHOOSE j \in before : TRUE
      current == before # {} /\ was.approval = "approved"
  IN [version |-> v, key |-> k, role |-> r, text |-> text,
      rev |-> IF before = {} THEN 1 ELSE IF was.text = text THEN was.rev ELSE was.rev + 1,
      approval |-> IF current THEN "approved" ELSE "pending", approved |-> IF current THEN text ELSE Null]
JourneyRow(v, r, k, text) ==
  LET before == {j \in OfRole(db.journeys, v, r) : j.key = k}
      was == CHOOSE j \in before : TRUE
      current == before # {} /\ was.approval = "approved" /\ was.approved = text
  IN [version |-> v, key |-> k, role |-> r, text |-> text,
      rev |-> IF before = {} THEN 1 ELSE IF was.text = text THEN was.rev ELSE was.rev + 1,
      approval |-> IF current THEN "approved" ELSE "pending", approved |-> IF current THEN text ELSE Null]
\* customer_jobs without a journey go, and coverage with them; a screen's type
\* stays, and is overwritten for every role by whichever map names it last.
Remapped(v, r, m) ==
  LET keys == DOMAIN m.journeys
      others == db.journeys \ OfRole(db.journeys, v, r)
      tasks == {t \in db.tasks : t.version = v => \E j \in others : j.version = v /\ j.key = t.key}
      covered == {c \in db.coverage \ OfRole(db.coverage, v, r) : [version |-> c.version, key |-> c.key] \in tasks}
  IN [db EXCEPT
        !.journeys = others \cup {JourneyRow(v, r, k, m.journeys[k]) : k \in keys},
        !.tasks = tasks \cup {[version |-> v, key |-> k] : k \in keys},
        !.coverage = covered \cup {[version |-> v, role |-> r, key |-> k] : k \in keys},
        !.types = Over([k \in {v} \X DOMAIN m.screens |-> m.screens[k[2]]], @),
        !.screens = (@ \ OfRole(@, v, r)) \cup {[version |-> v, role |-> r, screen |-> s] : s \in DOMAIN m.screens},
        !.moves = (@ \ OfRole(@, v, r)) \cup {[version |-> v, role |-> r, from |-> t[1], to |-> t[2]] : t \in m.moves},
        !.versions[v].status = "review"]
Deliverable(w) == work.serving[w] \in DOMAIN db.jobs /\ work.serving[w] \in DOMAIN db.artifacts
Persist(w) ==
  /\ Deliverable(w)
  /\ LET job == db.jobs[work.serving[w]]
         v == job.version
         r == job.role
     IN /\ Open(v) /\ IsRole(db.versions[v].product, r) /\ ~Named(v, r)
        /\ db' = Remapped(v, r, db.artifacts[work.serving[w]])
        \* The row a review still has to note is gone.
        /\ work' = [work EXCEPT !.requests = {f \in @ : f.kind = "review" => f.of \notin Replaced(v, r)}]
  /\ UNCHANGED kept
\* Refused, the job is queued again and at last fails.
PersistRefused(w) ==
  /\ Deliverable(w)
  /\ LET job == db.jobs[work.serving[w]] IN ~Open(job.version) \/ Named(job.version, job.role) \/ Pointed(job.version, job.role)
  /\ Stops(w, {"queued", "failed"})

-----------------------------------------------------------------------------
(* Live demos and their recovery *)

\* The browser starts between the version's being chosen and the row's being
\* written; the row's keys want the version.
BeginDemo(o, p, w) ==
  /\ p \in Owned(o, "products") /\ db.products[p].active # Null
  /\ Asks([kind |-> "demo", org |-> o, of |-> db.products[p].active, by |-> w]) /\ UNCHANGED <<db, kept>>
StartDemo(f, s) ==
  /\ f.kind = "demo" /\ f.of \in DOMAIN db.versions
  /\ Stores("sessions", s, [org |-> f.org, product |-> db.versions[f.of].product, version |-> f.of, status |-> "active", worker |-> f.by, live |-> TRUE])
  /\ work' = [work EXCEPT !.requests = @ \ {f}, !.hosting = @ \cup {<<f.by, s>>}]
  /\ UNCHANGED kept
Hosts(w, s) == <<w, s>> \in work.hosting
\* An update of a row that is gone goes unnoticed.
Updated(s, w, status, live) ==
  IF s \in DOMAIN db.sessions THEN Put(db.sessions, s, [db.sessions[s] EXCEPT !.status = status, !.worker = w, !.live = live]) ELSE db.sessions
CheckpointDemo(w, s) == Hosts(w, s) /\ Saves("sessions", Updated(s, w, "active", TRUE)) /\ UNCHANGED <<work, kept>>
EndDemo(w, s) ==
  /\ Hosts(w, s) /\ UNCHANGED kept
  /\ \E live \in BOOLEAN : Saves("sessions", Updated(s, w, "ended", live))      \* its own copy of the lease
  /\ work' = [work EXCEPT !.hosting = @ \ {<<w, s>>},
       !.requests = @ \cup (IF s \in DOMAIN db.sessions THEN {[kind |-> "signal", org |-> db.sessions[s].org, of |-> s]} ELSE {})]
\* Its keys want the session and the product.
SaveSignal(f, x) ==
  /\ f.kind = "signal" /\ f.of \in DOMAIN db.sessions /\ Done(f)
  /\ Stores("feedback", x, [org |-> f.org, product |-> db.sessions[f.of].product, session |-> f.of]) /\ UNCHANGED kept
RecoverDemo(w, s) ==
  /\ s \in DOMAIN db.sessions /\ db.sessions[s].status = "active" /\ (db.sessions[s].worker = w \/ ~db.sessions[s].live)
  /\ Saves("sessions", Updated(s, w, "active", TRUE))
  /\ work' = [work EXCEPT !.hosting = @ \cup {<<w, s>>}] /\ UNCHANGED kept

Lapses ==
  /\ \/ \E j \in DOMAIN db.jobs : db.jobs[j].live /\ Stores("jobs", j, [db.jobs[j] EXCEPT !.live = FALSE])
     \/ \E s \in DOMAIN db.sessions : db.sessions[s].live /\ Stores("sessions", s, [db.sessions[s] EXCEPT !.live = FALSE])
  /\ UNCHANGED <<work, kept>>
WorkerDies(w) ==
  /\ work.serving[w] # Null \/ \E s \in Sessions : Hosts(w, s)
  /\ work' = [work EXCEPT !.serving[w] = Null, !.hosting = {h \in @ : h[1] # w}] /\ UNCHANGED <<db, kept>>

-----------------------------------------------------------------------------
(* Access.  A role saved again under its key keeps its row. *)

PostCredential(o, c) == Stores("credentials", c, o) /\ Called /\ UNCHANGED kept
PostRole(o, p, k, c) ==
  /\ p \in Owned(o, "products") /\ (c # Null => c \in DOMAIN db.credentials /\ db.credentials[c] = o)
  /\ Saves("roles", {r \in db.roles : r.product # p \/ r.key # k} \cup {[product |-> p, key |-> k, credential |-> c]})
  /\ Called /\ UNCHANGED kept
PostGrant(o, g, p, k) ==
  /\ p \in Owned(o, "products") /\ db.products[p].active # Null /\ IsRole(p, k)
  /\ Stores("grants", g, [org |-> o, product |-> p, role |-> k, revoked |-> FALSE]) /\ Called /\ UNCHANGED kept
DeleteGrant(o, g) ==
  /\ g \in Owned(o, "grants") /\ ~db.grants[g].revoked
  /\ Stores("grants", g, [db.grants[g] EXCEPT !.revoked = TRUE]) /\ Called /\ UNCHANGED kept

-----------------------------------------------------------------------------
DatabaseInit ==
  /\ db = RowsInit
  /\ work = [requests |-> {}, serving |-> [w \in WorkerIds |-> Null], hosting |-> {}, calls |-> 0]
  /\ LET none == [k \in {} |-> Null] IN kept = [leases |-> none, artifacts |-> none, grants |-> none, training |-> none, ids |-> {}]
  /\ read = Read

Decisions == {"approved", "rejected", "rework_requested"}
Transaction ==
  \/ \E o \in Orgs :
       /\ work.calls < MaxCalls /\ Cardinality(work.requests) < MaxPending
       /\ \/ \E k \in ProductKeys, p \in Drawn(Products, "products") : PostProduct(o, p, k)
          \/ \E p \in DOMAIN db.products :
               \/ DeleteProduct(o, p)
               \/ \E v \in Drawn(Versions, "versions") : PostCatalog(o, p, v)
               \/ \E k \in RoleKeys, c \in Credentials \cup {Null} : PostRole(o, p, k, c)
               \/ \E g \in Drawn(Grants, "grants"), k \in RoleKeys : PostGrant(o, g, p, k)
               \/ \E w \in WorkerIds : BeginDemo(o, p, w)
          \/ \E v \in DOMAIN db.versions :
               \/ PostPublish(o, v)
               \/ \E n \in Plays : TrainPlay(o, v, n) \/ ApprovePlay(o, v, n)
               \/ \E r \in RoleKeys : PostMappingJob(o, v, r)
          \/ \E j \in db.journeys, d \in Decisions : PostReview(o, j, d)
          \/ \E j \in DOMAIN db.jobs, action \in DOMAIN ToStatus : PostControl(o, j, action)
          \/ \E c \in Drawn(Credentials, "credentials") : PostCredential(o, c)
          \/ \E g \in DOMAIN db.grants : DeleteGrant(o, g)
  \/ \E f \in work.requests :
       \/ \E e \in Drawn(Events, "training") : NoteReview(f, e) \/ NoteControl(f, e)
       \/ \E j \in Drawn(JobIds, "jobs") : QueueRework(f, j) \/ QueueMapping(f, j)
       \/ \E s \in Drawn(Sessions, "sessions") : StartDemo(f, s)
       \/ \E x \in Drawn(SignalIds, "feedback") : SaveSignal(f, x)
       \/ PublishCatalog(f) \/ Abandon(f)
  \/ \E w \in WorkerIds :
       \/ \E j \in DOMAIN db.jobs : ClaimRow(w, j)
       \/ \E m \in Maps : Delivers(w, m)
       \/ \E e \in Drawn(Events, "training") : Reports(w, e)
       \/ Progress(w) \/ PersistRefused(w) \/ WorkerDies(w)
       \/ Persist(w) /\ \A j \in db'.journeys : j.rev <= MaxRevision
       \/ Deliverable(w) /\ Stops(w, {"completed"})
       \/ Stops(w, {"queued", "failed"})
       \/ \E s \in Sessions : CheckpointDemo(w, s) \/ EndDemo(w, s) \/ RecoverDemo(w, s)
  \/ Lapses
DatabaseNext == Transaction /\ read' = Read'
DatabaseSpec == DatabaseInit /\ [][DatabaseNext]_databaseVars

-----------------------------------------------------------------------------
Delivered == {Keyed(m, r) : m \in Maps, r \in RoleKeys}
P == INSTANCE PlatformStore WITH store <- read, None <- Null, Jobs <- JobIds, Workers <- WorkerIds, Signals <- SignalIds,
                                    Maps <- Delivered \cup {Undisputed(m) : m \in Delivered}

(***************************************************************************)
(* Whatever the routes, the mappers and the demos do to the database, and  *)
(* in whatever order their transactions fall, is a call the tests' store   *)
(* would have answered the same way: what is copied into a draft, what the *)
(* map of one role leaves alone and which approvals outlive it, what is    *)
(* published and what retires, whose lease a job runs under, what is gone  *)
(* with a product, what a screen is said to be where no two maps dispute it *)
(* (storage/postgres.ts, storage/memory.ts).                               *)
(***************************************************************************)
ImplementsStore == P!StoreInit /\ [][UNCHANGED read \/ P!StoreNext]_read   \* P!StoreSpec, what TLC should try first written first
=============================================================================
